------------------------ MODULE PluginUpgrade_proofs ------------------------
(***************************************************************************)
(* What PluginUpgrade guarantees for every set of requests, sessions,      *)
(* upgrades and versions, proved with TLAPS.                               *)
(***************************************************************************)
EXTENDS PluginUpgrade, FiniteSetTheorems, TLAPS

(* A suspended upgrade knows what it read of the row. *)
Planned ==
  \A u \in Upgrades :
    phase[u] # "idle" =>
      plan[u] \in Plans /\ plan[u].caps \subseteq Declared[plan[u].from]

Typed == TypeOK /\ Planned

(* Whoever waits for the drain is draining; whoever is past the wait found no
   lease, and none is given as long as the gateway is closed. *)
Drained ==
  /\ \A u \in waiters : phase[u] = "draining"
  /\ \A u \in Upgrades : phase[u] # "idle" /\ u \notin waiters => active = 0

(* Every request that is under way holds a drain lease. *)
LeasesHeld == Cardinality(UnderWay) <= active

IInv == Typed /\ OneUpgrade /\ Drained /\ LeasesHeld /\ StreamsCounted

(* The case analysis of a step. *)
LEMMA StepCases ==
  ASSUME Next
  PROVE  \/ \E r \in Requests, s \in Sessions : Open(r, s)
         \/ \E r \in Requests : Answer(r)
         \/ \E r \in Requests : End(r)
         \/ \E r \in Requests : Abandon(r)
         \/ Launch
         \/ \E v \in Versions : Connect(v)
         \/ \E v \in Versions : Vanish(v)
         \/ \E u \in Upgrades, v \in Versions : Begin(u, v)
         \/ \E u \in Upgrades : DrainTimeout(u)
         \/ \E u \in Upgrades : Install(u)
         \/ \E u \in Upgrades : ProbeHealthy(u)
         \/ \E u \in Upgrades : ProbeUnhealthy(u)
         \/ \E u \in Upgrades : Restore(u)
         \/ \E C \in SUBSET Capabilities : SetCapabilities(C)
         \/ Disable \/ Enable \/ Uninstall
         \/ Crash
BY DEF Next

LEMMA UnderWayFinite ==
  /\ IsFiniteSet(UnderWay) /\ Cardinality(UnderWay) \in Nat
  /\ \A s : IsFiniteSet(Of(s)) /\ Cardinality(Of(s)) \in Nat
<1>1. IsFiniteSet(UnderWay)
  <2>1. UnderWay \subseteq Requests
    BY DEF UnderWay
  <2> QED
    BY <2>1, UpgradeAssumption, FS_Subset
<1>2. ASSUME NEW s
      PROVE  IsFiniteSet(Of(s)) /\ Cardinality(Of(s)) \in Nat
  <2>1. Of(s) \subseteq UnderWay
    BY DEF Of
  <2> QED
    BY <1>1, <2>1, FS_Subset, FS_CardinalityType
<1> QED
  BY <1>1, <1>2, FS_CardinalityType

(* A request that is under way keeps the count of leases positive. *)
LEMMA LeaseCounted ==
  ASSUME IInv, NEW r \in Requests, request[r].at # "idle"
  PROVE  active >= 1
<1>1. r \in UnderWay
  BY DEF UnderWay
<1>2. Cardinality(UnderWay) # 0
  BY <1>1, UnderWayFinite, FS_EmptySet
<1> QED
  BY <1>2, UnderWayFinite DEF IInv, Typed, TypeOK, LeasesHeld

(* While an upgrade is past the drain no request is under way. *)
LEMMA IdleWhenDrained ==
  ASSUME IInv, NEW u \in Upgrades, phase[u] # "idle", u \notin waiters
  PROVE  active = 0 /\ UnderWay = {}
<1>1. active = 0
  BY DEF IInv, Drained
<1>2. Cardinality(UnderWay) = 0
  BY <1>1, UnderWayFinite DEF IInv, LeasesHeld
<1> QED
  BY <1>1, <1>2, UnderWayFinite, FS_EmptySet

-----------------------------------------------------------------------------
(* The invariant, one lemma per kind of step. *)

RowTyped ==
  /\ status \in {"installed", "disabled", "uninstalled"}
  /\ version \in Versions
  /\ granted \subseteq Declared[version]
  /\ launched \subseteq Versions /\ connected \subseteq Versions
  /\ taken \subseteq Capabilities /\ regranted \subseteq Capabilities

(* Steps of the workers and of the administrator. *)
LEMMA RowStep ==
  ASSUME IInv, RowTyped', UNCHANGED <<drain, gateway, phase, plan>>
  PROVE  IInv'
<1>1. /\ active' = active /\ draining' = draining /\ waiters' = waiters
      /\ request' = request /\ streams' = streams /\ lost' = lost
      /\ phase' = phase /\ plan' = plan
  BY DEF drain, gateway
<1>2. UnderWay' = UnderWay /\ \A s : Of(s)' = Of(s)
  BY <1>1 DEF UnderWay, Of
<1>3. Typed'
  BY <1>1 DEF IInv, Typed, TypeOK, Planned, RowTyped
<1>4. OneUpgrade' /\ Drained'
  BY <1>1 DEF IInv, OneUpgrade, Drained
<1> QED
  BY <1>1, <1>2, <1>3, <1>4 DEF IInv, LeasesHeld, StreamsCounted

LEMMA OpenStep ==
  ASSUME IInv, NEW r \in Requests, NEW s \in Sessions, Open(r, s)
  PROVE  IInv'
<1>1. /\ active' = active + 1 /\ draining' = draining /\ waiters' = waiters
      /\ ~draining /\ phase' = phase /\ plan' = plan /\ lost' = lost
      /\ request' = [request EXCEPT ![r] = [at |-> "opening", session |-> s]]
      /\ streams' = [streams EXCEPT ![s] = @ + 1] /\ streams[s] < MaxPerSession
  BY DEF Open, Acquire
<1>2. Typed'
  BY DEF IInv, Typed, TypeOK, Planned, Open, Acquire, Places, row, broker, grants
<1>3. OneUpgrade' /\ Drained'
  BY <1>1 DEF IInv, OneUpgrade, Drained
<1>4. UnderWay' = UnderWay \cup {r} /\ r \notin UnderWay
  BY <1>1 DEF Open, UnderWay, IInv, Typed, TypeOK
<1>5. Cardinality(UnderWay') = Cardinality(UnderWay) + 1
  BY <1>4, UnderWayFinite, FS_AddElement
<1>6. LeasesHeld'
  BY <1>1, <1>5, UnderWayFinite DEF IInv, Typed, TypeOK, LeasesHeld
<1>7. Of(s)' = Of(s) \cup {r} /\ r \notin Of(s)
  BY <1>1, <1>4 DEF Of, UnderWay, IInv, Typed, TypeOK
<1>8. Cardinality(Of(s)') = Cardinality(Of(s)) + 1
  BY <1>7, UnderWayFinite, FS_AddElement
<1>9. ASSUME NEW t \in Sessions, t # s
      PROVE  Of(t)' = Of(t)
  BY <1>1, <1>4, <1>9 DEF Of, UnderWay, IInv, Typed, TypeOK
<1>10. ASSUME NEW t \in Sessions
       PROVE  streams'[t] = Cardinality(Of(t)') + lost'[t] /\ streams'[t] <= MaxPerSession
  <2>1. /\ streams[t] = Cardinality(Of(t)) + lost[t] /\ streams[t] <= MaxPerSession
        /\ streams[t] \in Nat /\ lost[t] \in Nat /\ MaxPerSession \in Nat
        /\ streams'[t] = IF t = s THEN streams[t] + 1 ELSE streams[t]
    BY <1>1, UpgradeAssumption DEF IInv, Typed, TypeOK, StreamsCounted
  <2>2. CASE t = s
    BY <1>1, <1>8, <2>1, <2>2, UnderWayFinite
  <2>3. CASE t # s
    BY <1>1, <1>9, <2>1, <2>3
  <2> QED
    BY <2>2, <2>3
<1>11. StreamsCounted'
  BY <1>10 DEF StreamsCounted
<1> QED
  BY <1>2, <1>3, <1>6, <1>11 DEF IInv

LEMMA AnswerStep ==
  ASSUME IInv, NEW r \in Requests, Answer(r)
  PROVE  IInv'
<1>1. Typed'
  BY DEF IInv, Typed, TypeOK, Planned, Answer, Places, drain, row, broker, grants
<1>2. OneUpgrade' /\ Drained'
  BY DEF IInv, OneUpgrade, Drained, Answer, drain
<1>3. UnderWay' = UnderWay /\ \A s : Of(s)' = Of(s)
  BY DEF Answer, UnderWay, Of, IInv, Typed, TypeOK
<1> QED
  BY <1>1, <1>2, <1>3 DEF IInv, LeasesHeld, StreamsCounted, Answer, drain

(* What the end of a request does to the set of requests under way. *)
LEMMA LeaveFacts ==
  ASSUME IInv, NEW r \in Requests, request[r].at # "idle",
         request' = [request EXCEPT ![r].at = "idle"],
         NEW s \in Sessions, s = request[r].session
  PROVE  /\ Cardinality(UnderWay') = Cardinality(UnderWay) - 1
         /\ Cardinality(Of(s)') = Cardinality(Of(s)) - 1
         /\ Cardinality(Of(s)) >= 1
         /\ \A t : t # s => Of(t)' = Of(t)
<1>2. UnderWay' = UnderWay \ {r} /\ r \in UnderWay
  BY DEF UnderWay, IInv, Typed, TypeOK
<1>3. Of(s)' = Of(s) \ {r} /\ r \in Of(s)
  BY <1>2 DEF Of, UnderWay, IInv, Typed, TypeOK
<1>4. ASSUME NEW t, t # s
      PROVE  Of(t)' = Of(t)
  BY <1>2, <1>4 DEF Of, UnderWay, IInv, Typed, TypeOK
<1>5. Cardinality(UnderWay') = Cardinality(UnderWay) - 1
  BY <1>2, UnderWayFinite, FS_RemoveElement
<1>6. Cardinality(Of(s)') = Cardinality(Of(s)) - 1
  <2>1. IsFiniteSet(Of(s))
    BY UnderWayFinite
  <2> QED
    BY <1>3, <2>1, FS_RemoveElement
<1>7. Cardinality(Of(s)) # 0
  BY <1>3, UnderWayFinite, FS_EmptySet
<1>8. Cardinality(Of(s)) >= 1
  BY <1>7, UnderWayFinite
<1> QED
  BY <1>4, <1>5, <1>6, <1>8

LEMMA EndStep ==
  ASSUME IInv, NEW r \in Requests, End(r)
  PROVE  IInv'
<1> PICK s \in Sessions : s = request[r].session
  BY DEF IInv, Typed, TypeOK
<1>1. /\ active' = active - 1 /\ draining' = draining
      /\ waiters' = (IF active = 1 THEN {} ELSE waiters)
      /\ phase' = phase /\ plan' = plan /\ lost' = lost
      /\ request' = [request EXCEPT ![r].at = "idle"]
      /\ streams' = [streams EXCEPT ![s] = @ - 1]
      /\ request[r].at # "idle"
  BY DEF End, Release
<1>2. active >= 1 /\ active \in Nat
  BY <1>1, LeaseCounted DEF IInv, Typed, TypeOK
<1>3. /\ Cardinality(UnderWay') = Cardinality(UnderWay) - 1
      /\ Cardinality(Of(s)') = Cardinality(Of(s)) - 1
      /\ Cardinality(Of(s)) >= 1
      /\ \A t : t # s => Of(t)' = Of(t)
  BY <1>1, LeaveFacts
<1>4. streams[s] \in Nat /\ streams[s] >= 1
  BY <1>3, UnderWayFinite DEF IInv, Typed, TypeOK, StreamsCounted
<1>5. ASSUME NEW t \in Sessions
      PROVE  streams'[t] = Cardinality(Of(t)') + lost'[t] /\ streams'[t] <= MaxPerSession
  <2>1. /\ streams[t] = Cardinality(Of(t)) + lost[t] /\ streams[t] <= MaxPerSession
        /\ streams[t] \in Nat /\ lost[t] \in Nat /\ MaxPerSession \in Nat
        /\ streams'[t] = IF t = s THEN streams[t] - 1 ELSE streams[t]
    BY <1>1, UpgradeAssumption DEF IInv, Typed, TypeOK, StreamsCounted
  <2>2. CASE t = s
    BY <1>1, <1>3, <2>1, <2>2, UnderWayFinite
  <2>3. CASE t # s
    BY <1>1, <1>3, <2>1, <2>3
  <2> QED
    BY <2>2, <2>3
<1>12. StreamsCounted'
  BY <1>5 DEF StreamsCounted
<1>6. streams' \in [Sessions -> Nat]
  BY <1>1, <1>3, <1>4 DEF IInv, Typed, TypeOK
<1>7. request' \in [Requests -> [at : Places, session : Sessions]]
  BY <1>1 DEF IInv, Typed, TypeOK, Places
<1>8. Typed'
  BY <1>1, <1>2, <1>6, <1>7
  DEF IInv, Typed, TypeOK, Planned, End, row, broker, grants
<1>9. Drained'
  BY <1>1, <1>2 DEF IInv, Drained
<1>10. OneUpgrade'
  BY <1>1 DEF IInv, OneUpgrade
<1>11. LeasesHeld'
  BY <1>1, <1>2, <1>3, UnderWayFinite DEF IInv, LeasesHeld
<1> QED
  BY <1>12, <1>8, <1>9, <1>10, <1>11 DEF IInv

LEMMA AbandonStep ==
  ASSUME IInv, NEW r \in Requests, Abandon(r)
  PROVE  IInv'
<1> PICK s \in Sessions : s = request[r].session
  BY DEF IInv, Typed, TypeOK
<1>1. /\ active' = active /\ draining' = draining /\ waiters' = waiters
      /\ phase' = phase /\ plan' = plan /\ streams' = streams
      /\ request' = [request EXCEPT ![r].at = "idle"]
      /\ lost' = [lost EXCEPT ![s] = @ + 1]
      /\ request[r].at # "idle"
  BY DEF Abandon, drain
<1>2. /\ Cardinality(UnderWay') = Cardinality(UnderWay) - 1
      /\ Cardinality(Of(s)') = Cardinality(Of(s)) - 1
      /\ Cardinality(Of(s)) >= 1
      /\ \A t : t # s => Of(t)' = Of(t)
  BY <1>1, LeaveFacts
<1>3. ASSUME NEW t \in Sessions
      PROVE  streams'[t] = Cardinality(Of(t)') + lost'[t] /\ streams'[t] <= MaxPerSession
  <2>1. /\ streams[t] = Cardinality(Of(t)) + lost[t] /\ streams[t] <= MaxPerSession
        /\ streams[t] \in Nat /\ lost[t] \in Nat
        /\ lost'[t] = IF t = s THEN lost[t] + 1 ELSE lost[t]
    BY <1>1 DEF IInv, Typed, TypeOK, StreamsCounted
  <2>2. CASE t = s
    BY <1>1, <1>2, <2>1, <2>2, UnderWayFinite
  <2>3. CASE t # s
    BY <1>1, <1>2, <2>1, <2>3
  <2> QED
    BY <2>2, <2>3
<1>8. StreamsCounted'
  BY <1>3 DEF StreamsCounted
<1>4. request' \in [Requests -> [at : Places, session : Sessions]]
  BY <1>1 DEF IInv, Typed, TypeOK, Places
<1>5. Typed'
  BY <1>1, <1>2, <1>4 DEF IInv, Typed, TypeOK, Planned, Abandon, row, broker, grants
<1>6. OneUpgrade' /\ Drained'
  BY <1>1 DEF IInv, OneUpgrade, Drained
<1>7. LeasesHeld'
  BY <1>1, <1>2, UnderWayFinite DEF IInv, Typed, TypeOK, LeasesHeld
<1> QED
  BY <1>8, <1>5, <1>6, <1>7 DEF IInv

(* A step that leaves the gateway's requests and leases alone. *)
LEMMA GatewayFrame ==
  ASSUME IInv, UNCHANGED gateway, active' = active
  PROVE  LeasesHeld' /\ StreamsCounted'
<1>1. request' = request /\ streams' = streams /\ lost' = lost
  BY DEF gateway
<1>2. UnderWay' = UnderWay /\ \A s : Of(s)' = Of(s)
  BY <1>1 DEF UnderWay, Of
<1> QED
  BY <1>1, <1>2 DEF IInv, LeasesHeld, StreamsCounted

(* Only one upgrade is suspended, and it is the only one that can be waiting. *)
LEMMA Alone ==
  ASSUME IInv, NEW u \in Upgrades, phase[u] # "idle"
  PROVE  /\ \A t \in Upgrades : t # u => phase[t] = "idle"
         /\ waiters \subseteq {u}
<1>1. \A t \in Upgrades : t # u => phase[t] = "idle"
  BY DEF IInv, OneUpgrade
<1>2. waiters \subseteq {u}
  BY <1>1 DEF IInv, Drained, Typed, TypeOK
<1> QED
  BY <1>1, <1>2

(* The handler of the upgrade returns and the gateway is open again. *)
LEMMA ReturnStep ==
  ASSUME IInv, NEW u \in Upgrades, phase[u] # "idle", Return(u), RowTyped',
         active' = active, draining' = FALSE, waiters' = {}, UNCHANGED gateway
  PROVE  IInv'
<1>1. phase' = [phase EXCEPT ![u] = "idle"] /\ plan' = [plan EXCEPT ![u] = NoPlan]
  BY DEF Return
<1>2. \A t \in Upgrades : phase'[t] = "idle"
  BY <1>1, Alone DEF IInv, Typed, TypeOK
<1>3. phase' \in [Upgrades -> Phases] /\ plan' \in [Upgrades -> Plans \cup {NoPlan}]
  BY <1>1 DEF IInv, Typed, TypeOK, Phases
<1>4. Typed'
  BY <1>2, <1>3 DEF IInv, Typed, TypeOK, Planned, RowTyped, gateway
<1>5. OneUpgrade' /\ Drained'
  BY <1>2 DEF OneUpgrade, Drained
<1> QED
  BY <1>4, <1>5, GatewayFrame DEF IInv

LEMMA BeginStep ==
  ASSUME IInv, NEW u \in Upgrades, NEW v \in Versions, Begin(u, v)
  PROVE  IInv'
<1>1. /\ active' = active /\ draining' = TRUE /\ ~draining
      /\ waiters' = (IF active = 0 THEN waiters ELSE waiters \cup {u})
      /\ phase' = [phase EXCEPT ![u] = "draining"]
      /\ plan' = [plan EXCEPT ![u] = [to |-> v, from |-> version, caps |-> granted]]
      /\ UNCHANGED <<row, gateway, broker, grants>>
  BY DEF Begin, BeginDrain
<1>2. \A t \in Upgrades : phase[t] = "idle"
  BY <1>1 DEF IInv, OneUpgrade
<1>3. waiters = {}
  BY <1>2 DEF IInv, Drained, Typed, TypeOK
<1>4. /\ phase' \in [Upgrades -> Phases]
      /\ \A t \in Upgrades : phase'[t] = IF t = u THEN "draining" ELSE "idle"
  BY <1>1, <1>2 DEF IInv, Typed, TypeOK, Phases
<1>5. version \in Versions /\ granted \subseteq Declared[version]
      /\ granted \subseteq Capabilities
  BY UpgradeAssumption DEF IInv, Typed, TypeOK
<1>6. [to |-> v, from |-> version, caps |-> granted] \in Plans
  BY <1>5 DEF Plans
<1>7. plan' \in [Upgrades -> Plans \cup {NoPlan}]
  BY <1>1, <1>6 DEF IInv, Typed, TypeOK
<1>8. Planned'
  <2>1. plan'[u] = [to |-> v, from |-> version, caps |-> granted]
    BY <1>1 DEF IInv, Typed, TypeOK
  <2> QED
    BY <1>4, <1>5, <1>6, <2>1 DEF Planned
<1>9. Typed'
  BY <1>1, <1>3, <1>4, <1>7, <1>8
  DEF IInv, Typed, TypeOK, row, gateway, broker, grants
<1>10. OneUpgrade' /\ Drained'
  BY <1>1, <1>3, <1>4 DEF OneUpgrade, Drained
<1> QED
  BY <1>1, <1>9, <1>10, GatewayFrame DEF IInv

LEMMA DrainTimeoutStep ==
  ASSUME IInv, NEW u \in Upgrades, DrainTimeout(u)
  PROVE  IInv'
<1>1. /\ phase[u] # "idle" /\ Return(u)
      /\ active' = active /\ draining' = FALSE /\ waiters' = waiters \ {u}
      /\ UNCHANGED gateway
  BY DEF DrainTimeout, GiveUp
<1>2. waiters' = {}
  BY <1>1, Alone
<1>3. RowTyped'
  BY DEF IInv, Typed, TypeOK, RowTyped, DrainTimeout, row, broker, grants
<1> QED
  BY <1>1, <1>2, <1>3, ReturnStep

LEMMA InstallStep ==
  ASSUME IInv, NEW u \in Upgrades, Install(u)
  PROVE  IInv'
<1>1. /\ phase[u] = "draining" /\ u \notin waiters /\ launched' = {} /\ connected' = connected
      /\ UNCHANGED <<status, gateway, grants>>
  BY DEF Install, RevokeCredentials
<1>2. plan[u] \in Plans /\ plan[u].to \in Versions
  BY <1>1 DEF IInv, Typed, Planned, Plans
<1>3. version' \in Versions /\ granted' \subseteq Declared[version']
  BY <1>2 DEF Install, Kept, IInv, Typed, TypeOK
<1>4. RowTyped'
  BY <1>1, <1>3 DEF RowTyped, IInv, Typed, TypeOK, grants
<1>5. active = 0 /\ waiters = {}
  BY <1>1, IdleWhenDrained, Alone
<1>6. CASE phase' = [phase EXCEPT ![u] = "probing"] /\ UNCHANGED <<drain, plan>>
  <2>1. /\ phase' \in [Upgrades -> Phases]
        /\ \A t \in Upgrades : phase'[t] # "idle" <=> phase[t] # "idle"
    BY <1>1, <1>6 DEF IInv, Typed, TypeOK, Phases
  <2>2. active' = active /\ draining' = draining /\ waiters' = waiters /\ plan' = plan
    BY <1>6 DEF drain
  <2>3. Typed'
    BY <1>1, <1>4, <2>1, <2>2 DEF IInv, Typed, TypeOK, Planned, RowTyped, gateway
  <2>4. OneUpgrade' /\ Drained'
    BY <1>5, <2>1, <2>2 DEF IInv, OneUpgrade, Drained
  <2> QED
    BY <1>1, <2>2, <2>3, <2>4, GatewayFrame DEF IInv
<1>7. CASE Return(u) /\ Resume
  <2>1. active' = active /\ draining' = FALSE /\ waiters' = {}
    BY <1>5, <1>7 DEF Resume
  <2> QED
    BY <1>1, <1>4, <1>7, <2>1, ReturnStep
<1> QED
  BY <1>6, <1>7 DEF Install

LEMMA ProbeHealthyStep ==
  ASSUME IInv, NEW u \in Upgrades, ProbeHealthy(u)
  PROVE  IInv'
<1>1. phase[u] = "probing" /\ u \notin waiters
  BY DEF ProbeHealthy, IInv, Drained
<1>2. active' = active /\ draining' = FALSE /\ waiters' = {}
  BY <1>1, IdleWhenDrained DEF ProbeHealthy, Resume
<1>3. RowTyped'
  BY DEF IInv, Typed, TypeOK, RowTyped, ProbeHealthy, row, broker, grants
<1> QED
  BY <1>1, <1>2, <1>3, ReturnStep DEF ProbeHealthy

LEMMA ProbeUnhealthyStep ==
  ASSUME IInv, NEW u \in Upgrades, ProbeUnhealthy(u)
  PROVE  IInv'
<1>1. /\ phase[u] = "probing" /\ phase' = [phase EXCEPT ![u] = "restoring"]
      /\ active' = active /\ draining' = draining /\ waiters' = waiters
      /\ UNCHANGED <<row, gateway, plan, broker, grants>>
  BY DEF ProbeUnhealthy, drain
<1>2. /\ phase' \in [Upgrades -> Phases]
      /\ \A t \in Upgrades : phase'[t] # "idle" <=> phase[t] # "idle"
      /\ \A t \in Upgrades : t # u => phase'[t] = phase[t]
  BY <1>1 DEF IInv, Typed, TypeOK, Phases
<1>3. Typed'
  BY <1>1, <1>2 DEF IInv, Typed, TypeOK, Planned, row, gateway, broker, grants
<1>4. u \notin waiters
  BY <1>1 DEF IInv, Drained
<1>5. Drained'
  BY <1>1, <1>2, <1>4 DEF IInv, Drained, Typed, TypeOK
<1>6. OneUpgrade'
  BY <1>1, <1>2 DEF IInv, OneUpgrade
<1> QED
  BY <1>1, <1>3, <1>5, <1>6, GatewayFrame DEF IInv

LEMMA RestoreStep ==
  ASSUME IInv, NEW u \in Upgrades, Restore(u)
  PROVE  IInv'
<1>1. phase[u] = "restoring" /\ u \notin waiters
  BY DEF Restore, IInv, Drained
<1>2. active' = active /\ draining' = FALSE /\ waiters' = {}
  BY <1>1, IdleWhenDrained DEF Restore, Resume
<1>3. /\ plan[u].from \in Versions /\ plan[u].caps \subseteq Capabilities
      /\ plan[u].caps \subseteq Declared[plan[u].from]
  BY <1>1 DEF IInv, Typed, Planned, Plans
<1>4. RowTyped'
  BY <1>3 DEF IInv, Typed, TypeOK, RowTyped, Restore, RevokeCredentials
<1> QED
  BY <1>1, <1>2, <1>4, ReturnStep DEF Restore

LEMMA CrashStep ==
  ASSUME IInv, Crash
  PROVE  IInv'
<1>1. request' \in [Requests -> [at : Places, session : Sessions]]
  BY DEF IInv, Typed, TypeOK, Crash, Places
<1>2. UnderWay' = {} /\ \A s : Of(s)' = {}
  BY DEF Crash, UnderWay, Of
<1>3. Typed'
  BY <1>1 DEF IInv, Typed, TypeOK, Planned, Phases, Crash, row, grants
<1>4. OneUpgrade' /\ Drained'
  BY DEF Crash, OneUpgrade, Drained
<1>5. LeasesHeld'
  BY <1>2, FS_EmptySet DEF Crash, LeasesHeld
<1>6. \A s \in Sessions : streams'[s] = 0 /\ lost'[s] = 0 /\ Cardinality(Of(s)') = 0
  BY <1>2, FS_EmptySet DEF Crash
<1>7. StreamsCounted'
  BY <1>6, UpgradeAssumption DEF StreamsCounted
<1> QED
  BY <1>3, <1>4, <1>5, <1>7 DEF IInv

-----------------------------------------------------------------------------
LEMMA InitIInv == Init => IInv
<1> SUFFICES ASSUME Init PROVE IInv
  OBVIOUS
<1>1. Declared[version] \subseteq Capabilities
  BY UpgradeAssumption DEF Init
<1>2. request \in [Requests -> [at : Places, session : Sessions]]
  BY DEF Init, Places
<1>3. Typed
  BY <1>1, <1>2 DEF Init, DrainInit, Typed, TypeOK, Planned, Phases
<1>4. OneUpgrade /\ Drained
  BY DEF Init, DrainInit, OneUpgrade, Drained
<1>5. UnderWay = {} /\ \A s : Of(s) = {}
  BY DEF Init, UnderWay, Of
<1>6. LeasesHeld
  BY <1>5, FS_EmptySet DEF Init, DrainInit, LeasesHeld
<1>7. \A s \in Sessions : streams[s] = 0 /\ lost[s] = 0 /\ Cardinality(Of(s)) = 0
  BY <1>5, FS_EmptySet DEF Init
<1>8. StreamsCounted
  BY <1>7, UpgradeAssumption DEF StreamsCounted
<1> QED
  BY <1>3, <1>4, <1>6, <1>8 DEF IInv

LEMMA NextIInv == IInv /\ [Next]_vars => IInv'
<1> SUFFICES ASSUME IInv, [Next]_vars PROVE IInv'
  OBVIOUS
<1> USE DEF RowTyped
<1>1. CASE UNCHANGED vars
  BY <1>1, RowStep DEF vars, row, broker, grants, IInv, Typed, TypeOK
<1>2. ASSUME NEW r \in Requests, NEW s \in Sessions, Open(r, s) PROVE IInv'
  BY <1>2, OpenStep
<1>3. ASSUME NEW r \in Requests, Answer(r) \/ End(r) \/ Abandon(r) PROVE IInv'
  BY <1>3, AnswerStep, EndStep, AbandonStep
<1>4. CASE Launch
  BY <1>4, RowStep DEF Launch, row, grants, IInv, Typed, TypeOK
<1>5. ASSUME NEW v \in Versions, Connect(v) PROVE IInv'
  BY <1>5, RowStep DEF Connect, row, grants, IInv, Typed, TypeOK
<1>6. ASSUME NEW v \in Versions, Vanish(v) PROVE IInv'
  BY <1>6, RowStep DEF Vanish, row, grants, IInv, Typed, TypeOK
<1>7. ASSUME NEW u \in Upgrades, NEW v \in Versions, Begin(u, v) PROVE IInv'
  BY <1>7, BeginStep
<1>8. ASSUME NEW u \in Upgrades, DrainTimeout(u) \/ Install(u) PROVE IInv'
  BY <1>8, DrainTimeoutStep, InstallStep
<1>9. ASSUME NEW u \in Upgrades, ProbeHealthy(u) \/ ProbeUnhealthy(u) \/ Restore(u)
      PROVE  IInv'
  BY <1>9, ProbeHealthyStep, ProbeUnhealthyStep, RestoreStep
<1>10. ASSUME NEW C \in SUBSET Capabilities, SetCapabilities(C) PROVE IInv'
  <2>1. RowTyped'
    BY <1>10, UpgradeAssumption DEF SetCapabilities, RevokeCredentials, IInv, Typed, TypeOK
  <2> QED
    BY <1>10, <2>1, RowStep DEF SetCapabilities
<1>11. CASE Disable \/ Enable \/ Uninstall
  <2>1. RowTyped' /\ UNCHANGED <<drain, gateway, phase, plan>>
    BY <1>11 DEF Disable, Enable, Uninstall, SetStatus, RevokeCredentials,
                 broker, grants, IInv, Typed, TypeOK
  <2> QED
    BY <2>1, RowStep
<1>12. CASE Crash
  BY <1>12, CrashStep
<1> QED
  BY <1>1, <1>2, <1>3, <1>4, <1>5, <1>6, <1>7, <1>8, <1>9, <1>10, <1>11, <1>12, StepCases

LEMMA Invariance == Spec => []IInv
  BY InitIInv, NextIInv, PTL DEF Spec

(* Every variable keeps its type; in particular no lease of the drain manager
   or of the stream quota is ever given back twice. *)
THEOREM TypeCorrect == Spec => []TypeOK
<1>1. IInv => TypeOK
  BY DEF IInv, Typed
<1> QED
  BY <1>1, Invariance, PTL

(* At most one upgrade is past begin(), and the gateway is closed exactly as
   long. *)
THEOREM OneUpgradeAtATime == Spec => []OneUpgrade
<1>1. IInv => OneUpgrade
  BY DEF IInv
<1> QED
  BY <1>1, Invariance, PTL

(* The stream quota counts the requests under way and the lost leases. *)
THEOREM StreamsWithinLimit == Spec => []StreamsCounted
<1>1. IInv => StreamsCounted
  BY DEF IInv
<1> QED
  BY <1>1, Invariance, PTL

(* The installed version only changes while no gateway request is under way. *)
THEOREM NoRequestAcrossVersions == Spec => RequestsSeeOneVersion
<1>1. IInv /\ [Next]_vars => [version' # version => UnderWay = {}]_vars
  <2> SUFFICES ASSUME IInv, Next, version' # version
               PROVE  UnderWay = {}
    OBVIOUS
  <2>1. ASSUME NEW u \in Upgrades, Install(u) \/ Restore(u)
        PROVE  UnderWay = {}
    BY <2>1, IdleWhenDrained DEF Install, Restore, IInv, Drained
  <2> QED
    BY <2>1, StepCases DEF Open, Answer, End, Abandon, Launch, Connect, Vanish, Begin,
         DrainTimeout, ProbeHealthy, ProbeUnhealthy, SetCapabilities, SetStatus,
         Disable, Enable, Uninstall, Crash, row
<1> QED
  BY <1>1, Invariance, PTL DEF Spec, RequestsSeeOneVersion

(* Every unused credential was issued for the installed version. *)
CredentialsOfVersion == launched \subseteq {version}

(* No worker of a version that was replaced can still connect. *)
THEOREM StaleWorkersStayOut == Spec => OnlyInstalledVersionConnects
<1>1. Init => CredentialsOfVersion
  BY DEF Init, CredentialsOfVersion
<1>2. CredentialsOfVersion /\ [Next]_vars => CredentialsOfVersion'
  <2> SUFFICES ASSUME CredentialsOfVersion, [Next]_vars
               PROVE  CredentialsOfVersion'
    OBVIOUS
  <2>1. CASE UNCHANGED <<version, launched>>
    BY <2>1 DEF CredentialsOfVersion
  <2>2. CASE RevokeCredentials
    BY <2>2 DEF CredentialsOfVersion, RevokeCredentials
  <2>3. CASE Launch
    BY <2>3 DEF CredentialsOfVersion, Launch, row
  <2>4. ASSUME NEW v \in Versions, Connect(v) \/ Vanish(v)
        PROVE  CredentialsOfVersion'
    BY <2>4 DEF CredentialsOfVersion, Connect, Vanish, row
  <2>5. CASE Crash
    BY <2>5 DEF CredentialsOfVersion, Crash
  <2> QED
    BY <2>1, <2>2, <2>3, <2>4, <2>5, StepCases
    DEF vars, Open, Answer, End, Abandon, Begin, DrainTimeout, Install, ProbeHealthy,
        ProbeUnhealthy, Restore, SetCapabilities, SetStatus, Disable, Enable, Uninstall,
        row, broker
<1>3. CredentialsOfVersion /\ [Next]_vars
        => [connected' \ connected \subseteq {version'}]_vars
  <2> SUFFICES ASSUME CredentialsOfVersion, Next
               PROVE  connected' \ connected \subseteq {version'}
    OBVIOUS
  <2>1. CASE connected' \subseteq connected
    BY <2>1
  <2>2. ASSUME NEW v \in Versions, Connect(v)
        PROVE  connected' \ connected \subseteq {version'}
    BY <2>2 DEF CredentialsOfVersion, Connect, row
  <2>3. ASSUME NEW v \in Versions, Vanish(v)
        PROVE  connected' \subseteq connected
    BY <2>3 DEF Vanish
  <2> QED
    BY <2>1, <2>2, <2>3, StepCases
    DEF Open, Answer, End, Abandon, Launch, Begin, DrainTimeout, Install, ProbeHealthy,
        ProbeUnhealthy, Restore, SetCapabilities, SetStatus, Disable, Enable, Uninstall,
        Crash, RevokeCredentials, broker
<1> QED
  BY <1>1, <1>2, <1>3, PTL DEF Spec, OnlyInstalledVersionConnects

(* Only a rollback brings back a capability that was taken away. *)
THEOREM RevocationsStick == Spec => []RevocationsKept
<1>1. Init => RevocationsKept
  BY DEF Init, RevocationsKept
<1>2. RevocationsKept /\ [Next]_vars => RevocationsKept'
  <2> SUFFICES ASSUME RevocationsKept, [Next]_vars
               PROVE  RevocationsKept'
    OBVIOUS
  <2>1. CASE UNCHANGED <<granted, grants>>
    BY <2>1 DEF RevocationsKept, grants
  <2>2. ASSUME NEW u \in Upgrades, Install(u)
        PROVE  RevocationsKept'
    BY <2>2 DEF RevocationsKept, Install, Kept, grants
  <2>3. ASSUME NEW u \in Upgrades, Restore(u)
        PROVE  RevocationsKept'
    BY <2>3 DEF RevocationsKept, Restore
  <2>4. ASSUME NEW C \in SUBSET Capabilities, SetCapabilities(C)
        PROVE  RevocationsKept'
    BY <2>4 DEF RevocationsKept, SetCapabilities
  <2> QED
    BY <2>1, <2>2, <2>3, <2>4, StepCases
    DEF vars, Open, Answer, End, Abandon, Launch, Connect, Vanish, Begin, DrainTimeout,
        ProbeHealthy, ProbeUnhealthy, SetStatus, Disable, Enable, Uninstall, Crash, row
<1> QED
  BY <1>1, <1>2, PTL DEF Spec
=============================================================================

--------------------------- MODULE PluginUpgrade ---------------------------
(***************************************************************************)
(* The gateway, the upgrade handler and the administrator's handlers of    *)
(* one installation (src/src/app.ts), over the drain manager, the stream   *)
(* quota (src/src/gateway-stream-quota.ts), the broker's credentials and   *)
(* the installation row (src/src/repository.ts).                           *)
(*                                                                         *)
(* An upgrade reads the row, drains the gateway, stops the workers,        *)
(* installs the new version, probes it and restores what it read when the  *)
(* probe fails.  Only the gateway is drained: the administrator's handlers *)
(* and the health route run at any await of it.                            *)
(*                                                                         *)
(* A request that is refused changes nothing and is no action here.        *)
(***************************************************************************)
EXTENDS PluginDrain

CONSTANTS
  Requests,     \* gateway requests that can be under way at once (bound)
  Sessions,     \* authenticated sessions
  MaxPerSession,\* streams of one session
  Upgrades,     \* upgrade calls that can be under way at once (bound)
  Versions,     \* verified package versions
  Probed,       \* versions whose manifest has a route GET /health
  Capabilities,
  Declared,     \* Declared[v]: capabilities that the manifest of v declares
  MaxLost,      \* leases lost to clients that went away early (bound)
  NoPlan        \* the upgrade call is not under way

ASSUME UpgradeAssumption ==
  /\ IsFiniteSet(Requests)
  /\ MaxPerSession \in Nat \ {0}
  /\ Probed \subseteq Versions
  /\ Declared \in [Versions -> SUBSET Capabilities]
  /\ MaxLost \in Nat

VARIABLES
  status, version, granted, \* the installation row
  request,      \* request[r]: [at : "idle" | "opening" | "streaming", session]
  streams,      \* streams[s]: the stream quota's count
  lost,         \* lost[s]: history, leases that nobody will release
  phase,        \* phase[u]: where upgrade u is suspended
  plan,         \* plan[u]: its target, and what it read of the row when it began
  launched,     \* versions started with a credential that is not used yet
  connected,    \* versions of the workers connected to the broker
  taken,        \* history: capabilities the administrator took away
  regranted     \* history: those a rollback brought back

row == <<status, version, granted>>
gateway == <<request, streams, lost>>
broker == <<launched, connected>>
grants == <<taken, regranted>>
vars == <<drain, row, gateway, phase, plan, broker, grants>>

Places == {"idle", "opening", "streaming"}
Phases == {"idle", "draining", "probing", "restoring"}

Plans == [to : Versions, from : Versions, caps : SUBSET Capabilities]

UnderWay == {r \in Requests : request[r].at # "idle"}
Of(s) == {r \in UnderWay : request[r].session = s}

Init ==
  /\ DrainInit
  /\ status = "installed"
  /\ version \in Versions
  /\ granted = Declared[version]
  /\ \E s \in Sessions : request = [r \in Requests |-> [at |-> "idle", session |-> s]]
  /\ streams = [s \in Sessions |-> 0]
  /\ lost = [s \in Sessions |-> 0]
  /\ phase = [u \in Upgrades |-> "idle"]
  /\ plan = [u \in Upgrades |-> NoPlan]
  /\ launched = {} /\ connected = {}
  /\ taken = {} /\ regranted = {}

(***************************************************************************)
(* The gateway.  A request gets a stream lease of its session and a drain  *)
(* lease, then opens the stream: the worker is started, invoked, and has   *)
(* answered.  Both leases come back when opening fails, after a HEAD       *)
(* request, or when the body was read or cancelled.                        *)
(***************************************************************************)
Open(r, s) ==
  /\ request[r].at = "idle"
  /\ status = "installed"
  /\ streams[s] < MaxPerSession
  /\ Acquire
  /\ streams' = [streams EXCEPT ![s] = @ + 1]
  /\ request' = [request EXCEPT ![r] = [at |-> "opening", session |-> s]]
  /\ UNCHANGED <<row, lost, phase, plan, broker, grants>>

(* The worker's answer has arrived: the body is handed to the HTTP server. *)
Answer(r) ==
  /\ request[r].at = "opening"
  /\ connected # {}
  /\ request' = [request EXCEPT ![r].at = "streaming"]
  /\ UNCHANGED <<drain, row, streams, lost, phase, plan, broker, grants>>

FaultyEnd(r) ==
  /\ request[r].at # "idle"
  /\ Release
  /\ streams' = [streams EXCEPT ![request[r].session] = 0]
  /\ request' = [request EXCEPT ![r].at = "idle"]
  /\ UNCHANGED <<row, lost, phase, plan, broker, grants>>

End(r) ==
  /\ request[r].at # "idle"
  /\ Release
  /\ streams' = [streams EXCEPT ![request[r].session] = @ - 1]
  /\ request' = [request EXCEPT ![r].at = "idle"]
  /\ UNCHANGED <<row, lost, phase, plan, broker, grants>>

(* The client went away while the stream was being opened: the body is
   destroyed before its first read, and its finally block never runs. *)
Abandon(r) ==
  /\ request[r].at = "opening"
  /\ connected # {}
  /\ lost[request[r].session] < MaxLost
  /\ lost' = [lost EXCEPT ![request[r].session] = @ + 1]
  /\ request' = [request EXCEPT ![r].at = "idle"]
  /\ UNCHANGED <<drain, row, streams, phase, plan, broker, grants>>

(***************************************************************************)
(* Workers, as far as versions go.  Whoever calls the supervisor's start() *)
(* while no worker runs launches the installed version with a fresh        *)
(* credential; the worker connects with it once.  A connection ends when   *)
(* its process does, and that is later than the stop() which asked for it: *)
(* no handler below closes a connection.                                   *)
(***************************************************************************)
Launch ==
  /\ status = "installed"
  /\ launched' = launched \cup {version}
  /\ UNCHANGED <<drain, row, gateway, phase, plan, connected, grants>>

Connect(v) ==
  /\ v \in launched
  /\ status = "installed"
  /\ launched' = launched \ {v}
  /\ connected' = connected \cup {v}
  /\ UNCHANGED <<drain, row, gateway, phase, plan, grants>>

(* Idle time, a crash, or a launch that failed or whose credential expired. *)
Vanish(v) ==
  /\ v \in launched \cup connected
  /\ \/ launched' = launched \ {v} /\ UNCHANGED connected
     \/ connected' = connected \ {v} /\ UNCHANGED launched
  /\ UNCHANGED <<drain, row, gateway, phase, plan, grants>>

FaultyRevokeCredentials == UNCHANGED broker

(* revokeInstallationCredentials: unused credentials go, connections stay. *)
RevokeCredentials == launched' = {} /\ UNCHANGED connected

(***************************************************************************)
(* The upgrade.  Everything up to waitForIdle is one stretch of code.      *)
(***************************************************************************)
Begin(u, v) ==
  /\ phase[u] = "idle"
  /\ status = "installed" /\ v # version
  /\ BeginDrain(u)
  /\ phase' = [phase EXCEPT ![u] = "draining"]
  /\ plan' = [plan EXCEPT ![u] = [to |-> v, from |-> version, caps |-> granted]]
  /\ UNCHANGED <<row, gateway, broker, grants>>

(* The handler of u returns. *)
Return(u) ==
  /\ phase' = [phase EXCEPT ![u] = "idle"]
  /\ plan' = [plan EXCEPT ![u] = NoPlan]

DrainTimeout(u) ==
  /\ phase[u] = "draining"
  /\ GiveUp(u)
  /\ Return(u)
  /\ UNCHANGED <<row, gateway, broker, grants>>

FaultyKept(v) == Declared[v]

(* What upgradePlugin leaves granted: it never grants anything new. *)
Kept(v) == Declared[v] \cap granted

(* The gateway is idle and the workers were stopped: the credentials are
   revoked and the new version is installed, unless the installation is no
   longer there; a version without a health route needs no probe. *)
Install(u) ==
  LET v == plan[u].to
      accepted == status = "installed" /\ version # v
  IN /\ phase[u] = "draining" /\ u \notin waiters
     /\ RevokeCredentials
     /\ IF accepted
        THEN version' = v /\ granted' = Kept(v)
        ELSE UNCHANGED <<version, granted>>
     /\ IF accepted /\ v \in Probed
        THEN phase' = [phase EXCEPT ![u] = "probing"] /\ UNCHANGED <<drain, plan>>
        ELSE Return(u) /\ Resume
     /\ UNCHANGED <<status, gateway, grants>>

(* A connected worker answers the probe: the first one of its user, which may
   still be the worker of the previous version. *)
ProbeHealthy(u) ==
  /\ phase[u] = "probing" /\ connected # {}
  /\ Return(u) /\ Resume
  /\ UNCHANGED <<row, gateway, broker, grants>>

(* No worker, no connection, no answer in time, or a bad answer. *)
ProbeUnhealthy(u) ==
  /\ phase[u] = "probing"
  /\ phase' = [phase EXCEPT ![u] = "restoring"]
  /\ UNCHANGED <<drain, row, gateway, plan, broker, grants>>

(* The workers were stopped again; rollbackPlugin restores what was read, and
   does nothing when the installation was disabled in the meantime. *)
Restore(u) ==
  /\ phase[u] = "restoring"
  /\ RevokeCredentials
  /\ IF status = "installed"
     THEN /\ version' = plan[u].from /\ granted' = plan[u].caps
          /\ regranted' = regranted \cup (plan[u].caps \cap taken)
     ELSE UNCHANGED <<version, granted, regranted>>
  /\ Return(u) /\ Resume
  /\ UNCHANGED <<status, gateway, taken>>

(***************************************************************************)
(* The administrator.                                                      *)
(***************************************************************************)
SetCapabilities(C) ==
  /\ C \subseteq Declared[version]
  /\ granted' = C
  /\ RevokeCredentials
  /\ taken' = (taken \cup granted) \ C
  /\ regranted' = {}
  /\ UNCHANGED <<drain, status, version, gateway, phase, plan>>

SetStatus(from, to) ==
  /\ status = from /\ status' = to
  /\ UNCHANGED <<drain, version, granted, gateway, phase, plan, grants>>

Disable == SetStatus("installed", "disabled") /\ RevokeCredentials
Enable == SetStatus("disabled", "installed") /\ UNCHANGED broker
Uninstall == SetStatus("disabled", "uninstalled") /\ RevokeCredentials

(* Core stops and boots again: only the row is left. *)
Crash ==
  /\ active' = 0 /\ draining' = FALSE /\ waiters' = {}
  /\ request' = [r \in Requests |-> [request[r] EXCEPT !.at = "idle"]]
  /\ streams' = [s \in Sessions |-> 0] /\ lost' = [s \in Sessions |-> 0]
  /\ phase' = [u \in Upgrades |-> "idle"]
  /\ plan' = [u \in Upgrades |-> NoPlan]
  /\ launched' = {} /\ connected' = {}
  /\ UNCHANGED <<row, grants>>

Next ==
  \/ \E r \in Requests :
       \/ \E s \in Sessions : Open(r, s)
       \/ Answer(r) \/ End(r) \/ Abandon(r)
  \/ Launch
  \/ \E v \in Versions : Connect(v) \/ Vanish(v)
  \/ \E u \in Upgrades :
       \/ \E v \in Versions : Begin(u, v)
       \/ DrainTimeout(u) \/ Install(u)
       \/ ProbeHealthy(u) \/ ProbeUnhealthy(u) \/ Restore(u)
  \/ \E C \in SUBSET Capabilities : SetCapabilities(C)
  \/ Disable \/ Enable \/ Uninstall
  \/ Crash

Spec == Init /\ [][Next]_vars

(***************************************************************************)
(* Fairness.  The drain timer fires, the workers' stop() settles, and the  *)
(* probe ends: its start, its wait and its request have 5 seconds each.    *)
(***************************************************************************)
Fairness ==
  \A u \in Upgrades :
    /\ WF_vars(DrainTimeout(u))
    /\ WF_vars(Install(u))
    /\ WF_vars(ProbeHealthy(u) \/ ProbeUnhealthy(u))
    /\ WF_vars(Restore(u))

FairSpec == Spec /\ Fairness

-----------------------------------------------------------------------------
(* Type invariant of the row, the leases and the suspended handlers. *)
TypeOK ==
  /\ active \in Nat /\ draining \in BOOLEAN /\ waiters \subseteq Upgrades
  /\ status \in {"installed", "disabled", "uninstalled"}
  /\ version \in Versions
  /\ granted \subseteq Declared[version]
  /\ request \in [Requests -> [at : Places, session : Sessions]]
  /\ streams \in [Sessions -> Nat]
  /\ lost \in [Sessions -> Nat]
  /\ phase \in [Upgrades -> Phases]
  /\ plan \in [Upgrades -> Plans \cup {NoPlan}]
  /\ launched \subseteq Versions /\ connected \subseteq Versions
  /\ taken \subseteq Capabilities /\ regranted \subseteq Capabilities

(* One upgrade at a time: whoever began it is the only one past begin(), and
   the gateway is closed for exactly as long, whichever way it ends. *)
OneUpgrade ==
  /\ \A t, u \in Upgrades : phase[t] # "idle" /\ phase[u] # "idle" => t = u
  /\ draining <=> \E u \in Upgrades : phase[u] # "idle"

(* No gateway request, from its leases to the end of its stream, lives through
   a change of the plugin's version. *)
RequestsSeeOneVersion == [][version' # version => UnderWay = {}]_vars

(* No worker of a version that was replaced can still connect, although
   workers are started between any two steps of an upgrade: the connections of
   the previous version can only end. *)
OnlyInstalledVersionConnects ==
  [][connected' \ connected \subseteq {version'}]_vars

(* An upgrade brings back no capability that the administrator took away, only
   the rollback of an upgrade that had begun before can. *)
RevocationsKept == granted \cap taken \subseteq regranted

(* The streams of a session stay within its limit, and those that are under
   way or lost are all that is counted: every other end of a request gave its
   lease back. *)
StreamsCounted ==
  \A s \in Sessions :
    /\ streams[s] = Cardinality(Of(s)) + lost[s]
    /\ streams[s] <= MaxPerSession

(* The gateway opens again after every upgrade, also when a lost lease makes
   each of them time out. *)
GatewayReopens == draining ~> ~draining

(* A failed probe restores the previous version: what the test "upgrades a
   plugin through a health gate and restores the previous version on failure"
   and the answer CMH.PLUGIN.UPGRADE_HEALTH_FAILED say. *)
FailedUpgradeRestores ==
  [][\A u \in Upgrades : Restore(u) => version' = plan[u].from]_vars
=============================================================================

---------------------------- MODULE BrowserTasks ----------------------------
(***************************************************************************)
(* Browser sessions and tasks (src/src/repository.ts), the executor that   *)
(* runs them (src/src/browser-task-executor.ts), called by the recovery    *)
(* scheduler and by an administrator, and the handlers of src/src/app.ts   *)
(* that cancel and revoke, over the browsers of the manager.               *)
(*                                                                         *)
(* All sessions belong to one installation.  A request that is refused     *)
(* changes nothing and is no action here.                                  *)
(***************************************************************************)
EXTENDS BrowserWorkers

CONSTANTS
  Users, Owner,   \* Owner[s]: the user of session s
  MaxTasks,       \* tasks that are ever created (bound)
  Runners         \* calls of runOnce that can be under way at once (bound)

ASSUME TasksAssumption == Owner \in [Sessions -> Users] /\ MaxTasks \in Nat

VARIABLES
  session,        \* session[s]: the status of the row; "overdue" is active in
                  \* the row, but the expiry time has passed
  task,           \* task[t]: [status, session]
  installed,      \* the status of the installation
  capable,        \* its capability "browser": granted, withdrawn by an
                  \* administrator, or dropped by an upgrade
  members,        \* users that were not revoked
  run,            \* run[r]: [at, task, browser], a suspended runOnce()
  aborted         \* tasks whose controller was aborted

rows == <<session, task>>
grants == <<installed, capable, members>>
runs == <<run, aborted>>
vars == <<manager, rows, grants, runs>>

Tasks == 1 .. MaxTasks     \* in the order of their creation
Open == {"queued", "running"}
NotRunning == [at |-> "idle", task |-> 0, browser |-> None]

Init ==
  /\ ManagerInit
  /\ session = [s \in Sessions |-> "none"]
  /\ task = [t \in Tasks |-> [status |-> "none", session |-> None]]
  /\ installed = "installed" /\ capable = "granted" /\ members = Users
  /\ run = [r \in Runners |-> NotRunning]
  /\ aborted = {}

(***************************************************************************)
(* Rows.                                                                   *)
(***************************************************************************)
CreateSession(s) ==
  /\ session[s] = "none"
  /\ session' = [session EXCEPT ![s] = "active"]
  /\ UNCHANGED <<manager, task, grants, runs>>

TimePasses(s) ==
  /\ session[s] = "active"
  /\ session' = [session EXCEPT ![s] = "overdue"]
  /\ UNCHANGED <<manager, task, grants, runs>>

Enqueue(s) ==
  /\ session[s] = "active"
  /\ \E t \in Tasks :
       /\ task[t].status = "none" /\ \A q \in 1 .. t - 1 : task[q].status # "none"
       /\ task' = [task EXCEPT ![t] = [status |-> "queued", session |-> s]]
  /\ UNCHANGED <<manager, session, grants, runs>>

FaultyCancelIn(G) ==
  [t \in Tasks |-> IF task[t].session \in G /\ task[t].status = "queued"
                   THEN [task[t] EXCEPT !.status = "cancelled"] ELSE task[t]]

(* All open tasks of the sessions G are cancelled. *)
CancelIn(G) ==
  [t \in Tasks |-> IF task[t].session \in G /\ task[t].status \in Open
                   THEN [task[t] EXCEPT !.status = "cancelled"] ELSE task[t]]

(* What reconcileExpiredBrowserSessions finds expired in the scope of a user. *)
Expired(u) ==
  {s \in Sessions : Owner[s] = u /\ session[s] \in {"expired", "overdue"}}

Reconciled(u) ==
  [s \in Sessions |-> IF s \in Expired(u) THEN "expired" ELSE session[s]]

(* A Worker lists its sessions, or a runner finds nothing to claim. *)
List(u) ==
  /\ session' = Reconciled(u)
  /\ task' = CancelIn(Expired(u))
  /\ UNCHANGED <<manager, grants, runs>>

(* Queued tasks of active sessions. *)
Claimable(u) ==
  {t \in Tasks : task[t].status = "queued" /\ Owner[task[t].session] = u
                 /\ session[task[t].session] = "active"}

FaultySettled(T, status) ==
  [t \in Tasks |-> IF t \in T THEN [task[t] EXCEPT !.status = status] ELSE task[t]]

(* transitionBrowserTask: only a running task succeeds or fails. *)
Settled(T, status) ==
  [t \in Tasks |-> IF t \in T /\ task[t].status = "running"
                   THEN [task[t] EXCEPT !.status = status] ELSE task[t]]

(***************************************************************************)
(* The executor.  Between the claim of a task and the call of acquire()    *)
(* the code awaits only a promise that has already settled: no event is    *)
(* handled in between, and the two are one step.                           *)
(***************************************************************************)
Oldest(u) == {t \in Claimable(u) : \A q \in Claimable(u) : t <= q}

ClaimRow(t, u, status) ==
  /\ session' = Reconciled(u)
  /\ task' = [CancelIn(Expired(u)) EXCEPT ![t].status = status]

(* No handler, a target outside of its list, no engine, another target. *)
ClaimUnhandled(u) ==
  \E t \in Oldest(u) : ClaimRow(t, u, "failed") /\ UNCHANGED <<manager, grants, runs>>

(* A handler waits for a browser or works in the one there is. *)
Begins(r, at, t, b) == run' = [run EXCEPT ![r] = [at |-> at, task |-> t, browser |-> b]]

Claim(r, u) ==
  \E t \in Oldest(u) : LET s == task[t].session IN
     /\ run[r] = NotRunning
     /\ ClaimRow(t, u, "running")
     /\ \/ worker[s] # None /\ Begins(r, "working", t, worker[s]) /\ UNCHANGED manager
        \/ worker[s] = None /\ pending[s] # None
           /\ Begins(r, "starting", t, pending[s]) /\ UNCHANGED manager
        \/ \E b \in Browsers :
             /\ \A q \in Runners : run[q].browser # b
             /\ BeginLaunch(s, b)
             /\ Begins(r, "starting", t, b)
     /\ UNCHANGED <<grants, aborted>>

Waiting(b) == {r \in Runners : run[r].at = "starting" /\ run[r].browser = b}

(* The browser is there: every handler that awaits it navigates. *)
LaunchSucceeds(b) ==
  /\ Launched(b)
  /\ run' = [r \in Runners |-> IF r \in Waiting(b) THEN [run[r] EXCEPT !.at = "working"]
                               ELSE run[r]]
  /\ UNCHANGED <<rows, grants, aborted>>

(* runOnce() returns for the runners R: the controllers are dropped. *)
Returned(R) ==
  /\ run' = [r \in Runners |-> IF r \in R THEN NotRunning ELSE run[r]]
  /\ aborted' = aborted \ {run[r].task : r \in R}

LaunchFails(b) ==
  /\ LaunchFailed(b)
  /\ task' = Settled({run[r].task : r \in Waiting(b)}, "failed")
  /\ Returned(Waiting(b))
  /\ UNCHANGED <<session, grants>>

(* An aborted handler has its page closed, and so has a stopped browser. *)
HandlerSucceeds(r) ==
  /\ run[r].at = "working" /\ run[r].task \notin aborted
  /\ browser[run[r].browser].at \in {"open", "closing"}
  /\ task' = Settled({run[r].task}, "succeeded")
  /\ Returned({r})
  /\ UNCHANGED <<manager, session, grants>>

HandlerFails(r) ==
  /\ run[r].at = "working"
  /\ task' = Settled({run[r].task}, "failed")
  /\ Returned({r})
  /\ UNCHANGED <<manager, session, grants>>

(***************************************************************************)
(* Cancellation and revocation.                                            *)
(***************************************************************************)
(* By a Worker or an administrator: the row alone, not the handler. *)
CancelTask(t) ==
  /\ task[t].status \in Open
  /\ task' = [task EXCEPT ![t].status = "cancelled"]
  /\ UNCHANGED <<manager, session, grants, runs>>

(* The rows are closed before the executor is asked to cancel the open tasks,
   so that it finds none and no handler is aborted; then browsers are stopped. *)
RevokeRows(G, from) ==
  /\ session' = [s \in Sessions |-> IF s \in G /\ session[s] \in from
                                    THEN "revoked" ELSE session[s]]
  /\ task' = CancelIn(G)
  /\ UNCHANGED runs

RevokeSession(s) ==
  /\ session[s] \in {"active", "overdue", "expired"}
  /\ RevokeRows({s}, {"active", "overdue", "expired"})
  /\ BeginStop({s})
  /\ UNCHANGED grants

RevokeUser(u) ==
  LET G == {s \in Sessions : Owner[s] = u}
  IN /\ u \in members
     /\ members' = members \ {u}
     /\ RevokeRows(G, {"active", "overdue"}) /\ BeginStop(G)
     /\ UNCHANGED <<installed, capable>>

(* Disabling and uninstalling. *)
RevokeInstallation(from, to) ==
  /\ installed = from /\ installed' = to
  /\ RevokeRows(Sessions, {"active", "overdue"}) /\ BeginStop(Sessions)
  /\ UNCHANGED <<capable, members>>

EnableInstallation ==
  /\ installed = "disabled" /\ installed' = "installed"
  /\ UNCHANGED <<manager, rows, runs, capable, members>>

(* The open tasks are cancelled and their handlers aborted. *)
CancelInstallation ==
  /\ task' = CancelIn(Sessions)
  /\ aborted' = aborted \cup {run[r].task : r \in {q \in Runners :
       run[q] # NotRunning /\ task[run[q].task].status = "running"}}
  /\ UNCHANGED <<session, run>>

(* Capabilities are changed: only if "browser" is taken away are the sessions
   revoked, and with them all rows closed, before any handler is aborted. *)
SetCapabilities(browserToo) ==
  /\ capable' = IF browserToo THEN "granted" ELSE IF capable = "granted" THEN "withdrawn" ELSE capable
  /\ IF capable = "granted" /\ ~browserToo
     THEN RevokeRows(Sessions, {"active", "overdue"}) ELSE CancelInstallation
  /\ BeginStop(Sessions)
  /\ UNCHANGED <<installed, members>>

(* Of an upgrade only what it does to the capability: the new version may not
   ask for it, and a rollback writes back what was read before the upgrade.
   Neither looks at sessions, tasks or browsers. *)
Dropped == IF capable = "granted" THEN "dropped" ELSE capable

UpgradePlugin ==
  /\ installed = "installed"
  /\ capable' = Dropped
  /\ UNCHANGED <<manager, rows, runs, installed, members>>

RollbackPlugin(before) ==
  /\ installed = "installed"
  /\ capable' = IF before THEN "granted" ELSE Dropped
  /\ UNCHANGED <<manager, rows, runs, installed, members>>

(* Core stops and boots again: the rows are left as they are. *)
Crash ==
  /\ ManagerCrash
  /\ run' = [r \in Runners |-> NotRunning] /\ aborted' = {}
  /\ UNCHANGED <<rows, grants>>

OnlyManager(A) == A /\ UNCHANGED <<rows, grants, runs>>

(***************************************************************************)
(* Who calls what: a Worker of u, for sessions and tasks of its own; the   *)
(* recovery scheduler or an administrator's run, for scopes that resolve;  *)
(* an administrator, whatever became of the installation.                  *)
(***************************************************************************)
Served(u) == installed = "installed" /\ capable = "granted" /\ u \in members

BrowserRequest(u) ==
  /\ Served(u)
  /\ \/ \E s \in Sessions : Owner[s] = u /\ (CreateSession(s) \/ Enqueue(s) \/ RevokeSession(s))
     \/ \E t \in Tasks : task[t].status \in Open /\ Owner[task[t].session] = u /\ CancelTask(t)
     \/ List(u)

ScopeResolves(u) == installed = "installed" /\ u \in members

RunRequest(r, u) ==
  /\ ScopeResolves(u)
  /\ Claim(r, u) \/ ClaimUnhandled(u) \/ List(u)

Next ==
  \/ \E u \in Users :
       \/ BrowserRequest(u) \/ RevokeUser(u)
       \/ \E r \in Runners : RunRequest(r, u)
  \/ \E s \in Sessions : TimePasses(s) \/ RevokeSession(s)
  \/ \E r \in Runners : HandlerSucceeds(r) \/ HandlerFails(r)
  \/ \E t \in Tasks : CancelTask(t)
  \/ \E b \in Browsers :
       \/ LaunchSucceeds(b) \/ LaunchFails(b)
       \/ OnlyManager(Closed(b)) \/ OnlyManager(Dies(b))
  \/ \E x \in stops : OnlyManager(FinishStop(x))
  \/ RevokeInstallation("installed", "disabled") \/ RevokeInstallation("disabled", "uninstalled")
  \/ EnableInstallation
  \/ \E browserToo \in BOOLEAN : SetCapabilities(browserToo)
  \/ UpgradePlugin \/ \E before \in BOOLEAN : RollbackPlugin(before)
  \/ Crash

Spec == Init /\ [][Next]_vars

-----------------------------------------------------------------------------
TaskStates == {"none", "queued", "running", "succeeded", "failed", "cancelled"}

(* Type invariant, with that of the manager: a runner that works or waits has
   a task and a browser. *)
TypeOK ==
  /\ ManagerTypeOK
  /\ session \in [Sessions -> {"none", "active", "overdue", "expired", "revoked"}]
  /\ task \in [Tasks -> [status : TaskStates, session : Sessions \cup {None}]]
  /\ aborted \subseteq Tasks
  /\ installed \in {"installed", "disabled", "uninstalled"} /\ members \subseteq Users
  /\ capable \in {"granted", "withdrawn", "dropped"}
  /\ run \in [Runners -> {NotRunning} \cup [at : {"starting", "working"}, task : Tasks, browser : Browsers]]

(* A task is open only as long as the row of its session is active: whatever
   ends a session closes all its tasks. *)
OpenTasksOfActiveSessions ==
  \A t \in Tasks : task[t].status \in Open => session[task[t].session] \in {"active", "overdue"}

(* Whoever an administrator has cut off - the user, the installation or the
   capability - has no session that goes on, and so no task that a runner
   could claim.  An upgrade that drops the capability does not cut off: the
   scopes still resolve, and queued tasks are run. *)
CutOff(u) == ~ScopeResolves(u) \/ capable = "withdrawn"

SessionsOfServed ==
  \A s \in Sessions : session[s] \in {"active", "overdue"} => ~CutOff(Owner[s])

(* No task is run by two runners, although the scheduler and administrators
   claim from the same scopes at the same time. *)
NoTaskRunsTwice ==
  \A q, r \in Runners :
    run[q] # NotRunning /\ run[r] # NotRunning /\ run[q].task = run[r].task => q = r

(* Tasks agree with sessions and runners, under every interleaving of claims,
   results, cancellations, expiry and revocation. *)
TasksSound == TypeOK /\ OpenTasksOfActiveSessions /\ SessionsOfServed /\ NoTaskRunsTwice

(* A result that arrives after its task was cancelled, revoked or expired
   changes nothing: a closed row is final. *)
ClosedTasksStay ==
  [][\A t \in Tasks : task[t].status \in {"succeeded", "failed", "cancelled"}
                      => task'[t] = task[t]]_vars

(* Once the stop that came with its revocation has gone through, a revoked
   session, and any session of a user who was cut off, has no browser and
   none is started for it any more. *)
RevokedSessionsHaveNoBrowser ==
  \A s \in Sessions :
    (session[s] = "revoked" \/ CutOff(Owner[s])) /\ (\A x \in stops : s \notin x.group)
    => worker[s] = None /\ pending[s] = None

(* Browsers agree with the manager's maps and with the sessions' rows. *)
BrowsersSound == BrowsersAccountedFor /\ RevokedSessionsHaveNoBrowser
=============================================================================

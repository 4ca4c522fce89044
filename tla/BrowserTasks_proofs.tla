------------------------ MODULE BrowserTasks_proofs ------------------------
(***************************************************************************)
(* Theorems about BrowserTasks: for any number of sessions, tasks, runners,*)
(* browsers and stop calls, rows, runners and browsers agree.              *)
(*                                                                         *)
(* The strengthening: a task that was created has a session; a task that a *)
(* runner holds is no longer queued; and as long as a session that ended   *)
(* has a worker or a start, a stop call is under way that will find it,    *)
(* the start among those that the call waits for.                          *)
(***************************************************************************)
EXTENDS BrowserTasks, TLAPS

BrowsersOwned ==
  \A b \in Browsers : browser[b].at \in {"launching", "open", "dead"} => browser[b].session \in Sessions

ManagerInv == ManagerTypeOK /\ BrowsersAccountedFor /\ BrowsersOwned

RowsOK(ses, tasks) ==
  /\ ses \in [Sessions -> {"none", "active", "overdue", "expired", "revoked"}]
  /\ tasks \in [Tasks -> [status : TaskStates, session : Sessions \cup {None}]]
  /\ \A t \in Tasks : tasks[t].status # "none" => tasks[t].session \in Sessions
  /\ \A t \in Tasks : tasks[t].status \in Open => ses[tasks[t].session] \in {"active", "overdue"}

RunsOK(runners, tasks) ==
  /\ runners \in [Runners -> {NotRunning} \cup [at : {"starting", "working"}, task : Tasks, browser : Browsers]]
  /\ \A r \in Runners : runners[r] # NotRunning => tasks[runners[r].task].status \notin {"none", "queued"}
  /\ \A q, r \in Runners :
       runners[q] # NotRunning /\ runners[r] # NotRunning /\ runners[q].task = runners[r].task => q = r

GrantsOK(inst, cap, mem) ==
  /\ inst \in {"installed", "disabled", "uninstalled"} /\ mem \subseteq Users
  /\ cap \in {"granted", "withdrawn", "dropped"}

ServedOK(ses, inst, cap, mem) ==
  \A s \in Sessions : ses[s] \in {"active", "overdue"} => inst = "installed" /\ cap # "withdrawn" /\ Owner[s] \in mem

(* Whoever has ended leaves nothing that no stop call will find.           *)
Ended(s, ses, inst, cap, mem) ==
  ses[s] = "revoked" \/ ~(inst = "installed" /\ cap # "withdrawn" /\ Owner[s] \in mem)

Found(s, wk, pd, st) ==
  /\ wk[s] # None => \E x \in st : s \in x.group
  /\ pd[s] # None => \E x \in st : s \in x.group /\ pd[s] \in x.awaits

EndedFound ==
  \A s \in Sessions : Ended(s, session, installed, capable, members) => Found(s, worker, pending, stops)

BrowserInv ==
  /\ ManagerInv
  /\ RowsOK(session, task)
  /\ RunsOK(run, task) /\ aborted \subseteq Tasks
  /\ GrantsOK(installed, capable, members)
  /\ ServedOK(session, installed, capable, members)
  /\ EndedFound

LEMMA BrowserInvHolds == BrowserInv => TasksSound /\ BrowsersSound
<1> SUFFICES ASSUME BrowserInv PROVE TasksSound /\ BrowsersSound
  OBVIOUS
<1>1. TypeOK
  BY DEF BrowserInv, ManagerInv, RowsOK, RunsOK, GrantsOK, TypeOK
<1>2. OpenTasksOfActiveSessions /\ SessionsOfServed /\ NoTaskRunsTwice
  BY DEF BrowserInv, RowsOK, RunsOK, ServedOK, OpenTasksOfActiveSessions, SessionsOfServed, NoTaskRunsTwice, CutOff, ScopeResolves
<1>3. RevokedSessionsHaveNoBrowser
  BY DEF BrowserInv, EndedFound, Ended, Found, RevokedSessionsHaveNoBrowser, CutOff, ScopeResolves
<1> QED
  BY <1>1, <1>2, <1>3 DEF TasksSound, BrowsersSound, BrowserInv, ManagerInv

(***************************************************************************)
(* The manager.                                                            *)
(***************************************************************************)
LEMMA MapsPoint ==
  ASSUME ManagerInv
  PROVE  /\ \A s \in Sessions : worker[s] # None =>
              worker[s] \in Browsers /\ browser[worker[s]].at \in {"open", "dead"} /\ browser[worker[s]].session = s
         /\ \A s \in Sessions : pending[s] # None =>
              pending[s] \in Browsers /\ browser[pending[s]].at = "launching" /\ browser[pending[s]].session = s
<1>1. ASSUME NEW s \in Sessions, worker[s] # None
      PROVE  worker[s] \in Browsers /\ browser[worker[s]].at \in {"open", "dead"} /\ browser[worker[s]].session = s
  <2>1. worker \in [Sessions -> Browsers \cup {None}]
    BY DEF ManagerInv, ManagerTypeOK
  <2>2. browser[worker[s]].at \in {"open", "dead"} /\ browser[worker[s]].session = s
    BY <1>1, Zenon DEF ManagerInv, ManagerTypeOK
  <2> QED
    BY <1>1, <2>1, <2>2
<1>2. ASSUME NEW s \in Sessions, pending[s] # None
      PROVE  pending[s] \in Browsers /\ browser[pending[s]].at = "launching" /\ browser[pending[s]].session = s
  <2>1. pending \in [Sessions -> Browsers \cup {None}]
    BY DEF ManagerInv, ManagerTypeOK
  <2>2. browser[pending[s]] = [at |-> "launching", session |-> s]
    BY <1>2, Zenon DEF ManagerInv, ManagerTypeOK
  <2> QED
    BY <1>2, <2>1, <2>2
<1> QED
  BY <1>1, <1>2

LEMMA LaunchKeeps ==
  ASSUME ManagerInv, NEW s \in Sessions, NEW b \in Browsers, BeginLaunch(s, b)
  PROVE  ManagerInv'
<1> USE WorkersAssumption
<1>1. PICK new : new = [at |-> "launching", session |-> s]
  OBVIOUS
<1>2. /\ browser' = [browser EXCEPT ![b] = new] /\ pending' = [pending EXCEPT ![s] = b]
      /\ worker' = worker /\ stops' = stops
      /\ browser[b].at = "off" /\ worker[s] = None /\ pending[s] = None
  BY <1>1 DEF BeginLaunch, Startable, Off
<1>3. new \in [at : BrowserStates, session : Sessions \cup {None}] /\ new.at = "launching" /\ new.session = s
  BY <1>1 DEF BrowserStates
<1>4. ManagerTypeOK'
  BY <1>1, <1>2, <1>3 DEF ManagerInv, ManagerTypeOK
<1>5. BrowsersAccountedFor' /\ BrowsersOwned'
  BY <1>2, <1>3 DEF ManagerInv, ManagerTypeOK, BrowsersAccountedFor, BrowsersOwned
<1> QED
  BY <1>4, <1>5 DEF ManagerInv

LEMMA LaunchedKeeps ==
  ASSUME ManagerInv, NEW b \in Browsers, Launched(b)
  PROVE  ManagerInv' /\ browser[b].session \in Sessions /\ pending[browser[b].session] = b
<1> USE WorkersAssumption
<1>1. browser[b].at = "launching" /\ pending[browser[b].session] = b
  BY DEF ManagerInv, BrowsersAccountedFor, Launched
<1>2. PICK s \in Sessions : s = browser[b].session
  BY <1>1 DEF ManagerInv, BrowsersOwned
<1>3. PICK new : new = [browser[b] EXCEPT !.at = "open"]
  OBVIOUS
<1>4. new \in [at : BrowserStates, session : Sessions \cup {None}] /\ new.at = "open" /\ new.session = s
  BY <1>2, <1>3 DEF ManagerInv, ManagerTypeOK, BrowserStates
<1>5. /\ browser' = [browser EXCEPT ![b] = new] /\ pending' = [pending EXCEPT ![s] = None]
      /\ worker' = [worker EXCEPT ![s] = b] /\ stops' = stops
  BY <1>2, <1>3 DEF Launched
<1>6. ManagerTypeOK'
  BY <1>1, <1>2, <1>4, <1>5 DEF ManagerInv, ManagerTypeOK
<1>7. BrowsersAccountedFor' /\ BrowsersOwned'
  BY <1>1, <1>2, <1>4, <1>5 DEF ManagerInv, ManagerTypeOK, BrowsersAccountedFor, BrowsersOwned
<1> QED
  BY <1>1, <1>2, <1>6, <1>7 DEF ManagerInv

LEMMA LaunchFailedKeeps ==
  ASSUME ManagerInv, NEW b \in Browsers, LaunchFailed(b)
  PROVE  ManagerInv' /\ browser[b].session \in Sessions /\ pending[browser[b].session] = b
<1> USE WorkersAssumption
<1>1. browser[b].at = "launching" /\ pending[browser[b].session] = b
  BY DEF ManagerInv, BrowsersAccountedFor, LaunchFailed
<1>2. PICK s \in Sessions : s = browser[b].session
  BY <1>1 DEF ManagerInv, BrowsersOwned
<1>3. Off \in [at : BrowserStates, session : Sessions \cup {None}] /\ Off.at = "off"
  BY DEF Off, BrowserStates
<1>4. /\ browser' = [browser EXCEPT ![b] = Off] /\ pending' = [pending EXCEPT ![s] = None]
      /\ worker' = worker /\ stops' = stops
  BY <1>2 DEF LaunchFailed
<1>5. ManagerTypeOK'
  BY <1>1, <1>2, <1>3, <1>4 DEF ManagerInv, ManagerTypeOK
<1>6. BrowsersAccountedFor' /\ BrowsersOwned'
  BY <1>1, <1>2, <1>3, <1>4 DEF ManagerInv, ManagerTypeOK, BrowsersAccountedFor, BrowsersOwned
<1> QED
  BY <1>1, <1>2, <1>5, <1>6 DEF ManagerInv

LEMMA BeginStopKeeps ==
  ASSUME ManagerInv, NEW G \in SUBSET Sessions, BeginStop(G)
  PROVE  /\ ManagerInv' /\ worker' = worker /\ pending' = pending
         /\ Stop(G) \in stops' /\ stops \subseteq stops'
         /\ Stop(G).group = G /\ \A s \in G : pending[s] # None => pending[s] \in Stop(G).awaits
<1>1. Stop(G).group = G /\ Stop(G).awaits = {pending[s] : s \in G} \ {None}
  BY DEF Stop
<1>2. Stop(G).awaits \subseteq Browsers
  BY <1>1 DEF ManagerInv, ManagerTypeOK
<1>3. Stop(G) \in Stops
  BY <1>2 DEF Stop, Stops
<1>4. stops' = stops \cup {Stop(G)} /\ UNCHANGED <<browser, worker, pending>>
  BY DEF BeginStop
<1>5. ManagerInv'
  BY <1>3, <1>4 DEF ManagerInv, ManagerTypeOK, BrowsersAccountedFor, BrowsersOwned
<1> QED
  BY <1>1, <1>4, <1>5

LEMMA FinishStopKeeps ==
  ASSUME ManagerInv, NEW x \in stops, FinishStop(x)
  PROVE  ManagerInv'
<1> USE WorkersAssumption
<1>1. x.group \subseteq Sessions
  BY DEF ManagerInv, ManagerTypeOK, Stops
<1>2. \A b \in Browsers : /\ browser'[b].session = browser[b].session
                          /\ browser'[b].at = IF \E s \in x.group : worker[s] = b THEN "closing" ELSE browser[b].at
                          /\ browser'[b] \in [at : BrowserStates, session : Sessions \cup {None}]
  BY DEF ManagerInv, ManagerTypeOK, FinishStop, BrowserStates
<1>3. \A b \in Browsers : ~(\E s \in x.group : worker[s] = b) => browser'[b] = browser[b]
  BY DEF FinishStop
<1>a. \A s \in Sessions \ x.group : worker[s] # None => ~(\E q \in x.group : worker[q] = worker[s])
  BY <1>1, MapsPoint
<1>b. \A s \in Sessions : pending[s] # None => ~(\E q \in x.group : worker[q] = pending[s])
  BY <1>1, MapsPoint
<1>4. /\ browser' \in [Browsers -> [at : BrowserStates, session : Sessions \cup {None}]]
      /\ worker' = [s \in Sessions |-> IF s \in x.group THEN None ELSE worker[s]]
      /\ stops' \subseteq stops /\ pending' = pending
  BY <1>2 DEF FinishStop
<1>5. ManagerTypeOK'
  <2>1. ASSUME NEW s \in Sessions, worker'[s] # None
        PROVE  browser'[worker'[s]].at \in {"open", "dead"} /\ browser'[worker'[s]].session = s
    <3>1. s \notin x.group /\ worker'[s] = worker[s] /\ worker[s] # None
      BY <1>4, <2>1
    <3>2. worker[s] \in Browsers /\ browser[worker[s]].at \in {"open", "dead"} /\ browser[worker[s]].session = s
      BY <3>1, MapsPoint
    <3>3. browser'[worker[s]] = browser[worker[s]]
      BY <1>3, <1>a, <3>1, <3>2
    <3> QED
      BY <3>1, <3>2, <3>3
  <2>2. ASSUME NEW s \in Sessions, pending'[s] # None
        PROVE  browser'[pending'[s]] = [at |-> "launching", session |-> s]
    <3>1. pending'[s] = pending[s] /\ pending[s] \in Browsers
      BY <1>4, <2>2 DEF ManagerInv, ManagerTypeOK
    <3>2. browser'[pending[s]] = browser[pending[s]]
      BY <1>3, <1>b, <2>2, <3>1
    <3> QED
      BY <2>2, <3>1, <3>2 DEF ManagerInv, ManagerTypeOK
  <2>3. worker' \in [Sessions -> Browsers \cup {None}]
    BY <1>4 DEF ManagerInv, ManagerTypeOK
  <2> QED
    BY <1>4, <2>1, <2>2, <2>3 DEF ManagerInv, ManagerTypeOK
<1>6. BrowsersAccountedFor' /\ BrowsersOwned'
  BY <1>1, <1>2, <1>4 DEF ManagerInv, ManagerTypeOK, BrowsersAccountedFor, BrowsersOwned
<1> QED
  BY <1>5, <1>6 DEF ManagerInv

LEMMA ClosedKeeps ==
  ASSUME ManagerInv, NEW b \in Browsers, Closed(b)
  PROVE  ManagerInv'
<1> USE WorkersAssumption
<1>1. browser[b].at = "closing" /\ browser' = [browser EXCEPT ![b] = Off] /\ UNCHANGED <<worker, pending, stops>>
  BY DEF Closed
<1>2. Off \in [at : BrowserStates, session : Sessions \cup {None}] /\ Off.at = "off"
  BY DEF Off, BrowserStates
<1>3. ManagerTypeOK'
  BY <1>1, <1>2 DEF ManagerInv, ManagerTypeOK
<1>4. BrowsersAccountedFor' /\ BrowsersOwned'
  BY <1>1, <1>2 DEF ManagerInv, ManagerTypeOK, BrowsersAccountedFor, BrowsersOwned
<1> QED
  BY <1>3, <1>4 DEF ManagerInv

LEMMA DiesKeeps ==
  ASSUME ManagerInv, NEW b \in Browsers, Dies(b)
  PROVE  ManagerInv'
<1> USE WorkersAssumption
<1>1. PICK new : new = [browser[b] EXCEPT !.at = "dead"]
  OBVIOUS
<1>2. new \in [at : BrowserStates, session : Sessions \cup {None}] /\ new.at = "dead" /\ new.session = browser[b].session
  BY <1>1 DEF ManagerInv, ManagerTypeOK, BrowserStates
<1>3. browser[b].at = "open" /\ browser' = [browser EXCEPT ![b] = new] /\ UNCHANGED <<worker, pending, stops>>
  BY <1>1 DEF Dies
<1>4. ManagerTypeOK'
  BY <1>2, <1>3 DEF ManagerInv, ManagerTypeOK
<1>5. BrowsersAccountedFor' /\ BrowsersOwned'
  BY <1>2, <1>3 DEF ManagerInv, ManagerTypeOK, BrowsersAccountedFor, BrowsersOwned
<1> QED
  BY <1>4, <1>5 DEF ManagerInv

LEMMA CrashKeeps ==
  ASSUME ManagerCrash
  PROVE  ManagerInv' /\ \A s \in Sessions : worker'[s] = None /\ pending'[s] = None
<1> USE WorkersAssumption
<1>1. Off \in [at : BrowserStates, session : Sessions \cup {None}] /\ Off.at = "off"
  BY DEF Off, BrowserStates
<1>2. ManagerTypeOK'
  BY <1>1 DEF ManagerCrash, ManagerTypeOK
<1>3. BrowsersAccountedFor' /\ BrowsersOwned'
  BY <1>1 DEF ManagerCrash, BrowsersAccountedFor, BrowsersOwned
<1> QED
  BY <1>2, <1>3 DEF ManagerInv, ManagerCrash

(***************************************************************************)
(* Rows.  Most steps only close some of the open tasks.                    *)
(***************************************************************************)
TaskRows == [status : TaskStates, session : Sessions \cup {None}]

Closes(tasks, new) ==
  /\ new \in [Tasks -> TaskRows]
  /\ \A t \in Tasks :
       \/ new[t] = tasks[t]
       \/ tasks[t].status \in Open /\ new[t].status \in {"succeeded", "failed", "cancelled"}
          /\ new[t].session = tasks[t].session

LEMMA ClosedRow ==
  ASSUME NEW row \in TaskRows, NEW status \in TaskStates
  PROVE  /\ [row EXCEPT !.status = status] \in TaskRows
         /\ [row EXCEPT !.status = status].status = status
         /\ [row EXCEPT !.status = status].session = row.session
BY DEF TaskRows

LEMMA CancelInCloses ==
  ASSUME task \in [Tasks -> TaskRows], NEW G \in SUBSET Sessions
  PROVE  /\ Closes(task, CancelIn(G))
         /\ \A t \in Tasks : task[t].session \in G => CancelIn(G)[t].status \notin Open
<1> DEFINE new == CancelIn(G)
<1>1. new = [t \in Tasks |-> IF task[t].session \in G /\ task[t].status \in Open
                             THEN [task[t] EXCEPT !.status = "cancelled"] ELSE task[t]]
  BY DEF CancelIn
<1> HIDE DEF new
<1>2. ASSUME NEW t \in Tasks
      PROVE  /\ new[t] \in TaskRows
             /\ \/ new[t] = task[t]
                \/ task[t].status \in Open /\ new[t].status = "cancelled" /\ new[t].session = task[t].session
             /\ task[t].session \in G => new[t].status \notin Open
  <2>1. PICK row \in TaskRows : row = task[t]
    OBVIOUS
  <2>2. PICK closed : closed = [row EXCEPT !.status = "cancelled"]
    OBVIOUS
  <2>3. closed \in TaskRows /\ closed.status = "cancelled" /\ closed.session = row.session
    BY <2>2 DEF TaskRows, TaskStates
  <2>4. CASE row.session \in G /\ row.status \in Open
    BY <1>1, <2>1, <2>2, <2>3, <2>4 DEF Open
  <2>5. CASE ~(row.session \in G /\ row.status \in Open)
    BY <1>1, <2>1, <2>5
  <2> QED
    BY <2>4, <2>5
<1>3. new \in [Tasks -> TaskRows]
  BY <1>1, <1>2
<1> QED
  BY <1>2, <1>3 DEF Closes, new

LEMMA SettledCloses ==
  ASSUME task \in [Tasks -> TaskRows], NEW T \in SUBSET Tasks, NEW status \in {"succeeded", "failed"}
  PROVE  Closes(task, Settled(T, status))
<1> DEFINE new == Settled(T, status)
<1>1. new = [t \in Tasks |-> IF t \in T /\ task[t].status = "running"
                             THEN [task[t] EXCEPT !.status = status] ELSE task[t]]
  BY DEF Settled
<1> HIDE DEF new
<1>2. ASSUME NEW t \in Tasks
      PROVE  /\ new[t] \in TaskRows
             /\ \/ new[t] = task[t]
                \/ task[t].status = "running" /\ new[t].status = status /\ new[t].session = task[t].session
  <2>1. PICK row \in TaskRows : row = task[t]
    OBVIOUS
  <2>2. PICK closed : closed = [row EXCEPT !.status = status]
    OBVIOUS
  <2>3. closed \in TaskRows /\ closed.status = status /\ closed.session = row.session
    BY <2>2 DEF TaskRows, TaskStates
  <2>4. CASE t \in T /\ row.status = "running"
    BY <1>1, <2>1, <2>2, <2>3, <2>4
  <2>5. CASE ~(t \in T /\ row.status = "running")
    BY <1>1, <2>1, <2>5
  <2> QED
    BY <2>4, <2>5
<1>3. new \in [Tasks -> TaskRows]
  BY <1>1, <1>2
<1> QED
  BY <1>2, <1>3 DEF Closes, new, Open

LEMMA ClosesKeeps ==
  ASSUME NEW ses, NEW tasks, NEW new, RowsOK(ses, tasks), Closes(tasks, new)
  PROVE  RowsOK(ses, new) /\ \A runners : RunsOK(runners, tasks) => RunsOK(runners, new)
<1>1. \A t \in Tasks : /\ new[t].session = tasks[t].session
                       /\ new[t].status \in Open => tasks[t].status \in Open
                       /\ new[t].status # "none" => tasks[t].status # "none"
                       /\ tasks[t].status \notin {"none", "queued"} => new[t].status \notin {"none", "queued"}
  BY DEF Closes, Open
<1>2. RowsOK(ses, new)
  BY <1>1 DEF RowsOK, Closes, TaskRows
<1>3. ASSUME NEW runners, RunsOK(runners, tasks) PROVE RunsOK(runners, new)
  <2>1. ASSUME NEW r \in Runners, runners[r] # NotRunning PROVE new[runners[r].task].status \notin {"none", "queued"}
    <3>1. runners[r].task \in Tasks /\ tasks[runners[r].task].status \notin {"none", "queued"}
      BY <1>3, <2>1 DEF RunsOK
    <3> QED
      BY <1>1, <3>1
  <2> QED
    BY <1>3, <2>1 DEF RunsOK
<1> QED
  BY <1>2, <1>3

(* Sessions may end when they have no open task.                           *)
LEMMA SessionsMayEnd ==
  ASSUME NEW ses, NEW new, NEW tasks, RowsOK(ses, tasks),
         new \in [Sessions -> {"none", "active", "overdue", "expired", "revoked"}],
         \A s \in Sessions : \/ new[s] = ses[s]
                             \/ \A t \in Tasks : tasks[t].session = s => tasks[t].status \notin Open
  PROVE  RowsOK(new, tasks)
<1>1. ASSUME NEW t \in Tasks, tasks[t].status \in Open PROVE new[tasks[t].session] \in {"active", "overdue"}
  <2>1. PICK s \in Sessions : s = tasks[t].session
    BY <1>1 DEF RowsOK, Open
  <2>2. ses[s] \in {"active", "overdue"}
    BY <1>1, <2>1 DEF RowsOK
  <2> QED
    BY <1>1, <2>1, <2>2
<1> QED
  BY <1>1 DEF RowsOK

(* What ends a session on the side of its scope, and its tasks with it.    *)
LEMMA ReconcileSteps ==
  ASSUME RowsOK(session, task), NEW u \in Users
  PROVE  /\ RowsOK(Reconciled(u), CancelIn(Expired(u)))
         /\ Closes(task, CancelIn(Expired(u)))
         /\ \A s \in Sessions : /\ Reconciled(u)[s] \in {"active", "overdue"} => session[s] = Reconciled(u)[s]
                                /\ Reconciled(u)[s] = "revoked" <=> session[s] = "revoked"
                                /\ session[s] = "active" => Reconciled(u)[s] = "active"
<1>1. Expired(u) \in SUBSET Sessions /\ task \in [Tasks -> TaskRows]
  BY DEF Expired, RowsOK, TaskRows
<1>2. PICK new : new = CancelIn(Expired(u))
  OBVIOUS
<1>3. Closes(task, new) /\ \A t \in Tasks : task[t].session \in Expired(u) => new[t].status \notin Open
  BY <1>1, <1>2, CancelInCloses
<1>4. RowsOK(session, new)
  BY <1>3, ClosesKeeps
<1>5. \A t \in Tasks : new[t].session = task[t].session
  BY <1>3 DEF Closes
<1>6. PICK ses : ses = Reconciled(u)
  OBVIOUS
<1>7. /\ ses \in [Sessions -> {"none", "active", "overdue", "expired", "revoked"}]
      /\ \A s \in Sessions : ses[s] = IF s \in Expired(u) THEN "expired" ELSE session[s]
  BY <1>6 DEF Reconciled, RowsOK
<1>8. RowsOK(ses, new)
  BY <1>3, <1>4, <1>5, <1>7, SessionsMayEnd
<1>9. \A s \in Expired(u) : session[s] \in {"expired", "overdue"}
  BY DEF Expired
<1> QED
  BY <1>2, <1>3, <1>6, <1>7, <1>8, <1>9

(* A claimed task was queued and its session active.                       *)
LEMMA ClaimSteps ==
  ASSUME RowsOK(session, task), NEW u \in Users, NEW t \in Claimable(u), NEW status \in {"running", "failed"},
         ClaimRow(t, u, status)
  PROVE  /\ RowsOK(session', task')
         /\ t \in Tasks /\ task[t].status = "queued" /\ task[t].session \in Sessions
         /\ session[task[t].session] = "active" /\ Owner[task[t].session] = u
         /\ task'[t].status = status
         /\ \A q \in Tasks : q # t => \/ task'[q] = task[q]
                                      \/ task[q].status \in Open /\ task'[q].status \in {"succeeded", "failed", "cancelled"}
<1>1. /\ t \in Tasks /\ task[t].status = "queued" /\ session[task[t].session] = "active"
      /\ Owner[task[t].session] = u
  BY DEF Claimable
<1>2. task[t].session \in Sessions
  BY <1>1 DEF RowsOK
<1>3. PICK new : new = CancelIn(Expired(u))
  OBVIOUS
<1>4. RowsOK(session', new) /\ Closes(task, new) /\ session'[task[t].session] = "active"
  BY <1>1, <1>2, <1>3, ReconcileSteps DEF ClaimRow
<1>5. task' = [new EXCEPT ![t].status = status]
  BY <1>3 DEF ClaimRow
<1>6. new \in [Tasks -> TaskRows] /\ new[t].session = task[t].session
  BY <1>1, <1>4 DEF Closes
<1>7. task' \in [Tasks -> TaskRows] /\ task'[t].status = status /\ task'[t].session = task[t].session
      /\ \A q \in Tasks : q # t => task'[q] = new[q]
  BY <1>1, <1>5, <1>6 DEF TaskRows, TaskStates
<1>8. RowsOK(session', task')
  BY <1>2, <1>4, <1>7 DEF RowsOK, TaskRows
<1> QED
  BY <1>1, <1>2, <1>4, <1>7, <1>8 DEF Closes

(***************************************************************************)
(* Runners.                                                                *)
(***************************************************************************)
LEMMA FewerRuns ==
  ASSUME NEW runners, NEW new, NEW tasks, RunsOK(runners, tasks),
         new \in [Runners -> {NotRunning} \cup [at : {"starting", "working"}, task : Tasks, browser : Browsers]],
         \A r \in Runners : new[r] = NotRunning \/ (runners[r] # NotRunning /\ new[r].task = runners[r].task)
  PROVE  RunsOK(new, tasks)
BY DEF RunsOK

LEMMA ReturnedSteps ==
  ASSUME NEW tasks, RunsOK(run, tasks), aborted \subseteq Tasks, NEW R \in SUBSET Runners, Returned(R)
  PROVE  RunsOK(run', tasks) /\ aborted' \subseteq Tasks
<1>1. run' = [r \in Runners |-> IF r \in R THEN NotRunning ELSE run[r]] /\ aborted' \subseteq Tasks
  BY DEF Returned
<1>2. run' \in [Runners -> {NotRunning} \cup [at : {"starting", "working"}, task : Tasks, browser : Browsers]]
  BY <1>1 DEF RunsOK
<1>3. \A r \in Runners : run'[r] = NotRunning \/ (run[r] # NotRunning /\ run'[r].task = run[r].task)
  BY <1>1
<1> QED
  BY <1>1, <1>2, <1>3, FewerRuns

(***************************************************************************)
(* Sessions that ended.                                                    *)
(***************************************************************************)
Gone(s) == Ended(s, session, installed, capable, members)

LEMMA FoundStays ==
  ASSUME BrowserInv, UNCHANGED <<worker, pending>>, stops \subseteq stops',
         \A s \in Sessions : Gone(s)' => Gone(s)
  PROVE  EndedFound'
BY DEF BrowserInv, EndedFound, Found, Gone

LEMMA ManagerStays ==
  ASSUME ManagerInv, UNCHANGED manager
  PROVE  ManagerInv'
BY DEF manager, ManagerInv, ManagerTypeOK, BrowsersAccountedFor, BrowsersOwned

(* Steps that change rows and runners only.                                *)
LEMMA RowSteps ==
  ASSUME BrowserInv, UNCHANGED <<manager, grants>>,
         RowsOK(session', task'), RunsOK(run', task'), aborted' \subseteq Tasks,
         \A s \in Sessions : /\ session'[s] = "revoked" => session[s] = "revoked"
                             /\ session'[s] \in {"active", "overdue"} =>
                                 session[s] \in {"active", "overdue"} \/ Served(Owner[s])
  PROVE  BrowserInv'
<1>1. ManagerInv'
  BY ManagerStays DEF BrowserInv
<1>2. GrantsOK(installed', capable', members')
  BY DEF BrowserInv, grants
<1>3. ServedOK(session', installed', capable', members')
  BY DEF BrowserInv, ServedOK, Served, grants
<1>4. \A s \in Sessions : Gone(s)' => Gone(s)
  BY DEF Gone, Ended, grants
<1>5. EndedFound'
  BY <1>4, FoundStays DEF manager
<1> QED
  BY <1>1, <1>2, <1>3, <1>5 DEF BrowserInv

(* Steps that change the manager only, as far as the rows can tell.        *)
LEMMA ManagerSteps ==
  ASSUME BrowserInv, UNCHANGED <<session, grants>>, ManagerInv', EndedFound',
         RowsOK(session, task'), RunsOK(run', task'), aborted' \subseteq Tasks
  PROVE  BrowserInv'
<1>1. GrantsOK(installed', capable', members') /\ ServedOK(session', installed', capable', members')
  BY DEF BrowserInv, grants
<1> QED
  BY <1>1 DEF BrowserInv

LEMMA CreateSteps ==
  ASSUME BrowserInv, NEW s \in Sessions, Served(Owner[s]), CreateSession(s)
  PROVE  BrowserInv'
<1>1. /\ session' \in [Sessions -> {"none", "active", "overdue", "expired", "revoked"}]
      /\ session[s] = "none" /\ session'[s] = "active" /\ \A q \in Sessions \ {s} : session'[q] = session[q]
      /\ task' = task /\ run' = run /\ aborted' = aborted /\ UNCHANGED <<manager, grants>>
  BY DEF BrowserInv, RowsOK, CreateSession, runs
<1>2. RowsOK(session', task')
  BY <1>1 DEF BrowserInv, RowsOK, Open
<1> QED
  BY <1>1, <1>2, RowSteps DEF BrowserInv

LEMMA TimeSteps ==
  ASSUME BrowserInv, NEW s \in Sessions, TimePasses(s)
  PROVE  BrowserInv'
<1>1. /\ session' \in [Sessions -> {"none", "active", "overdue", "expired", "revoked"}]
      /\ session[s] = "active" /\ session'[s] = "overdue" /\ \A q \in Sessions \ {s} : session'[q] = session[q]
      /\ task' = task /\ run' = run /\ aborted' = aborted /\ UNCHANGED <<manager, grants>>
  BY DEF BrowserInv, RowsOK, TimePasses, runs
<1>2. RowsOK(session', task')
  BY <1>1 DEF BrowserInv, RowsOK, Open
<1> QED
  BY <1>1, <1>2, RowSteps DEF BrowserInv

LEMMA EnqueueSteps ==
  ASSUME BrowserInv, NEW s \in Sessions, Enqueue(s)
  PROVE  BrowserInv'
<1>1. PICK t \in Tasks : /\ task[t].status = "none"
                        /\ task' = [task EXCEPT ![t] = [status |-> "queued", session |-> s]]
  BY DEF Enqueue
<1>2. session[s] = "active" /\ session' = session /\ run' = run /\ aborted' = aborted /\ UNCHANGED <<manager, grants>>
  BY DEF Enqueue, runs
<1>3. PICK new : new = [status |-> "queued", session |-> s]
  OBVIOUS
<1>4. new \in TaskRows /\ new.status = "queued" /\ new.session = s
  BY <1>3 DEF TaskRows, TaskStates
<1>5. task' \in [Tasks -> TaskRows] /\ task'[t] = new /\ \A q \in Tasks \ {t} : task'[q] = task[q]
  BY <1>1, <1>3, <1>4 DEF BrowserInv, RowsOK, TaskRows
<1>6. RowsOK(session', task')
  BY <1>2, <1>4, <1>5 DEF BrowserInv, RowsOK, TaskRows
<1>7. RunsOK(run', task')
  <2>1. ASSUME NEW r \in Runners, run[r] # NotRunning PROVE task'[run[r].task].status \notin {"none", "queued"}
    <3>1. run[r].task \in Tasks /\ task[run[r].task].status \notin {"none", "queued"}
      BY <2>1 DEF BrowserInv, RunsOK
    <3> QED
      BY <1>1, <1>5, <3>1
  <2> QED
    BY <1>2, <2>1 DEF BrowserInv, RunsOK
<1> QED
  BY <1>2, <1>6, <1>7, RowSteps DEF BrowserInv

LEMMA ListSteps ==
  ASSUME BrowserInv, NEW u \in Users, List(u)
  PROVE  BrowserInv'
<1>1. /\ session' = Reconciled(u) /\ task' = CancelIn(Expired(u))
      /\ run' = run /\ aborted' = aborted /\ UNCHANGED <<manager, grants>>
  BY DEF List, runs
<1>2. RowsOK(session, task) /\ RunsOK(run, task) /\ aborted \subseteq Tasks
  BY DEF BrowserInv
<1>3. RowsOK(session', task') /\ Closes(task, task')
  BY <1>1, <1>2, ReconcileSteps
<1>4. RunsOK(run', task')
  BY <1>1, <1>2, <1>3, ClosesKeeps
<1>5. \A s \in Sessions : /\ session'[s] = "revoked" => session[s] = "revoked"
                          /\ session'[s] \in {"active", "overdue"} =>
                              session[s] \in {"active", "overdue"} \/ Served(Owner[s])
  BY <1>1, <1>2, ReconcileSteps
<1> QED
  BY <1>1, <1>2, <1>3, <1>4, <1>5, RowSteps

LEMMA CancelTaskSteps ==
  ASSUME BrowserInv, NEW t \in Tasks, CancelTask(t)
  PROVE  BrowserInv' /\ Closes(task, task')
<1>1. task[t].status \in Open /\ task' = [task EXCEPT ![t].status = "cancelled"]
      /\ session' = session /\ run' = run /\ aborted' = aborted /\ UNCHANGED <<manager, grants>>
  BY DEF CancelTask, runs
<1>2. /\ task' \in [Tasks -> TaskRows] /\ task'[t].status = "cancelled" /\ task'[t].session = task[t].session
      /\ \A q \in Tasks \ {t} : task'[q] = task[q]
  BY <1>1 DEF BrowserInv, RowsOK, TaskRows, TaskStates
<1>3. Closes(task, task')
  BY <1>1, <1>2 DEF Closes
<1>4. RowsOK(session, task') /\ RunsOK(run, task')
  BY <1>3, ClosesKeeps DEF BrowserInv
<1> QED
  BY <1>1, <1>3, <1>4, RowSteps DEF BrowserInv

LEMMA ClaimUnhandledSteps ==
  ASSUME BrowserInv, NEW u \in Users, ClaimUnhandled(u)
  PROVE  BrowserInv'
<1>1. PICK t \in Oldest(u) : ClaimRow(t, u, "failed") /\ UNCHANGED <<manager, grants, runs>>
  BY DEF ClaimUnhandled
<1>2. t \in Claimable(u) /\ RowsOK(session, task) /\ RunsOK(run, task) /\ aborted \subseteq Tasks
  BY DEF Oldest, BrowserInv
<1>3. /\ RowsOK(session', task') /\ task[t].status = "queued" /\ task'[t].status = "failed"
      /\ \A q \in Tasks : q # t => \/ task'[q] = task[q]
                                   \/ task[q].status \in Open /\ task'[q].status \in {"succeeded", "failed", "cancelled"}
  BY <1>1, <1>2, ClaimSteps
<1>4. run' = run /\ aborted' = aborted
  BY <1>1 DEF runs
<1>5. RunsOK(run', task')
  <2>1. ASSUME NEW r \in Runners, run[r] # NotRunning PROVE task'[run[r].task].status \notin {"none", "queued"}
    <3>1. run[r].task \in Tasks /\ task[run[r].task].status \notin {"none", "queued"}
      BY <1>2, <2>1 DEF RunsOK
    <3> QED
      BY <1>3, <3>1
  <2> QED
    BY <1>2, <1>4, <2>1 DEF RunsOK
<1>6. \A s \in Sessions : /\ session'[s] = "revoked" => session[s] = "revoked"
                          /\ session'[s] \in {"active", "overdue"} =>
                              session[s] \in {"active", "overdue"} \/ Served(Owner[s])
  BY <1>1, <1>2, ReconcileSteps DEF ClaimRow
<1> QED
  BY <1>1, <1>2, <1>3, <1>4, <1>5, <1>6, RowSteps

(* The runner that claimed the task is the only one that holds it.         *)
LEMMA BeginsSteps ==
  ASSUME RunsOK(run, task), NEW r \in Runners, run[r] = NotRunning,
         NEW t \in Tasks, NEW at \in {"starting", "working"}, NEW b \in Browsers, Begins(r, at, t, b),
         task[t].status = "queued", task'[t].status = "running",
         \A q \in Tasks : q # t => \/ task'[q] = task[q]
                                   \/ task[q].status \in Open /\ task'[q].status \in {"succeeded", "failed", "cancelled"}
  PROVE  RunsOK(run', task')
<1>1. PICK new : new = [at |-> at, task |-> t, browser |-> b]
  OBVIOUS
<1>2. new \in [at : {"starting", "working"}, task : Tasks, browser : Browsers] /\ new.task = t
  BY <1>1
<1>3. run' = [run EXCEPT ![r] = new]
  BY <1>1 DEF Begins
<1>4. /\ run' \in [Runners -> {NotRunning} \cup [at : {"starting", "working"}, task : Tasks, browser : Browsers]]
      /\ run'[r] = new /\ \A q \in Runners \ {r} : run'[q] = run[q]
  BY <1>2, <1>3 DEF RunsOK
<1>5. ASSUME NEW q \in Runners, q # r, run[q] # NotRunning
      PROVE  run[q].task # t /\ task'[run[q].task].status \notin {"none", "queued"}
  <2>1. run[q].task \in Tasks /\ task[run[q].task].status \notin {"none", "queued"}
    BY <1>5 DEF RunsOK
  <2> QED
    BY <2>1
<1>6. ASSUME NEW p \in Runners, NEW q \in Runners, run'[p] # NotRunning, run'[q] # NotRunning, run'[p].task = run'[q].task
      PROVE  p = q
  BY <1>2, <1>4, <1>5, <1>6 DEF RunsOK
<1>7. ASSUME NEW q \in Runners, run'[q] # NotRunning PROVE task'[run'[q].task].status \notin {"none", "queued"}
  BY <1>2, <1>4, <1>5, <1>7
<1> QED
  BY <1>4, <1>6, <1>7 DEF RunsOK

LEMMA ClaimingSteps ==
  ASSUME BrowserInv, NEW r \in Runners, NEW u \in Users, ScopeResolves(u), Claim(r, u)
  PROVE  BrowserInv'
<1> USE WorkersAssumption
<1>1. PICK t \in Oldest(u) : LET s == task[t].session IN
         /\ run[r] = NotRunning
         /\ ClaimRow(t, u, "running")
         /\ \/ worker[s] # None /\ Begins(r, "working", t, worker[s]) /\ UNCHANGED manager
            \/ worker[s] = None /\ pending[s] # None
               /\ Begins(r, "starting", t, pending[s]) /\ UNCHANGED manager
            \/ \E b \in Browsers :
                 /\ \A q \in Runners : run[q].browser # b
                 /\ BeginLaunch(s, b)
                 /\ Begins(r, "starting", t, b)
         /\ UNCHANGED <<grants, aborted>>
  BY DEF Claim
<1>2. /\ t \in Claimable(u) /\ RowsOK(session, task) /\ RunsOK(run, task)
      /\ ManagerInv /\ aborted \subseteq Tasks
  BY DEF Oldest, BrowserInv
<1>3. /\ RowsOK(session', task')
      /\ t \in Tasks /\ task[t].status = "queued" /\ task[t].session \in Sessions
      /\ session[task[t].session] = "active"
      /\ task'[t].status = "running"
      /\ \A q \in Tasks : q # t => \/ task'[q] = task[q]
                                   \/ task[q].status \in Open /\ task'[q].status \in {"succeeded", "failed", "cancelled"}
  BY <1>1, <1>2, ClaimSteps
<1>4. PICK s \in Sessions : s = task[t].session
  BY <1>3
<1>5. run[r] = NotRunning /\ aborted' = aborted /\ UNCHANGED grants
  BY <1>1
<1>6. \A q \in Sessions : /\ session'[q] = "revoked" => session[q] = "revoked"
                          /\ session'[q] \in {"active", "overdue"} =>
                              session[q] \in {"active", "overdue"} \/ Served(Owner[q])
  BY <1>1, <1>2, ReconcileSteps DEF ClaimRow
<1>7. ASSUME NEW b \in Browsers, NEW at \in {"starting", "working"}, Begins(r, at, t, b), UNCHANGED manager
      PROVE  BrowserInv'
  <2>1. RunsOK(run', task')
    BY <1>2, <1>3, <1>5, <1>7, BeginsSteps
  <2> QED
    BY <1>2, <1>3, <1>5, <1>6, <1>7, <2>1, RowSteps
<1>8. ASSUME NEW b \in Browsers, BeginLaunch(s, b), Begins(r, "starting", t, b)
      PROVE  BrowserInv'
  <2>1. RunsOK(run', task')
    BY <1>2, <1>3, <1>5, <1>8, BeginsSteps
  <2>2. ManagerInv'
    BY <1>2, <1>8, LaunchKeeps
  <2>3. GrantsOK(installed', capable', members') /\ ServedOK(session', installed', capable', members')
    BY <1>5, <1>6 DEF BrowserInv, ServedOK, Served, grants
  <2>4. ~Ended(s, session, installed, capable, members)
    BY <1>3, <1>4 DEF BrowserInv, ServedOK, Ended
  <2>5. worker' = worker /\ stops' = stops /\ pending' = [pending EXCEPT ![s] = b]
    BY <1>8 DEF BeginLaunch
  <2>6. \A q \in Sessions : Gone(q)' => Gone(q) /\ q # s
    BY <1>5, <1>6, <2>4 DEF Gone, Ended, grants
  <2>7. EndedFound'
    BY <1>2, <2>5, <2>6 DEF BrowserInv, EndedFound, Found, Gone, ManagerInv, ManagerTypeOK
  <2> QED
    BY <1>2, <1>3, <1>5, <2>1, <2>2, <2>3, <2>7 DEF BrowserInv
<1>9. (worker[s] # None => worker[s] \in Browsers) /\ (pending[s] # None => pending[s] \in Browsers)
  BY <1>2, MapsPoint
<1> QED
  BY <1>1, <1>4, <1>7, <1>8, <1>9

(***************************************************************************)
(* Starts settle and handlers return.                                      *)
(***************************************************************************)
LEMMA LaunchSucceedsSteps ==
  ASSUME BrowserInv, NEW b \in Browsers, LaunchSucceeds(b)
  PROVE  BrowserInv'
<1>1. /\ Launched(b) /\ task' = task /\ session' = session /\ aborted' = aborted /\ UNCHANGED grants
      /\ run' = [r \in Runners |-> IF r \in Waiting(b) THEN [run[r] EXCEPT !.at = "working"] ELSE run[r]]
  BY DEF LaunchSucceeds, rows
<1>2. ManagerInv' /\ browser[b].session \in Sessions /\ pending[browser[b].session] = b
  BY <1>1, LaunchedKeeps DEF BrowserInv
<1>3. PICK s \in Sessions : s = browser[b].session
  BY <1>2
<1>4. worker' = [worker EXCEPT ![s] = b] /\ pending' = [pending EXCEPT ![s] = None] /\ stops' = stops
  BY <1>1, <1>3 DEF Launched
<1>5. pending[s] # None
  BY <1>2, <1>3, WorkersAssumption
<1>6. \A q \in Sessions : Gone(q)' => Gone(q)
  BY <1>1 DEF Gone, grants
<1>7. EndedFound'
  BY <1>4, <1>5, <1>6 DEF BrowserInv, ManagerInv, ManagerTypeOK, EndedFound, Found, Gone
<1>8. ASSUME NEW r \in Runners
      PROVE  /\ run'[r] \in {NotRunning} \cup [at : {"starting", "working"}, task : Tasks, browser : Browsers]
             /\ run'[r] = NotRunning \/ (run[r] # NotRunning /\ run'[r].task = run[r].task)
  <2>1. run[r] \in {NotRunning} \cup [at : {"starting", "working"}, task : Tasks, browser : Browsers]
    BY DEF BrowserInv, RunsOK
  <2>2. CASE r \notin Waiting(b)
    BY <1>1, <2>1, <2>2
  <2>3. CASE r \in Waiting(b)
    <3>1. run[r].at = "starting"
      BY <2>3 DEF Waiting
    <3>2. run[r] # NotRunning
      BY <3>1 DEF NotRunning
    <3>3. run'[r] = [run[r] EXCEPT !.at = "working"]
      BY <1>1, <2>3
    <3> QED
      BY <2>1, <3>2, <3>3
  <2> QED
    BY <2>2, <2>3
<1>9. run' \in [Runners -> {NotRunning} \cup [at : {"starting", "working"}, task : Tasks, browser : Browsers]]
  BY <1>1, <1>8
<1>10. RunsOK(run', task)
  BY <1>8, <1>9, FewerRuns DEF BrowserInv
<1> QED
  BY <1>1, <1>2, <1>7, <1>10, ManagerSteps DEF BrowserInv

(* The tasks of runners that run are tasks.                                *)
LEMMA HeldTasks ==
  ASSUME RunsOK(run, task), NEW R \in SUBSET Runners, \A r \in R : run[r].at \in {"starting", "working"}
  PROVE  {run[r].task : r \in R} \in SUBSET Tasks
<1>1. ASSUME NEW r \in R PROVE run[r].task \in Tasks
  <2>1. run[r] # NotRunning
    BY DEF NotRunning
  <2>2. run[r] \in {NotRunning} \cup [at : {"starting", "working"}, task : Tasks, browser : Browsers]
    BY DEF RunsOK
  <2> QED
    BY <2>1, <2>2
<1> QED
  BY <1>1

LEMMA HandlerSteps ==
  ASSUME BrowserInv, NEW R \in SUBSET Runners, \A r \in R : run[r].at \in {"starting", "working"},
         NEW status \in {"succeeded", "failed"}, task' = Settled({run[r].task : r \in R}, status), Returned(R)
  PROVE  /\ RowsOK(session, task') /\ RunsOK(run', task') /\ aborted' \subseteq Tasks
         /\ Closes(task, task')
<1>1. {run[r].task : r \in R} \in SUBSET Tasks
  BY HeldTasks DEF BrowserInv
<1>2. Closes(task, task')
  BY <1>1, SettledCloses DEF BrowserInv, RowsOK, TaskRows
<1>3. RowsOK(session, task') /\ RunsOK(run, task')
  BY <1>2, ClosesKeeps DEF BrowserInv
<1>4. RunsOK(run', task') /\ aborted' \subseteq Tasks
  BY <1>3, ReturnedSteps DEF BrowserInv
<1> QED
  BY <1>2, <1>3, <1>4

LEMMA LaunchFailsSteps ==
  ASSUME BrowserInv, NEW b \in Browsers, LaunchFails(b)
  PROVE  BrowserInv' /\ Closes(task, task')
<1>1. /\ LaunchFailed(b) /\ session' = session /\ UNCHANGED grants
      /\ task' = Settled({run[r].task : r \in Waiting(b)}, "failed") /\ Returned(Waiting(b))
  BY DEF LaunchFails
<1>2. ManagerInv' /\ browser[b].session \in Sessions /\ pending[browser[b].session] = b
  BY <1>1, LaunchFailedKeeps DEF BrowserInv
<1>3. PICK s \in Sessions : s = browser[b].session
  BY <1>2
<1>4. worker' = worker /\ pending' = [pending EXCEPT ![s] = None] /\ stops' = stops
  BY <1>1, <1>3 DEF LaunchFailed
<1>5. \A q \in Sessions : Gone(q)' => Gone(q)
  BY <1>1 DEF Gone, grants
<1>6. EndedFound'
  BY <1>4, <1>5 DEF BrowserInv, ManagerInv, ManagerTypeOK, EndedFound, Found, Gone
<1>7. Waiting(b) \in SUBSET Runners /\ \A r \in Waiting(b) : run[r].at \in {"starting", "working"}
  BY DEF Waiting
<1>8. /\ RowsOK(session, task') /\ RunsOK(run', task') /\ aborted' \subseteq Tasks
      /\ Closes(task, task')
  BY <1>1, <1>7, HandlerSteps
<1> QED
  BY <1>1, <1>2, <1>6, <1>8, ManagerSteps

LEMMA HandlerReturns ==
  ASSUME BrowserInv, NEW r \in Runners, HandlerSucceeds(r) \/ HandlerFails(r)
  PROVE  BrowserInv' /\ Closes(task, task')
<1>1. PICK status \in {"succeeded", "failed"} :
        /\ run[r].at = "working" /\ task' = Settled({run[r].task}, status) /\ Returned({r})
        /\ UNCHANGED <<manager, session, grants>>
  BY DEF HandlerSucceeds, HandlerFails
<1>2. {run[q].task : q \in {r}} = {run[r].task}
  OBVIOUS
<1>3. /\ RowsOK(session, task') /\ RunsOK(run', task') /\ aborted' \subseteq Tasks
      /\ Closes(task, task')
  BY <1>1, <1>2, HandlerSteps
<1>4. ManagerInv'
  BY <1>1, ManagerStays DEF BrowserInv
<1>5. \A q \in Sessions : Gone(q)' => Gone(q)
  BY <1>1 DEF Gone, grants
<1>6. EndedFound'
  BY <1>1, <1>5, FoundStays DEF manager
<1> QED
  BY <1>1, <1>3, <1>4, <1>6, ManagerSteps

(***************************************************************************)
(* Stops and the end of browsers.                                          *)
(***************************************************************************)
LEMMA FinishStopSteps ==
  ASSUME BrowserInv, NEW x \in stops, OnlyManager(FinishStop(x))
  PROVE  BrowserInv'
<1>1. FinishStop(x) /\ task' = task /\ session' = session /\ run' = run /\ aborted' = aborted /\ UNCHANGED grants
  BY DEF OnlyManager, rows, runs
<1>2. ManagerInv'
  BY <1>1, FinishStopKeeps DEF BrowserInv
<1>3. /\ worker' = [s \in Sessions |-> IF s \in x.group THEN None ELSE worker[s]]
      /\ pending' = pending /\ stops' = stops \ {x}
      /\ \A b \in x.awaits : browser[b].at # "launching"
  BY <1>1 DEF FinishStop
<1>4. ASSUME NEW s \in Sessions, Gone(s) PROVE Found(s, worker', pending', stops')
  <2>1. Found(s, worker, pending, stops)
    BY <1>4 DEF BrowserInv, EndedFound, Gone
  <2>2. pending[s] # None => browser[pending[s]].at = "launching"
    BY MapsPoint DEF BrowserInv
  <2> QED
    BY <1>3, <2>1, <2>2 DEF Found
<1>5. \A s \in Sessions : Gone(s)' => Gone(s)
  BY <1>1 DEF Gone, grants
<1>6. EndedFound'
  BY <1>4, <1>5 DEF EndedFound, Gone
<1> QED
  BY <1>1, <1>2, <1>6, ManagerSteps DEF BrowserInv

LEMMA BrowserEnds ==
  ASSUME BrowserInv, NEW b \in Browsers, OnlyManager(Closed(b)) \/ OnlyManager(Dies(b))
  PROVE  BrowserInv'
<1>1. /\ Closed(b) \/ Dies(b)
      /\ task' = task /\ session' = session /\ run' = run /\ aborted' = aborted /\ UNCHANGED grants
  BY DEF OnlyManager, rows, runs
<1>2. ManagerInv'
  BY <1>1, ClosedKeeps, DiesKeeps DEF BrowserInv
<1>3. UNCHANGED <<worker, pending, stops>>
  BY <1>1 DEF Closed, Dies
<1>4. \A s \in Sessions : Gone(s)' => Gone(s)
  BY <1>1 DEF Gone, grants
<1>5. EndedFound'
  BY <1>3, <1>4, FoundStays
<1> QED
  BY <1>1, <1>2, <1>5, ManagerSteps DEF BrowserInv

LEMMA CrashSteps ==
  ASSUME BrowserInv, Crash
  PROVE  BrowserInv'
<1>1. /\ ManagerCrash /\ run' = [r \in Runners |-> NotRunning] /\ aborted' = {}
      /\ task' = task /\ session' = session /\ UNCHANGED grants
  BY DEF Crash, rows
<1>2. ManagerInv' /\ \A s \in Sessions : worker'[s] = None /\ pending'[s] = None
  BY <1>1, CrashKeeps
<1>3. EndedFound'
  BY <1>2 DEF EndedFound, Found
<1>4. RunsOK(run', task')
  BY <1>1 DEF RunsOK
<1> QED
  BY <1>1, <1>2, <1>3, <1>4, ManagerSteps DEF BrowserInv

(***************************************************************************)
(* Revocation: the rows of the sessions G close, and then G is stopped.    *)
(***************************************************************************)
LEMMA RevokeRowsSteps ==
  ASSUME BrowserInv, NEW G \in SUBSET Sessions,
         NEW from \in SUBSET {"active", "overdue", "expired"}, {"active", "overdue"} \subseteq from, RevokeRows(G, from)
  PROVE  /\ RowsOK(session', task') /\ RunsOK(run', task') /\ aborted' \subseteq Tasks
         /\ Closes(task, task')
         /\ \A s \in Sessions : session'[s] = IF s \in G /\ session[s] \in from THEN "revoked" ELSE session[s]
<1>1. /\ task' = CancelIn(G) /\ run' = run /\ aborted' = aborted
      /\ session' = [s \in Sessions |-> IF s \in G /\ session[s] \in from THEN "revoked" ELSE session[s]]
  BY DEF RevokeRows, runs
<1>2. RowsOK(session, task) /\ RunsOK(run, task) /\ aborted \subseteq Tasks /\ task \in [Tasks -> TaskRows]
  BY DEF BrowserInv, RowsOK, TaskRows
<1>3. Closes(task, task') /\ \A t \in Tasks : task[t].session \in G => task'[t].status \notin Open
  BY <1>1, <1>2, CancelInCloses
<1>4. RowsOK(session, task') /\ RunsOK(run, task')
  BY <1>2, <1>3, ClosesKeeps
<1>5. \A t \in Tasks : task'[t].session = task[t].session
  BY <1>3 DEF Closes
<1>6. session' \in [Sessions -> {"none", "active", "overdue", "expired", "revoked"}]
  BY <1>1, <1>2 DEF RowsOK
<1>7. \A s \in Sessions : \/ session'[s] = session[s]
                          \/ \A t \in Tasks : task'[t].session = s => task'[t].status \notin Open
  BY <1>1, <1>3, <1>5
<1>8. RowsOK(session', task')
  BY <1>4, <1>6, <1>7, SessionsMayEnd
<1> QED
  BY <1>1, <1>2, <1>3, <1>4, <1>8

LEMMA StoppedFound ==
  ASSUME BrowserInv, NEW G \in SUBSET Sessions, BeginStop(G), \A s \in Sessions : Gone(s)' => Gone(s) \/ s \in G
  PROVE  ManagerInv' /\ EndedFound'
<1>1. /\ ManagerInv' /\ worker' = worker /\ pending' = pending
      /\ Stop(G) \in stops' /\ stops \subseteq stops'
      /\ Stop(G).group = G /\ \A s \in G : pending[s] # None => pending[s] \in Stop(G).awaits
  BY BeginStopKeeps DEF BrowserInv
<1>2. ASSUME NEW s \in Sessions, Gone(s)' PROVE Found(s, worker', pending', stops')
  <2>1. CASE s \in G
    BY <1>1, <2>1 DEF Found
  <2>2. CASE s \notin G
    <3>1. Found(s, worker, pending, stops)
      BY <1>2, <2>2 DEF BrowserInv, EndedFound, Gone
    <3> QED
      BY <1>1, <3>1 DEF Found
  <2> QED
    BY <2>1, <2>2
<1> QED
  BY <1>1, <1>2 DEF EndedFound, Gone

LEMMA RevokeSessionSteps ==
  ASSUME BrowserInv, NEW s \in Sessions, RevokeSession(s)
  PROVE  BrowserInv' /\ Closes(task, task')
<1>1. RevokeRows({s}, {"active", "overdue", "expired"}) /\ BeginStop({s}) /\ UNCHANGED grants
  BY DEF RevokeSession
<1>2. /\ RowsOK(session', task') /\ RunsOK(run', task') /\ aborted' \subseteq Tasks
      /\ Closes(task, task')
      /\ \A q \in Sessions : session'[q] = IF q \in {s} /\ session[q] \in {"active", "overdue", "expired"}
                                           THEN "revoked" ELSE session[q]
  BY <1>1, RevokeRowsSteps
<1>3. \A q \in Sessions : Gone(q)' => Gone(q) \/ q \in {s}
  BY <1>1, <1>2 DEF Gone, Ended, grants
<1>4. ManagerInv' /\ EndedFound'
  BY <1>1, <1>3, StoppedFound
<1>5. GrantsOK(installed', capable', members') /\ ServedOK(session', installed', capable', members')
  BY <1>1, <1>2 DEF BrowserInv, ServedOK, grants
<1> QED
  BY <1>2, <1>4, <1>5 DEF BrowserInv

LEMMA RevokeUserSteps ==
  ASSUME BrowserInv, NEW u \in Users, RevokeUser(u)
  PROVE  BrowserInv' /\ Closes(task, task')
<1>1. PICK G : G = {s \in Sessions : Owner[s] = u}
  OBVIOUS
<1>2. /\ members' = members \ {u} /\ installed' = installed /\ capable' = capable
      /\ RevokeRows(G, {"active", "overdue"}) /\ BeginStop(G)
  BY <1>1 DEF RevokeUser
<1>3. /\ RowsOK(session', task') /\ RunsOK(run', task') /\ aborted' \subseteq Tasks
      /\ Closes(task, task')
      /\ \A q \in Sessions : session'[q] = IF q \in G /\ session[q] \in {"active", "overdue"}
                                           THEN "revoked" ELSE session[q]
  BY <1>1, <1>2, RevokeRowsSteps
<1>4. \A q \in Sessions : Gone(q)' => Gone(q) \/ q \in G
  BY <1>1, <1>2, <1>3 DEF Gone, Ended
<1>5. ManagerInv' /\ EndedFound'
  BY <1>1, <1>2, <1>4, StoppedFound
<1>6. GrantsOK(installed', capable', members')
  BY <1>2 DEF BrowserInv, GrantsOK
<1>7. ServedOK(session', installed', capable', members')
  BY <1>1, <1>2, <1>3 DEF BrowserInv, ServedOK
<1> QED
  BY <1>3, <1>5, <1>6, <1>7 DEF BrowserInv

LEMMA RevokeInstallationSteps ==
  ASSUME BrowserInv, NEW from, NEW to \in {"disabled", "uninstalled"}, RevokeInstallation(from, to)
  PROVE  BrowserInv' /\ Closes(task, task')
<1>1. /\ installed' = to /\ capable' = capable /\ members' = members
      /\ RevokeRows(Sessions, {"active", "overdue"}) /\ BeginStop(Sessions)
  BY DEF RevokeInstallation
<1>2. /\ RowsOK(session', task') /\ RunsOK(run', task') /\ aborted' \subseteq Tasks
      /\ Closes(task, task')
      /\ \A q \in Sessions : session'[q] = IF q \in Sessions /\ session[q] \in {"active", "overdue"}
                                           THEN "revoked" ELSE session[q]
  BY <1>1, RevokeRowsSteps
<1>3. ManagerInv' /\ EndedFound'
  BY <1>1, StoppedFound
<1>4. GrantsOK(installed', capable', members') /\ ServedOK(session', installed', capable', members')
  BY <1>1, <1>2 DEF BrowserInv, GrantsOK, ServedOK
<1> QED
  BY <1>2, <1>3, <1>4 DEF BrowserInv

LEMMA EnableSteps ==
  ASSUME BrowserInv, EnableInstallation
  PROVE  BrowserInv' /\ task' = task
<1>1. /\ installed = "disabled" /\ installed' = "installed" /\ capable' = capable /\ members' = members
      /\ task' = task /\ session' = session /\ run' = run /\ aborted' = aborted /\ UNCHANGED manager
  BY DEF EnableInstallation, rows, runs
<1>2. ManagerInv'
  BY <1>1, ManagerStays DEF BrowserInv
<1>3. \A s \in Sessions : Gone(s)' => Gone(s)
  BY <1>1 DEF Gone, Ended
<1>4. EndedFound'
  BY <1>1, <1>3, FoundStays DEF manager
<1>5. GrantsOK(installed', capable', members') /\ ServedOK(session', installed', capable', members')
  BY <1>1 DEF BrowserInv, GrantsOK, ServedOK
<1> QED
  BY <1>1, <1>2, <1>4, <1>5 DEF BrowserInv

LEMMA UpgradeSteps ==
  ASSUME BrowserInv, NEW before \in BOOLEAN, UpgradePlugin \/ RollbackPlugin(before)
  PROVE  BrowserInv' /\ task' = task
<1>1. /\ installed' = installed /\ capable' \in {"granted", Dropped} /\ members' = members
      /\ task' = task /\ session' = session /\ run' = run /\ aborted' = aborted /\ UNCHANGED manager
  BY DEF UpgradePlugin, RollbackPlugin, rows, runs
<1>2. ManagerInv'
  BY <1>1, ManagerStays DEF BrowserInv
<1>3. capable' \in {"granted", "withdrawn", "dropped"} /\ (capable' = "withdrawn" => capable = "withdrawn")
  BY <1>1 DEF BrowserInv, GrantsOK, Dropped
<1>4. \A s \in Sessions : Gone(s)' => Gone(s)
  BY <1>1, <1>3 DEF Gone, Ended
<1>5. EndedFound'
  BY <1>1, <1>4, FoundStays DEF manager
<1>6. GrantsOK(installed', capable', members') /\ ServedOK(session', installed', capable', members')
  BY <1>1, <1>3 DEF BrowserInv, GrantsOK, ServedOK
<1> QED
  BY <1>1, <1>2, <1>5, <1>6 DEF BrowserInv

(* Only who had the capability from an administrator loses it to one.      *)
LEMMA SetCapabilitiesSteps ==
  ASSUME BrowserInv, NEW browserToo \in BOOLEAN, SetCapabilities(browserToo)
  PROVE  BrowserInv' /\ Closes(task, task')
<1>1. /\ capable' = IF browserToo THEN "granted" ELSE IF capable = "granted" THEN "withdrawn" ELSE capable
      /\ installed' = installed /\ members' = members
      /\ BeginStop(Sessions)
      /\ IF capable = "granted" /\ ~browserToo THEN RevokeRows(Sessions, {"active", "overdue"})
                                                ELSE CancelInstallation
  BY DEF SetCapabilities
<1>2. ManagerInv' /\ EndedFound'
  BY <1>1, StoppedFound
<1>3. GrantsOK(installed', capable', members')
  BY <1>1 DEF BrowserInv, GrantsOK
<1>4. CASE capable = "granted" /\ ~browserToo
  <2>1. /\ RowsOK(session', task') /\ RunsOK(run', task') /\ aborted' \subseteq Tasks
        /\ Closes(task, task')
        /\ \A q \in Sessions : session'[q] = IF q \in Sessions /\ session[q] \in {"active", "overdue"}
                                             THEN "revoked" ELSE session[q]
    BY <1>1, <1>4, RevokeRowsSteps
  <2>2. ServedOK(session', installed', capable', members')
    BY <2>1 DEF ServedOK
  <2> QED
    BY <1>2, <1>3, <2>1, <2>2 DEF BrowserInv
<1>5. CASE ~(capable = "granted" /\ ~browserToo)
  <2>1. PICK R : R = {q \in Runners : run[q] # NotRunning /\ task[run[q].task].status = "running"}
    OBVIOUS
  <2>2. /\ task' = CancelIn(Sessions) /\ aborted' = aborted \cup {run[r].task : r \in R}
        /\ session' = session /\ run' = run
    BY <1>1, <1>5, <2>1 DEF CancelInstallation
  <2>3. \A r \in R : run[r].at \in {"starting", "working"}
    BY <2>1 DEF BrowserInv, RunsOK
  <2>4. {run[r].task : r \in R} \in SUBSET Tasks
    BY <2>1, <2>3, HeldTasks DEF BrowserInv
  <2>5. Closes(task, task')
    BY <2>2, CancelInCloses DEF BrowserInv, RowsOK, TaskRows
  <2>6. RowsOK(session', task') /\ RunsOK(run', task')
    BY <2>2, <2>5, ClosesKeeps DEF BrowserInv
  <2>7. ServedOK(session', installed', capable', members')
    BY <1>1, <1>5, <2>2 DEF BrowserInv, ServedOK
  <2>8. aborted' \subseteq Tasks
    BY <2>2, <2>4 DEF BrowserInv
  <2> QED
    BY <1>2, <1>3, <2>5, <2>6, <2>7, <2>8 DEF BrowserInv
<1> QED
  BY <1>4, <1>5

(***************************************************************************)
(* The theorems.                                                           *)
(***************************************************************************)
LEMMA BrowserInitially == Init => BrowserInv
<1> SUFFICES ASSUME Init PROVE BrowserInv
  OBVIOUS
<1>1. /\ browser = [b \in Browsers |-> Off] /\ worker = [s \in Sessions |-> None]
      /\ pending = [s \in Sessions |-> None] /\ stops = {}
      /\ session = [s \in Sessions |-> "none"]
      /\ task = [t \in Tasks |-> [status |-> "none", session |-> None]]
      /\ installed = "installed" /\ capable = "granted" /\ members = Users
      /\ run = [r \in Runners |-> NotRunning] /\ aborted = {}
  BY DEF Init, ManagerInit
<1>2. Off \in [at : BrowserStates, session : Sessions \cup {None}] /\ Off.at = "off"
  BY DEF Off, BrowserStates
<1>3. ManagerInv
  BY <1>1, <1>2 DEF ManagerInv, ManagerTypeOK, BrowsersAccountedFor, BrowsersOwned, Stops
<1>4. RowsOK(session, task)
  BY <1>1 DEF RowsOK, TaskStates, Open
<1>5. RunsOK(run, task) /\ aborted \subseteq Tasks
  BY <1>1 DEF RunsOK
<1>6. GrantsOK(installed, capable, members) /\ ServedOK(session, installed, capable, members) /\ EndedFound
  BY <1>1 DEF GrantsOK, ServedOK, EndedFound, Found
<1> QED
  BY <1>3, <1>4, <1>5, <1>6 DEF BrowserInv

LEMMA RequestSteps ==
  ASSUME BrowserInv, NEW u \in Users,
         BrowserRequest(u) \/ RevokeUser(u) \/ \E r \in Runners : RunRequest(r, u)
  PROVE  BrowserInv'
<1>1. CASE BrowserRequest(u)
  <2>1. ASSUME NEW s \in Sessions, Owner[s] = u, CreateSession(s) \/ Enqueue(s) \/ RevokeSession(s)
        PROVE  BrowserInv'
    BY <1>1, <2>1, CreateSteps, EnqueueSteps, RevokeSessionSteps DEF BrowserRequest
  <2>2. ASSUME NEW t \in Tasks, CancelTask(t) PROVE BrowserInv'
    BY <2>2, CancelTaskSteps
  <2>3. CASE List(u)
    BY <2>3, ListSteps
  <2> QED
    BY <1>1, <2>1, <2>2, <2>3 DEF BrowserRequest
<1>2. CASE RevokeUser(u)
  BY <1>2, RevokeUserSteps
<1>3. ASSUME NEW r \in Runners, RunRequest(r, u) PROVE BrowserInv'
  BY <1>3, ClaimingSteps, ClaimUnhandledSteps, ListSteps DEF RunRequest
<1> QED
  BY <1>1, <1>2, <1>3

LEMMA StutterSteps ==
  ASSUME BrowserInv, UNCHANGED vars
  PROVE  BrowserInv' /\ task' = task
<1>1. /\ task' = task /\ session' = session /\ run' = run /\ aborted' = aborted
      /\ UNCHANGED manager /\ UNCHANGED grants
  BY DEF vars, rows, runs
<1>2. ManagerInv'
  BY <1>1, ManagerStays DEF BrowserInv
<1>3. \A s \in Sessions : Gone(s)' => Gone(s)
  BY <1>1 DEF Gone, grants
<1>4. EndedFound'
  BY <1>1, <1>3, FoundStays DEF manager
<1> QED
  BY <1>1, <1>2, <1>4, ManagerSteps DEF BrowserInv

LEMMA BrowserInductive == BrowserInv /\ [Next]_vars => BrowserInv'
<1> SUFFICES ASSUME BrowserInv, [Next]_vars PROVE BrowserInv'
  OBVIOUS
<1>1. ASSUME NEW u \in Users, BrowserRequest(u) \/ RevokeUser(u) \/ \E r \in Runners : RunRequest(r, u)
      PROVE  BrowserInv'
  BY <1>1, RequestSteps
<1>2. ASSUME NEW s \in Sessions, TimePasses(s) \/ RevokeSession(s) PROVE BrowserInv'
  BY <1>2, TimeSteps, RevokeSessionSteps
<1>3. ASSUME NEW r \in Runners, HandlerSucceeds(r) \/ HandlerFails(r) PROVE BrowserInv'
  BY <1>3, HandlerReturns
<1>4. ASSUME NEW t \in Tasks, CancelTask(t) PROVE BrowserInv'
  BY <1>4, CancelTaskSteps
<1>5. ASSUME NEW b \in Browsers, LaunchSucceeds(b) \/ LaunchFails(b) PROVE BrowserInv'
  BY <1>5, LaunchSucceedsSteps, LaunchFailsSteps
<1>6. ASSUME NEW b \in Browsers, OnlyManager(Closed(b)) \/ OnlyManager(Dies(b)) PROVE BrowserInv'
  BY <1>6, BrowserEnds
<1>7. ASSUME NEW x \in stops, OnlyManager(FinishStop(x)) PROVE BrowserInv'
  BY <1>7, FinishStopSteps
<1>8. CASE RevokeInstallation("installed", "disabled") \/ RevokeInstallation("disabled", "uninstalled")
  BY <1>8, RevokeInstallationSteps
<1>9. CASE EnableInstallation
  BY <1>9, EnableSteps
<1>10. ASSUME NEW browserToo \in BOOLEAN, SetCapabilities(browserToo) PROVE BrowserInv'
  BY <1>10, SetCapabilitiesSteps
<1>11. ASSUME NEW before \in BOOLEAN, UpgradePlugin \/ RollbackPlugin(before) PROVE BrowserInv'
  BY <1>11, UpgradeSteps
<1>12. CASE Crash
  BY <1>12, CrashSteps
<1>13. CASE UNCHANGED vars
  BY <1>13, StutterSteps
<1> QED
  BY <1>1, <1>2, <1>3, <1>4, <1>5, <1>6, <1>7, <1>8, <1>9, <1>10, <1>11, <1>12, <1>13 DEF Next

(* A task is open only while its session goes on, a session goes on only   *)
(* while its user is served, and no task is run twice: whatever claims,    *)
(* results, cancellations, expiry, revocations and crashes are interleaved.*)
THEOREM TasksStaySound == Spec => []TasksSound
<1>1. BrowserInv => TasksSound
  BY BrowserInvHolds
<1> QED
  BY <1>1, BrowserInitially, BrowserInductive, PTL DEF Spec

(* Every browser that is starting or open is in the map of its session,    *)
(* and a session that ended keeps none once the stops that it set off have *)
(* gone through.                                                           *)
THEOREM BrowsersStaySound == Spec => []BrowsersSound
<1>1. BrowserInv => BrowsersSound
  BY BrowserInvHolds
<1> QED
  BY <1>1, BrowserInitially, BrowserInductive, PTL DEF Spec

(* Rows that a step leaves as they are once they are closed.               *)
Final(tasks, new) ==
  \A t \in Tasks : tasks[t].status \in {"succeeded", "failed", "cancelled"} => new[t] = tasks[t]

LEMMA ClosesIsFinal == ASSUME NEW tasks, NEW new, Closes(tasks, new) PROVE Final(tasks, new)
BY DEF Closes, Final, Open

LEMMA EnqueueIsFinal ==
  ASSUME BrowserInv, NEW s \in Sessions, Enqueue(s) PROVE Final(task, task')
<1>1. PICK t \in Tasks : task[t].status = "none" /\ \E new : task' = [task EXCEPT ![t] = new]
  BY DEF Enqueue
<1> QED
  BY <1>1 DEF BrowserInv, RowsOK, Final

LEMMA ListIsFinal ==
  ASSUME BrowserInv, NEW u \in Users, List(u) PROVE Final(task, task')
BY ReconcileSteps, ClosesIsFinal DEF BrowserInv, List

LEMMA ClaimIsFinal ==
  ASSUME BrowserInv, NEW u \in Users, NEW t \in Oldest(u), NEW status \in {"running", "failed"}, ClaimRow(t, u, status)
  PROVE  Final(task, task')
<1>1. t \in Claimable(u) /\ RowsOK(session, task)
  BY DEF Oldest, BrowserInv
<1> QED
  BY <1>1, ClaimSteps DEF Final, Open

LEMMA RequestIsFinal ==
  ASSUME BrowserInv, NEW u \in Users,
         BrowserRequest(u) \/ RevokeUser(u) \/ \E r \in Runners : RunRequest(r, u)
  PROVE  Final(task, task')
<1>1. CASE BrowserRequest(u)
  <2>1. ASSUME NEW s \in Sessions, CreateSession(s) \/ Enqueue(s) \/ RevokeSession(s)
        PROVE  Final(task, task')
    BY <2>1, EnqueueIsFinal, RevokeSessionSteps, ClosesIsFinal DEF CreateSession, Final
  <2>2. ASSUME NEW t \in Tasks, CancelTask(t) PROVE Final(task, task')
    BY <2>2, CancelTaskSteps, ClosesIsFinal
  <2>3. CASE List(u)
    BY <2>3, ListIsFinal
  <2> QED
    BY <1>1, <2>1, <2>2, <2>3 DEF BrowserRequest
<1>2. CASE RevokeUser(u)
  BY <1>2, RevokeUserSteps, ClosesIsFinal
<1>3. ASSUME NEW r \in Runners, RunRequest(r, u) PROVE Final(task, task')
  <2>1. CASE Claim(r, u)
    BY <2>1, ClaimIsFinal DEF Claim
  <2>2. CASE ClaimUnhandled(u)
    BY <2>2, ClaimIsFinal DEF ClaimUnhandled
  <2>3. CASE List(u)
    BY <2>3, ListIsFinal
  <2> QED
    BY <1>3, <2>1, <2>2, <2>3 DEF RunRequest
<1> QED
  BY <1>1, <1>2, <1>3

LEMMA StepsAreFinal == BrowserInv /\ Next => Final(task, task')
<1> SUFFICES ASSUME BrowserInv, Next PROVE Final(task, task')
  OBVIOUS
<1>1. ASSUME NEW u \in Users, BrowserRequest(u) \/ RevokeUser(u) \/ \E r \in Runners : RunRequest(r, u)
      PROVE  Final(task, task')
  BY <1>1, RequestIsFinal
<1>2. ASSUME NEW s \in Sessions, TimePasses(s) \/ RevokeSession(s) PROVE Final(task, task')
  BY <1>2, RevokeSessionSteps, ClosesIsFinal DEF TimePasses, Final
<1>3. ASSUME NEW r \in Runners, HandlerSucceeds(r) \/ HandlerFails(r) PROVE Final(task, task')
  BY <1>3, HandlerReturns, ClosesIsFinal
<1>4. ASSUME NEW t \in Tasks, CancelTask(t) PROVE Final(task, task')
  BY <1>4, CancelTaskSteps, ClosesIsFinal
<1>5. ASSUME NEW b \in Browsers, LaunchSucceeds(b) \/ LaunchFails(b) PROVE Final(task, task')
  BY <1>5, LaunchFailsSteps, ClosesIsFinal DEF LaunchSucceeds, rows, Final
<1>6. ASSUME NEW b \in Browsers, OnlyManager(Closed(b)) \/ OnlyManager(Dies(b)) PROVE Final(task, task')
  BY <1>6 DEF OnlyManager, rows, Final
<1>7. ASSUME NEW x \in stops, OnlyManager(FinishStop(x)) PROVE Final(task, task')
  BY <1>7 DEF OnlyManager, rows, Final
<1>8. CASE RevokeInstallation("installed", "disabled") \/ RevokeInstallation("disabled", "uninstalled")
  BY <1>8, RevokeInstallationSteps, ClosesIsFinal
<1>9. CASE EnableInstallation
  BY <1>9 DEF EnableInstallation, rows, Final
<1>10. ASSUME NEW browserToo \in BOOLEAN, SetCapabilities(browserToo) PROVE Final(task, task')
  BY <1>10, SetCapabilitiesSteps, ClosesIsFinal
<1>11. ASSUME NEW before \in BOOLEAN, UpgradePlugin \/ RollbackPlugin(before) PROVE Final(task, task')
  BY <1>11, UpgradeSteps DEF Final
<1>12. CASE Crash
  BY <1>12 DEF Crash, rows, Final
<1> QED
  BY <1>1, <1>2, <1>3, <1>4, <1>5, <1>6, <1>7, <1>8, <1>9, <1>10, <1>11, <1>12 DEF Next

(* A late result, or a claim from an old queue, never changes a row that a *)
(* result, a cancellation or a revocation has closed.                      *)
THEOREM ClosedTasksDoStay == Spec => ClosedTasksStay
<1>1. BrowserInv /\ [Next]_vars =>
        [\A t \in Tasks : task[t].status \in {"succeeded", "failed", "cancelled"} => task'[t] = task[t]]_vars
  BY StepsAreFinal DEF Final
<1> QED
  BY <1>1, BrowserInitially, BrowserInductive, PTL DEF Spec, ClosedTasksStay
=============================================================================

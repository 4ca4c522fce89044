----------------------------- MODULE PluginJobs -----------------------------
(***************************************************************************)
(* Plugin jobs: PluginJobService (src/src/job-service.ts) keeps the rows,  *)
(* JobExecutor (src/src/job-executor.ts) claims them and runs handlers,    *)
(* JobRecoveryScheduler (src/src/job-scheduler.ts) drives it every second, *)
(* and the request handlers of src/src/app.ts enqueue, run and cancel.     *)
(*                                                                         *)
(* The rows survive a crash; everything else is memory.  Core is one       *)
(* thread and SQLite is synchronous: an action is what happens between     *)
(* two awaits.  A runner is one call of runUntilIdle or runOnce: it is     *)
(* suspended while a handler of its runs, and several runners of the same  *)
(* scope can be suspended at once.                                         *)
(*                                                                         *)
(* Definitions named Faulty... are plausible faults, as in JobQueue.       *)
(***************************************************************************)
EXTENDS JobQueue, Sequences, SequencesExt

CONSTANTS
  Media,        \* types media.remux and media.transcode
  MaxMedia,     \* MAX_ACTIVE_MEDIA_JOBS_PER_INSTALLATION
  Recovery,     \* the scheduler's runner
  Requests,     \* runners of requests that can be under way at once (bound)
  BatchSize,    \* maxJobsPerScope of the scheduler
  ScopeLimit,   \* LIMIT of queuedScopes
  RunLimits,    \* limits given to POST /api/jobs/run
  Groups,       \* sets of scopes that share a user or an installation
  MaxBoots      \* times Core goes down and boots again (bound)

ASSUME JobsAssumption ==
  /\ Media \subseteq Types
  /\ Recovery \notin Requests
  /\ BatchSize \in Nat \ {0} /\ MaxMedia \in Nat
  /\ RunLimits \subseteq Nat \ {0}
  /\ Groups \subseteq SUBSET Scopes
  /\ MaxBoots \in Nat

VARIABLES
  phase,        \* "up", "closing" (onClose hook running) or "down"
  boots,        \* times Core went down
  granted,      \* scopes whose user is active and whose plugin is installed
  controller,   \* controller[j]: the executor's `active` entry of job j
  run,          \* run[r]: what runner r still has to do
  silent        \* history: running jobs that a Worker's jobs.cancel closed

memory == <<controller, run>>
vars == <<status, scopeOf, typeOf, phase, boots, granted, controller, run, silent>>

Runners == {Recovery} \cup Requests
NoJob == 0
(* plan: scopes to visit, the first being worked on; left: jobs that may still
   be run there; job: the job whose handler the runner awaits. *)
Idle == [plan |-> <<>>, left |-> 0, job |-> NoJob]

JobsInit ==
  /\ Init
  /\ phase = "up" /\ boots = 0 /\ silent = {}
  /\ granted = Scopes
  /\ controller = [j \in JobIds |-> "none"]
  /\ run = [r \in Runners |-> Idle]

(***************************************************************************)
(* enqueue and its callers.  The generic jobs.enqueue request accepts any  *)
(* type; media.transform and media.hls count the active jobs of their own  *)
(* types first, and then start a runOnce they do not wait for.             *)
(***************************************************************************)
Serving == phase \in {"up", "closing"}

Enqueue(j, s, t) ==
  /\ Serving /\ s \in granted
  /\ Submit(j, s, t)
  /\ UNCHANGED <<phase, boots, granted, memory, silent>>

Counted(s, T) == {j \in ActiveJobs(s) : typeOf[j] \in T}

EnqueueMedia(j, s, t, r) ==
  /\ Serving /\ s \in granted
  /\ run[r] = Idle
  /\ Cardinality(Counted(s, IF t \in Media THEN Media ELSE {t})) < MaxMedia
  /\ Submit(j, s, t)
  /\ run' = [run EXCEPT ![r] = [plan |-> <<s>>, left |-> 1, job |-> NoJob]]
  /\ UNCHANGED <<phase, boots, granted, controller, silent>>

(***************************************************************************)
(* Starting a batch.  queuedScopes lists scopes by their oldest queued     *)
(* job, handled or not; the administrator's run lists them by the newest.  *)
(***************************************************************************)
Queued(s) == {j \in JobIds : status[j] = "queued" /\ scopeOf[j] = s}

OldestFirst ==
  LET heads == {j \in JobIds : \E s \in Scopes : IsOldest(j, Queued(s))}
      all == SetToSortSeq(heads, <)
  IN [i \in 1 .. (IF Len(all) < ScopeLimit THEN Len(all) ELSE ScopeLimit) |-> scopeOf[all[i]]]

NewestFirst ==
  LET lasts == {j \in JobIds : \E s \in granted : j \in Queued(s) /\ \A i \in Queued(s) : i <= j}
      all == SetToSortSeq(lasts, >)
  IN [i \in 1 .. Len(all) |-> scopeOf[all[i]]]

(* The interval fires; while a round is active it only joins that round. *)
Tick ==
  /\ phase = "up"
  /\ run[Recovery] = Idle
  /\ OldestFirst # <<>>
  /\ run' = [run EXCEPT ![Recovery] = [plan |-> OldestFirst, left |-> BatchSize, job |-> NoJob]]
  /\ UNCHANGED <<rows, phase, boots, granted, controller, silent>>

AdminRun(r, limit) ==
  /\ phase = "up"
  /\ run[r] = Idle
  /\ NewestFirst # <<>>
  /\ run' = [run EXCEPT ![r] = [plan |-> NewestFirst, left |-> limit, job |-> NoJob]]
  /\ UNCHANGED <<rows, phase, boots, granted, controller, silent>>

FaultyNextScope(r, left) ==
  LET rest == Tail(run[r].plan)
      plan == IF rest = <<>> THEN OldestFirst ELSE rest
  IN IF plan = <<>> \/ (r # Recovery /\ left = 0)
     THEN Idle
     ELSE [plan |-> plan, left |-> IF r = Recovery THEN BatchSize ELSE left, job |-> NoJob]

(***************************************************************************)
(* runUntilIdle.  A scope is left when its budget is spent, when nothing   *)
(* can be claimed, or when a job ended with an undefined result; the       *)
(* scheduler has a fresh budget for each scope and skips scopes that are   *)
(* no longer granted, an administrator's run spends one budget.            *)
(***************************************************************************)
NextScope(r, left) ==
  LET rest == Tail(run[r].plan)
  IN IF rest = <<>> \/ (r # Recovery /\ left = 0)
     THEN Idle
     ELSE [plan |-> rest, left |-> IF r = Recovery THEN BatchSize ELSE left, job |-> NoJob]

Visiting(r) == phase # "down" /\ run[r].plan # <<>> /\ run[r].job = NoJob

Blocked(r) ==
  LET s == Head(run[r].plan)
  IN \/ r = Recovery /\ s \notin granted
     \/ run[r].left = 0
     \/ Claimable(s) = {}

LeaveScope(r) ==
  /\ Visiting(r) /\ Blocked(r)
  /\ run' = [run EXCEPT ![r] = NextScope(r, run[r].left)]
  /\ UNCHANGED <<rows, phase, boots, granted, controller, silent>>

Claim(r) ==
  /\ Visiting(r) /\ ~Blocked(r)
  /\ \E j \in Claimable(Head(run[r].plan)) :
       /\ IsOldest(j, Claimable(Head(run[r].plan)))
       /\ status' = [status EXCEPT ![j] = "running"]
       /\ controller' = [controller EXCEPT ![j] = "live"]
       /\ run' = [run EXCEPT ![r].job = j]
  /\ UNCHANGED <<scopeOf, typeOf, phase, boots, granted, silent>>

FaultyHandlerDone(r, outcome) ==
  LET j == run[r].job
  IN /\ phase # "down" /\ j # NoJob
     /\ controller' = [controller EXCEPT ![j] = "none"]
     /\ status' = [status EXCEPT ![j] = outcome]
     /\ run' = [run EXCEPT ![r].job = NoJob, ![r].left = @ - 1]
     /\ silent' = silent \ {j}
     /\ UNCHANGED <<scopeOf, typeOf, phase, boots, granted>>

(* The handler returns or throws; a row that is no longer running keeps its
   status (transition returns undefined) and ends the batch. *)
HandlerDone(r, outcome) ==
  LET j == run[r].job
  IN /\ phase # "down" /\ j # NoJob
     /\ controller' = [controller EXCEPT ![j] = "none"]
     /\ IF status[j] = "running"
        THEN /\ status' = [status EXCEPT ![j] = outcome]
             /\ run' = [run EXCEPT ![r].job = NoJob, ![r].left = @ - 1]
        ELSE /\ UNCHANGED status
             /\ run' = [run EXCEPT ![r] = NextScope(r, @.left)]
     /\ silent' = silent \ {j}
     /\ UNCHANGED <<scopeOf, typeOf, phase, boots, granted>>

FaultyAbort(S) == controller

(***************************************************************************)
(* Cancellation.  The executor aborts the controllers before the rows are  *)
(* closed; a Worker's own jobs.cancel only closes the row.                 *)
(***************************************************************************)
Abort(S) == [j \in JobIds |-> IF j \in S /\ controller[j] = "live" THEN "aborted" ELSE controller[j]]

Cancel(j) ==
  /\ phase = "up" /\ Unfinished(j)
  /\ controller' = Abort({j})
  /\ Close({j}, "cancelled")
  /\ UNCHANGED <<phase, boots, granted, run, silent>>

WorkerCancel(j) ==
  /\ Serving /\ Unfinished(j) /\ scopeOf[j] \in granted
  /\ Close({j}, "cancelled")
  /\ silent' = IF status[j] = "running" THEN silent \cup {j} ELSE silent
  /\ UNCHANGED <<phase, boots, granted, memory>>

FaultyCancelScopes(S) ==
  /\ phase = "up"
  /\ controller' = Abort({j \in JobIds : scopeOf[j] \in S})
  /\ Close({j \in JobIds : status[j] = "queued" /\ scopeOf[j] \in S}, "cancelled")
  /\ UNCHANGED <<phase, boots, run, silent>>

CancelScopes(S) ==
  /\ phase = "up"
  /\ controller' = Abort({j \in JobIds : scopeOf[j] \in S})
  /\ Close({j \in JobIds : Unfinished(j) /\ scopeOf[j] \in S}, "cancelled")
  /\ UNCHANGED <<phase, boots, run, silent>>

(* A change of capabilities cancels; revoking a user or disabling a plugin
   also takes the grant away; a disabled plugin can be enabled again. *)
CancelGroup(g) == CancelScopes(g) /\ UNCHANGED granted
RevokeGroup(g) == CancelScopes(g) /\ granted' = granted \ g

Grant(g) ==
  /\ phase = "up"
  /\ granted' = granted \cup g
  /\ UNCHANGED <<rows, phase, boots, memory, silent>>

(***************************************************************************)
(* Shutdown waits for the scheduler's round, for nobody else, and aborts   *)
(* nothing; a crash waits for nobody.  Booting closes the running rows.    *)
(***************************************************************************)
BeginClose ==
  /\ phase = "up" /\ boots < MaxBoots
  /\ phase' = "closing"
  /\ UNCHANGED <<rows, boots, granted, memory, silent>>

GoDown ==
  /\ \/ phase = "closing" /\ run[Recovery] = Idle
     \/ phase = "up" /\ boots < MaxBoots
  /\ phase' = "down"
  /\ boots' = boots + 1
  /\ controller' = [j \in JobIds |-> "none"]
  /\ run' = [r \in Runners |-> Idle]
  /\ silent' = {}
  /\ UNCHANGED <<rows, granted>>

FaultyBoot ==
  /\ phase = "down"
  /\ phase' = "up"
  /\ UNCHANGED <<rows, boots, granted, memory, silent>>

Boot ==
  /\ phase = "down"
  /\ phase' = "up"
  /\ Close(Interrupted, "failed")
  /\ UNCHANGED <<boots, granted, memory, silent>>

JobsNext ==
  \/ \E j \in JobIds, s \in Scopes, t \in Types :
       \/ Enqueue(j, s, t)
       \/ \E r \in Requests : t \in Handled /\ EnqueueMedia(j, s, t, r)
  \/ Tick
  \/ \E r \in Requests, limit \in RunLimits : AdminRun(r, limit)
  \/ \E r \in Runners :
       \/ LeaveScope(r) \/ Claim(r)
       \/ \E o \in {"succeeded", "failed"} : HandlerDone(r, o)
  \/ \E j \in JobIds : Cancel(j) \/ WorkerCancel(j)
  \/ \E g \in Groups : CancelGroup(g) \/ RevokeGroup(g) \/ Grant(g)
  \/ BeginClose \/ GoDown \/ Boot

JobsSpec == JobsInit /\ [][JobsNext]_vars

(***************************************************************************)
(* Fairness.  The interval fires, a runner goes on, a handler settles (the *)
(* managed component behind every registered handler is killed after ten   *)
(* minutes), and a Core that went down is started again.                   *)
(***************************************************************************)
JobsFairness ==
  /\ WF_vars(Tick)
  /\ \A r \in Runners :
       /\ WF_vars(LeaveScope(r) \/ Claim(r))
       /\ WF_vars(\E o \in {"succeeded", "failed"} : HandlerDone(r, o))
  /\ WF_vars(phase = "closing" /\ GoDown)
  /\ WF_vars(Boot)

FairJobsSpec == JobsSpec /\ JobsFairness

-----------------------------------------------------------------------------
(* Type invariant of the rows and of the executor's memory. *)
JobsTypeOK ==
  /\ status \in [JobIds -> JobStatus \cup {"absent"}]
  /\ scopeOf \in [JobIds -> Scopes]
  /\ typeOf \in [JobIds -> Types]
  /\ phase \in {"up", "closing", "down"}
  /\ granted \subseteq Scopes
  /\ controller \in [JobIds -> {"none", "live", "aborted"}]
  /\ DOMAIN run = Runners
  /\ \A r \in Runners : "job" \in DOMAIN run[r] /\ run[r].job \in JobIds \cup {NoJob}

(* The table keeps its promise under every runner, cancellation and restart. *)
Queue == INSTANCE JobQueue
ImplementsQueue == Queue!Spec

(* While Core runs, a row is "running" only if exactly one runner awaits its
   handler: no job runs twice, and none stays "running" with nobody at work. *)
RunningRowHasOneRunner ==
  \A j \in JobIds :
    /\ \A q, r \in Runners : run[q].job = j /\ run[r].job = j => q = r
    /\ phase # "down" /\ status[j] = "running" => \E r \in Runners : run[r].job = j

(* Whoever awaits a handler can still abort it, and every handler whose row
   was cancelled has been told so, unless the Worker's own jobs.cancel did it. *)
CancelReachesHandler ==
  \A j \in JobIds :
    /\ controller[j] # "none" <=> \E r \in Runners : run[r].job = j
    /\ status[j] = "cancelled" /\ controller[j] = "live" => j \in silent

(* No active job is left in a scope that lost its grant. *)
RevokedScopeIsQuiet ==
  \A j \in JobIds : Unfinished(j) => scopeOf[j] \in granted

(* At most MaxMedia media transforms of a scope are active: what the test
   "limits active media transforms to one per installation scope" says. *)
MediaLimit ==
  \A s \in Scopes : Cardinality(Counted(s, Media)) <= MaxMedia

(* A job with a handler does not wait for ever, whatever else is queued: it is
   claimed or closed, also across a restart. *)
HandledJobsLeaveQueue ==
  \A j \in JobIds :
    (status[j] = "queued" /\ typeOf[j] \in Handled) ~> status[j] # "queued"

(* Closing Core ends, although it waits for a whole round of the scheduler. *)
ShutdownEnds == phase = "closing" ~> phase = "down"
=============================================================================

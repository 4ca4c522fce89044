-------------------------- MODULE PluginJobs_proofs --------------------------
(***************************************************************************)
(* What PluginJobs guarantees for every number of scopes, types, rows and  *)
(* runners, proved with TLAPS: that the table implements JobQueue, and how *)
(* rows, controllers, runners and grants agree.                            *)
(***************************************************************************)
EXTENDS PluginJobs, TLAPS

Awaits(r, j) == run[r].job = j

(* A job whose handler is awaited was claimed, whatever became of its row. *)
AwaitedWasClaimed ==
  \A r \in Runners, j \in JobIds : Awaits(r, j) => status[j] \notin {"absent", "queued"}

(* What is down awaits nothing. *)
DownIsIdle == phase = "down" => \A r \in Runners : run[r].job = NoJob

IInv ==
  /\ JobsTypeOK
  /\ AwaitedWasClaimed
  /\ DownIsIdle
  /\ RunningRowHasOneRunner
  /\ CancelReachesHandler

-----------------------------------------------------------------------------
(* The case analysis of a step. *)
LEMMA StepCases ==
  ASSUME JobsNext
  PROVE  \/ \E j \in JobIds, s \in Scopes, t \in Types : Enqueue(j, s, t)
         \/ \E j \in JobIds, s \in Scopes, t \in Types, r \in Requests : EnqueueMedia(j, s, t, r)
         \/ Tick
         \/ \E r \in Requests, limit \in RunLimits : AdminRun(r, limit)
         \/ \E r \in Runners : LeaveScope(r)
         \/ \E r \in Runners : Claim(r)
         \/ \E r \in Runners, o \in {"succeeded", "failed"} : HandlerDone(r, o)
         \/ \E j \in JobIds : Cancel(j)
         \/ \E j \in JobIds : WorkerCancel(j)
         \/ \E g \in Groups : CancelGroup(g)
         \/ \E g \in Groups : RevokeGroup(g)
         \/ \E g \in Groups : Grant(g)
         \/ BeginClose
         \/ GoDown
         \/ Boot
BY Zenon DEF JobsNext

LEMMA JobIdFacts == NoJob \notin JobIds /\ Recovery \in Runners /\ Requests \subseteq Runners
BY DEF NoJob, JobIds, Runners

(* What a batch is set to do next awaits no handler. *)
LEMMA NextScopeIdle ==
  ASSUME NEW r, NEW left
  PROVE  "job" \in DOMAIN NextScope(r, left) /\ NextScope(r, left).job = NoJob
BY DEF NextScope, Idle

-----------------------------------------------------------------------------
(* The table. *)

(* Claiming is beginning the oldest claimable job of its scope. *)
LEMMA ClaimBegins ==
  ASSUME NEW r \in Runners, Claim(r)
  PROVE  \E j \in JobIds :
           /\ Begin(j) /\ status[j] = "queued"
           /\ controller' = [controller EXCEPT ![j] = "live"]
           /\ run' = [run EXCEPT ![r].job = j]
           /\ phase # "down" /\ run[r].job = NoJob
<1>1. PICK j \in Claimable(Head(run[r].plan)) :
        /\ IsOldest(j, Claimable(Head(run[r].plan)))
        /\ status' = [status EXCEPT ![j] = "running"]
        /\ controller' = [controller EXCEPT ![j] = "live"]
        /\ run' = [run EXCEPT ![r].job = j]
  BY DEF Claim
<1>2. PICK s : s = Head(run[r].plan)
  OBVIOUS
<1>3. j \in JobIds /\ status[j] = "queued" /\ scopeOf[j] = s
  BY <1>1, <1>2 DEF Claimable
<1>4. Begin(j)
  BY <1>1, <1>2, <1>3 DEF Begin, Claim
<1>5. QED
  BY <1>1, <1>3, <1>4 DEF Claim, Visiting

(* The abstract queue is the module this one extends. *)
LEMMA QueueInstance == (Queue!Next <=> Next) /\ (Queue!Init <=> Init) /\ Queue!rows = rows
<1>1. Queue!JobIds = JobIds /\ Queue!rows = rows
  BY DEF Queue!JobIds, JobIds, Queue!rows, rows
<1>2. \A j : Queue!Unfinished(j) <=> Unfinished(j)
  BY DEF Queue!Unfinished, Unfinished
<1>3. \A s : Queue!ActiveJobs(s) = ActiveJobs(s) /\ Queue!Claimable(s) = Claimable(s)
  BY <1>1, <1>2 DEF Queue!ActiveJobs, ActiveJobs, Queue!Claimable, Claimable
<1>4. \A j : Queue!IsNext(j) <=> IsNext(j)
  BY <1>1 DEF Queue!IsNext, IsNext
<1>5. \A j, S : Queue!IsOldest(j, S) <=> IsOldest(j, S)
  BY DEF Queue!IsOldest, IsOldest
<1>6. ASSUME NEW j, NEW s, NEW t
      PROVE  Queue!Submit(j, s, t) <=> Submit(j, s, t)
  <2>1. Queue!IsNext(j) <=> IsNext(j)
    BY <1>4
  <2>2. Cardinality(Queue!ActiveJobs(s)) = Cardinality(ActiveJobs(s))
    BY <1>3
  <2>3. Queue!Submit(j, s, t) <=>
          /\ Queue!IsNext(j)
          /\ Cardinality(Queue!ActiveJobs(s)) < MaxPerScope
          /\ status' = [status EXCEPT ![j] = "queued"]
          /\ scopeOf' = [scopeOf EXCEPT ![j] = s]
          /\ typeOf' = [typeOf EXCEPT ![j] = t]
    <3>1. Queue!Cardinality(Queue!ActiveJobs(s)) = Cardinality(Queue!ActiveJobs(s))
      BY DEF Queue!Cardinality, Cardinality
    <3>2. QED
      BY <3>1, Zenon DEF Queue!Submit
  <2>4. Submit(j, s, t) <=>
          /\ IsNext(j)
          /\ Cardinality(ActiveJobs(s)) < MaxPerScope
          /\ status' = [status EXCEPT ![j] = "queued"]
          /\ scopeOf' = [scopeOf EXCEPT ![j] = s]
          /\ typeOf' = [typeOf EXCEPT ![j] = t]
    BY Zenon DEF Submit
  <2>5. (Cardinality(Queue!ActiveJobs(s)) < MaxPerScope) <=> (Cardinality(ActiveJobs(s)) < MaxPerScope)
    BY <2>2, Zenon
  <2>6. QED
    BY <2>1, <2>3, <2>4, <2>5, Zenon
<1>7. \A j : Queue!Begin(j) <=> Begin(j)
  BY <1>3, <1>5 DEF Queue!Begin, Begin
<1>8. \A j, o : Queue!Settle(j, o) <=> Settle(j, o)
  BY DEF Queue!Settle, Settle
<1>9. \A S, o : Queue!Close(S, o) <=> Close(S, o)
  BY <1>1, <1>2 DEF Queue!Close, Close
<1>10. Queue!Interrupted = Interrupted
  BY <1>1 DEF Queue!Interrupted, Interrupted
<1>11. Queue!Init <=> Init
  BY <1>1 DEF Queue!Init, Init
<1>12. Queue!Next <=> Next
  BY <1>1, <1>6, <1>7, <1>8, <1>9, <1>10 DEF Queue!Next, Next
<1>13. QED
  BY <1>1, <1>11, <1>12

LEMMA StepRefines == JobsTypeOK /\ [JobsNext]_vars => [Next]_rows
<1> SUFFICES ASSUME JobsTypeOK, [JobsNext]_vars
             PROVE  [Next]_rows
  OBVIOUS
<1>1. CASE UNCHANGED vars
  BY <1>1 DEF vars, rows
<1>2. ASSUME NEW j \in JobIds, NEW s \in Scopes, NEW t \in Types, Submit(j, s, t)
      PROVE  Next
  BY <1>2 DEF Next
<1>3. ASSUME NEW r \in Runners, Claim(r)
      PROVE  Next
  BY <1>3, ClaimBegins DEF Next
<1>4. ASSUME NEW r \in Runners, NEW o \in {"succeeded", "failed"}, HandlerDone(r, o)
      PROVE  [Next]_rows
  <2>1. PICK j : j = run[r].job
    OBVIOUS
  <2>2. CASE status[j] = "running"
    <3>1. Settle(j, o)
      BY <1>4, <2>1, <2>2 DEF HandlerDone, Settle
    <3>2. j \in JobIds
      BY <1>4, <2>1 DEF JobsTypeOK, HandlerDone
    <3>3. QED
      BY <3>1, <3>2 DEF Next
  <2>3. CASE status[j] # "running"
    BY <1>4, <2>1, <2>3 DEF HandlerDone, rows
  <2>4. QED
    BY <2>2, <2>3
<1>5. ASSUME NEW S \in SUBSET JobIds, Close(S, "cancelled")
      PROVE  Next
  BY <1>5 DEF Next
<1>6. ASSUME NEW j \in JobIds, Cancel(j) \/ WorkerCancel(j)
      PROVE  Next
  BY <1>5, <1>6 DEF Cancel, WorkerCancel
<1>7. ASSUME NEW g, CancelScopes(g)
      PROVE  Next
  BY <1>5, <1>7 DEF CancelScopes
<1>8. CASE Boot
  BY <1>8 DEF Boot, Next
<1>9. CASE \/ Tick \/ BeginClose \/ GoDown
           \/ \E r \in Requests, limit \in RunLimits : AdminRun(r, limit)
           \/ \E r \in Runners : LeaveScope(r)
           \/ \E g \in Groups : Grant(g)
  BY <1>9 DEF Tick, BeginClose, GoDown, AdminRun, LeaveScope, Grant
<1>10. QED
  BY <1>1, <1>2, <1>3, <1>4, <1>6, <1>7, <1>8, <1>9, StepCases
  DEF Enqueue, EnqueueMedia, CancelGroup, RevokeGroup

-----------------------------------------------------------------------------
(* Types. *)

RowsTyped ==
  /\ status \in [JobIds -> JobStatus \cup {"absent"}]
  /\ scopeOf \in [JobIds -> Scopes]
  /\ typeOf \in [JobIds -> Types]

LEMMA RowsStep == RowsTyped /\ [Next]_rows => RowsTyped'
BY DEF RowsTyped, Next, rows, Submit, Begin, Settle, Close, JobStatus

RunTyped ==
  DOMAIN run = Runners /\
  \A r \in Runners : "job" \in DOMAIN run[r] /\ run[r].job \in JobIds \cup {NoJob}

(* The runners await what they awaited before. *)
RunKept ==
  /\ DOMAIN run' = Runners
  /\ \A r \in Runners : "job" \in DOMAIN run'[r] /\ run'[r].job = run[r].job

LEMMA UnchangedRun ==
  ASSUME JobsTypeOK, UNCHANGED run
  PROVE  RunKept
BY DEF JobsTypeOK, RunKept

(* A batch that is started or goes on to its next scope awaits nothing yet. *)
LEMMA PlanSteps ==
  ASSUME JobsTypeOK,
         \/ \E j \in JobIds, s \in Scopes, t \in Types, r \in Requests : EnqueueMedia(j, s, t, r)
         \/ Tick
         \/ \E r \in Requests, limit \in RunLimits : AdminRun(r, limit)
         \/ \E r \in Runners : LeaveScope(r)
  PROVE  RunKept
<1>1. ASSUME NEW r \in Runners, NEW x, run' = [run EXCEPT ![r] = x],
             "job" \in DOMAIN x, x.job = NoJob, run[r].job = NoJob
      PROVE  RunKept
  BY <1>1 DEF JobsTypeOK, RunKept
<1>0. ASSUME NEW r \in Runners, NEW p, NEW n,
             run' = [run EXCEPT ![r] = [plan |-> p, left |-> n, job |-> NoJob]],
             run[r].job = NoJob
      PROVE  RunKept
  <2>1. PICK x : x = [plan |-> p, left |-> n, job |-> NoJob]
    OBVIOUS
  <2>2. "job" \in DOMAIN x /\ x.job = NoJob
    BY <2>1
  <2>3. run' = [run EXCEPT ![r] = x]
    BY <1>0, <2>1
  <2>4. QED
    BY <1>0, <1>1, <2>2, <2>3
<1>2. ASSUME NEW r \in Requests, NEW j \in JobIds, NEW s \in Scopes, NEW t \in Types,
             EnqueueMedia(j, s, t, r)
      PROVE  RunKept
  <2>1. /\ run' = [run EXCEPT ![r] = [plan |-> <<s>>, left |-> 1, job |-> NoJob]]
        /\ run[r].job = NoJob
    BY <1>2 DEF EnqueueMedia, Idle
  <2>2. QED
    BY <1>0, <2>1, JobIdFacts
<1>3. CASE Tick
  <2>1. /\ run' = [run EXCEPT ![Recovery] = [plan |-> OldestFirst, left |-> BatchSize, job |-> NoJob]]
        /\ run[Recovery].job = NoJob
    BY <1>3 DEF Tick, Idle
  <2>2. QED
    BY <1>0, <2>1, JobIdFacts
<1>4. ASSUME NEW r \in Requests, NEW limit \in RunLimits, AdminRun(r, limit)
      PROVE  RunKept
  <2>1. /\ run' = [run EXCEPT ![r] = [plan |-> NewestFirst, left |-> limit, job |-> NoJob]]
        /\ run[r].job = NoJob
    BY <1>4 DEF AdminRun, Idle
  <2>2. QED
    BY <1>0, <2>1, JobIdFacts
<1>5. ASSUME NEW r \in Runners, LeaveScope(r)
      PROVE  RunKept
  <2>1. run' = [run EXCEPT ![r] = NextScope(r, run[r].left)] /\ run[r].job = NoJob
    BY <1>5 DEF LeaveScope, Visiting
  <2>2. QED
    BY <1>1, <2>1, NextScopeIdle
<1>6. QED
  BY <1>2, <1>3, <1>4, <1>5

(* A handler that is done is not awaited any more. *)
LEMMA DoneFacts ==
  ASSUME JobsTypeOK, NEW r \in Runners, NEW o \in {"succeeded", "failed"}, HandlerDone(r, o)
  PROVE  /\ run[r].job \in JobIds /\ DOMAIN run' = Runners
         /\ "job" \in DOMAIN run'[r] /\ run'[r].job = NoJob
         /\ \A q \in Runners \ {r} : run'[q] = run[q]
<1>1. run[r].job \in JobIds
  BY DEF JobsTypeOK, HandlerDone
<1>2. \/ run' = [run EXCEPT ![r].job = NoJob, ![r].left = @ - 1]
      \/ run' = [run EXCEPT ![r] = NextScope(r, @.left)]
  BY DEF HandlerDone
<1>3. CASE run' = [run EXCEPT ![r].job = NoJob, ![r].left = @ - 1]
  BY <1>1, <1>3 DEF JobsTypeOK
<1>4. CASE run' = [run EXCEPT ![r] = NextScope(r, @.left)]
  BY <1>1, <1>4, NextScopeIdle DEF JobsTypeOK
<1>5. QED
  BY <1>2, <1>3, <1>4

LEMMA NextTyped == JobsTypeOK /\ [JobsNext]_vars => JobsTypeOK'
<1> SUFFICES ASSUME JobsTypeOK, [JobsNext]_vars
             PROVE  JobsTypeOK'
  OBVIOUS
<1>1. RowsTyped'
  BY StepRefines, RowsStep DEF JobsTypeOK, RowsTyped
<1>2. CASE UNCHANGED vars
  BY <1>2 DEF vars, JobsTypeOK
<1>3. CASE JobsNext
  <2>1. phase' \in {"up", "closing", "down"} /\ granted' \subseteq Scopes
    <3>1. \A g \in Groups : g \subseteq Scopes
      BY JobsAssumption
    <3>2. QED
      BY <1>3, <3>1, StepCases
      DEF JobsTypeOK, Enqueue, EnqueueMedia, Tick, AdminRun, LeaveScope, Claim, HandlerDone, Cancel,
          WorkerCancel, CancelGroup, RevokeGroup, CancelScopes, Grant, BeginClose, GoDown, Boot
  <2>2. controller' \in [JobIds -> {"none", "live", "aborted"}]
    BY <1>3, StepCases
    DEF JobsTypeOK, Enqueue, EnqueueMedia, Tick, AdminRun, LeaveScope, Claim, HandlerDone, Cancel,
        WorkerCancel, CancelGroup, RevokeGroup, CancelScopes, Grant, BeginClose, GoDown, Boot,
        Abort, memory
  <2>3. RunTyped'
    <3>1. ASSUME RunKept
          PROVE  RunTyped'
      BY <3>1 DEF JobsTypeOK, RunKept, RunTyped
    <3>2. ASSUME UNCHANGED run
          PROVE  RunTyped'
      BY <3>1, <3>2, UnchangedRun
    <3>3. ASSUME NEW r \in Runners, Claim(r)
          PROVE  RunTyped'
      BY <3>3, ClaimBegins DEF JobsTypeOK, RunTyped
    <3>4. ASSUME NEW r \in Runners, NEW o \in {"succeeded", "failed"}, HandlerDone(r, o)
          PROVE  RunTyped'
      BY <3>4, DoneFacts DEF JobsTypeOK, RunTyped
    <3>5. CASE GoDown
      BY <3>5 DEF GoDown, RunTyped, Idle
    <3>6. CASE \/ \E j \in JobIds, s \in Scopes, t \in Types : Enqueue(j, s, t)
               \/ \E j \in JobIds : Cancel(j) \/ WorkerCancel(j)
               \/ \E g \in Groups : CancelGroup(g) \/ RevokeGroup(g) \/ Grant(g)
               \/ BeginClose \/ Boot
      BY <3>2, <3>6 DEF Enqueue, Cancel, WorkerCancel, CancelGroup, RevokeGroup, CancelScopes,
                        Grant, BeginClose, Boot, memory
    <3>7. QED
      BY <1>3, <3>1, <3>3, <3>4, <3>5, <3>6, PlanSteps, StepCases
  <2>4. QED
    BY <1>1, <2>1, <2>2, <2>3 DEF JobsTypeOK, RowsTyped, RunTyped
<1>4. QED
  BY <1>2, <1>3

LEMMA InitTyped == JobsInit => JobsTypeOK
BY JobsAssumption DEF JobsInit, Init, JobsTypeOK, Idle, JobStatus

(* The service, the executor, the scheduler and the handlers together keep the
   promises of the abstract queue: bounded scopes, oldest first, final ends. *)
THEOREM JobsImplementQueue == JobsSpec => ImplementsQueue
<1>1. JobsInit => Queue!Init
  BY QueueInstance DEF JobsInit
<1>2. JobsTypeOK /\ [JobsNext]_vars => [Queue!Next]_(Queue!rows)
  <2>1. JobsTypeOK /\ [JobsNext]_vars => Next \/ UNCHANGED <<status, scopeOf, typeOf>>
    BY StepRefines DEF rows
  <2>2. (Next <=> Queue!Next) /\ Queue!rows = <<status, scopeOf, typeOf>>
    BY QueueInstance DEF rows
  <2>3. Queue!rows' = <<status, scopeOf, typeOf>>'
    BY DEF Queue!rows
  <2>4. QED
    BY <2>1, <2>2, <2>3
<1>3. QED
  BY <1>1, <1>2, InitTyped, NextTyped, PTL DEF JobsSpec, ImplementsQueue, Queue!Spec

-----------------------------------------------------------------------------
(* Rows, controllers and runners.  One lemma per kind of step; each keeps  *)
(* every part of Agreed.                                                   *)

Agreed ==
  /\ AwaitedWasClaimed
  /\ DownIsIdle
  /\ RunningRowHasOneRunner
  /\ CancelReachesHandler

(* Nothing that the parts of Agreed read is written. *)
LEMMA AgreedKept ==
  ASSUME IInv, RunKept, UNCHANGED <<status, controller, silent>>, phase' = "down" <=> phase = "down"
  PROVE  Agreed'
<1>1. AwaitedWasClaimed' /\ DownIsIdle'
  BY DEF IInv, AwaitedWasClaimed, DownIsIdle, RunKept, Awaits
<1>2. RunningRowHasOneRunner'
  BY DEF IInv, RunningRowHasOneRunner, RunKept
<1>3. CancelReachesHandler'
  BY DEF IInv, CancelReachesHandler, RunKept
<1>4. QED
  BY <1>1, <1>2, <1>3 DEF Agreed

(* A row is inserted. *)
LEMMA AgreedSubmit ==
  ASSUME IInv, NEW j \in JobIds, NEW s, NEW t, Submit(j, s, t), RunKept,
         UNCHANGED <<phase, controller, silent>>
  PROVE  Agreed'
<1>1. /\ status[j] = "absent" /\ status'[j] = "queued"
      /\ \A i \in JobIds \ {j} : status'[i] = status[i]
  BY DEF Submit, IsNext, IInv, JobsTypeOK
<1>2. AwaitedWasClaimed' /\ DownIsIdle'
  BY <1>1 DEF IInv, AwaitedWasClaimed, DownIsIdle, RunKept, Awaits
<1>3. RunningRowHasOneRunner'
  BY <1>1 DEF IInv, RunningRowHasOneRunner, RunKept
<1>4. CancelReachesHandler'
  BY <1>1 DEF IInv, CancelReachesHandler, RunKept
<1>5. QED
  BY <1>2, <1>3, <1>4 DEF Agreed

(* A runner claims a queued row, which nobody awaits. *)
LEMMA AgreedClaim ==
  ASSUME IInv, NEW r \in Runners, Claim(r)
  PROVE  Agreed'
<1>1. PICK j \in JobIds :
        /\ Begin(j) /\ status[j] = "queued"
        /\ controller' = [controller EXCEPT ![j] = "live"]
        /\ run' = [run EXCEPT ![r].job = j]
        /\ phase # "down" /\ run[r].job = NoJob
  BY ClaimBegins
<1>2. /\ status'[j] = "running" /\ \A i \in JobIds \ {j} : status'[i] = status[i]
      /\ controller'[j] = "live" /\ \A i \in JobIds \ {j} : controller'[i] = controller[i]
  BY <1>1 DEF IInv, JobsTypeOK, Begin
<1>3. run'[r].job = j /\ \A q \in Runners \ {r} : run'[q].job = run[q].job
  BY <1>1 DEF IInv, JobsTypeOK
<1>4. phase' = phase /\ silent' = silent
  BY DEF Claim
<1>5. \A q \in Runners : run[q].job # j
  BY <1>1 DEF IInv, AwaitedWasClaimed, Awaits
<1>6. AwaitedWasClaimed' /\ DownIsIdle'
  BY <1>1, <1>2, <1>3, <1>4 DEF IInv, AwaitedWasClaimed, DownIsIdle, Awaits
<1>7. RunningRowHasOneRunner'
  BY <1>1, <1>2, <1>3, <1>4, <1>5, JobIdFacts DEF IInv, RunningRowHasOneRunner
<1>8. CancelReachesHandler'
  BY <1>1, <1>2, <1>3, <1>4, <1>5, JobIdFacts DEF IInv, CancelReachesHandler
<1>9. QED
  BY <1>6, <1>7, <1>8 DEF Agreed

(* A handler settles; its runner was the only one that awaited the job. *)
LEMMA AgreedDone ==
  ASSUME IInv, NEW r \in Runners, NEW o \in {"succeeded", "failed"}, HandlerDone(r, o)
  PROVE  Agreed'
<1>1. PICK j \in JobIds : j = run[r].job
  BY DoneFacts DEF IInv
<1>2. run'[r].job = NoJob /\ \A q \in Runners \ {r} : run'[q].job = run[q].job
  BY DoneFacts DEF IInv
<1>3. \A q \in Runners : run'[q].job # j
  BY <1>1, <1>2, JobIdFacts DEF IInv, RunningRowHasOneRunner
<1>4. /\ controller'[j] = "none" /\ \A i \in JobIds \ {j} : controller'[i] = controller[i]
      /\ silent' = silent \ {j} /\ phase' = phase /\ phase # "down"
  BY <1>1 DEF IInv, JobsTypeOK, HandlerDone
<1>5. /\ status'[j] \notin {"absent", "queued", "running"}
      /\ \A i \in JobIds \ {j} : status'[i] = status[i]
  <2>1. status[j] \notin {"absent", "queued"}
    BY <1>1 DEF IInv, AwaitedWasClaimed, Awaits
  <2>2. CASE status[j] = "running"
    BY <1>1, <2>2 DEF IInv, JobsTypeOK, HandlerDone
  <2>3. CASE status[j] # "running"
    BY <1>1, <2>1, <2>3 DEF HandlerDone
  <2>4. QED
    BY <2>2, <2>3
<1>6. AwaitedWasClaimed' /\ DownIsIdle'
  BY <1>2, <1>4, <1>5, JobIdFacts DEF IInv, AwaitedWasClaimed, DownIsIdle, Awaits
<1>7. RunningRowHasOneRunner'
  BY <1>1, <1>2, <1>3, <1>4, <1>5, JobIdFacts DEF IInv, RunningRowHasOneRunner
<1>8. CancelReachesHandler'
  BY <1>1, <1>2, <1>3, <1>4, <1>5, JobIdFacts DEF IInv, CancelReachesHandler
<1>9. QED
  BY <1>6, <1>7, <1>8 DEF Agreed

(* Rows are cancelled, and their handlers told or remembered as not told. *)
LEMMA AgreedCancel ==
  ASSUME IInv, NEW S \in SUBSET JobIds, Close(S, "cancelled"), UNCHANGED <<run, phase>>,
         silent \subseteq silent',
         \A j \in JobIds : (controller'[j] = "none" <=> controller[j] = "none")
                           /\ (controller'[j] = "live" => controller[j] = "live"),
         \A j \in S : status[j] = "running" => controller'[j] # "live" \/ j \in silent'
  PROVE  Agreed'
<1>1. /\ \A j \in S : status'[j] = "cancelled" /\ status[j] \in {"queued", "running"}
      /\ \A j \in JobIds \ S : status'[j] = status[j]
  BY DEF Close, Unfinished
<1>2. AwaitedWasClaimed' /\ DownIsIdle'
  BY <1>1 DEF IInv, AwaitedWasClaimed, DownIsIdle, Awaits
<1>3. RunningRowHasOneRunner'
  BY <1>1 DEF IInv, RunningRowHasOneRunner
<1>4. CancelReachesHandler'
  <2>1. \A j \in JobIds : controller'[j] # "none" <=> \E r \in Runners : run'[r].job = j
    BY DEF IInv, CancelReachesHandler
  <2>2. ASSUME NEW j \in JobIds, status'[j] = "cancelled", controller'[j] = "live"
        PROVE  j \in silent'
    <3>1. CASE j \notin S
      BY <1>1, <2>2, <3>1 DEF IInv, CancelReachesHandler
    <3>2. CASE j \in S
      <4>1. controller[j] = "live"
        BY <2>2
      <4>2. status[j] # "queued"
        BY <4>1 DEF IInv, CancelReachesHandler, AwaitedWasClaimed, Awaits
      <4>3. QED
        BY <1>1, <2>2, <3>2, <4>2
    <3>3. QED
      BY <3>1, <3>2
  <2>3. QED
    BY <2>1, <2>2 DEF CancelReachesHandler
<1>5. QED
  BY <1>2, <1>3, <1>4 DEF Agreed

(* Core goes down and forgets; the rows that still say "running" are the ones
   no runner is left for, and booting closes them. *)
LEMMA AgreedDown ==
  ASSUME IInv, GoDown
  PROVE  Agreed'
<1>1. /\ \A r \in Runners : run'[r].job = NoJob
      /\ \A j \in JobIds : controller'[j] = "none"
      /\ phase' = "down"
  BY DEF GoDown, Idle
<1>2. QED
  BY <1>1, JobIdFacts
  DEF Agreed, AwaitedWasClaimed, DownIsIdle, RunningRowHasOneRunner, CancelReachesHandler, Awaits

LEMMA AgreedBoot ==
  ASSUME IInv, Boot
  PROVE  Agreed'
<1>1. /\ \A r \in Runners : run'[r].job = NoJob
      /\ phase' = "up" /\ UNCHANGED <<controller, run, silent>>
  BY DEF Boot, IInv, DownIsIdle, memory
<1>2. \A j \in JobIds : status'[j] # "running" /\ (status'[j] = "cancelled" => status[j] = "cancelled")
  BY DEF Boot, Close, Interrupted
<1>3. QED
  BY <1>1, <1>2, JobIdFacts
  DEF IInv, Agreed, AwaitedWasClaimed, DownIsIdle, RunningRowHasOneRunner, CancelReachesHandler, Awaits

(* Aborting leaves who is awaited alone. *)
LEMMA AbortFacts ==
  ASSUME JobsTypeOK, NEW S
  PROVE  \A j \in JobIds :
           /\ Abort(S)[j] = "none" <=> controller[j] = "none"
           /\ Abort(S)[j] = "live" => controller[j] = "live"
           /\ j \in S => Abort(S)[j] # "live"
BY DEF Abort

LEMMA AgreedNext ==
  ASSUME IInv, [JobsNext]_vars
  PROVE  Agreed'
<1>1. CASE UNCHANGED vars
  BY <1>1, AgreedKept, UnchangedRun DEF vars, memory, rows, IInv
<1>2. ASSUME NEW j \in JobIds, NEW s \in Scopes, NEW t \in Types, Enqueue(j, s, t)
      PROVE  Agreed'
  BY <1>2, AgreedSubmit, UnchangedRun DEF Enqueue, memory, IInv
<1>3. ASSUME NEW j \in JobIds, NEW s \in Scopes, NEW t \in Types, NEW r \in Requests,
             EnqueueMedia(j, s, t, r)
      PROVE  Agreed'
  <2>1. RunKept
    BY <1>3, PlanSteps DEF IInv
  <2>2. QED
    BY <1>3, <2>1, AgreedSubmit DEF EnqueueMedia
<1>4. CASE \/ Tick
           \/ \E r \in Requests, limit \in RunLimits : AdminRun(r, limit)
           \/ \E r \in Runners : LeaveScope(r)
  <2>1. RunKept
    BY <1>4, PlanSteps DEF IInv
  <2>2. UNCHANGED <<status, controller, silent, phase>>
    BY <1>4 DEF Tick, AdminRun, LeaveScope, rows
  <2>3. QED
    BY <2>1, <2>2, AgreedKept
<1>5. CASE BeginClose \/ \E g \in Groups : Grant(g)
  <2>1. /\ UNCHANGED <<status, controller, silent, run>>
        /\ phase' = "down" <=> phase = "down"
    BY <1>5 DEF BeginClose, Grant, rows, memory
  <2>2. QED
    BY <2>1, AgreedKept, UnchangedRun DEF IInv
<1>6. ASSUME NEW j \in JobIds, Cancel(j)
      PROVE  Agreed'
  <2>1. /\ Close({j}, "cancelled") /\ UNCHANGED <<run, phase>> /\ silent' = silent
        /\ controller' = Abort({j})
    BY <1>6 DEF Cancel
  <2>2. QED
    BY <2>1, AbortFacts, AgreedCancel DEF IInv
<1>7. ASSUME NEW j \in JobIds, WorkerCancel(j)
      PROVE  Agreed'
  <2>1. /\ Close({j}, "cancelled") /\ UNCHANGED <<run, phase>> /\ controller' = controller
        /\ silent \subseteq silent'
        /\ status[j] = "running" => j \in silent'
    BY <1>7 DEF WorkerCancel, memory
  <2>2. QED
    BY <2>1, AgreedCancel
<1>8. ASSUME NEW S, CancelScopes(S)
      PROVE  Agreed'
  <2>1. PICK T \in SUBSET JobIds : T = {j \in JobIds : Unfinished(j) /\ scopeOf[j] \in S}
    OBVIOUS
  <2>2. PICK U : U = {j \in JobIds : scopeOf[j] \in S}
    OBVIOUS
  <2>3. /\ Close(T, "cancelled") /\ UNCHANGED <<run, phase>> /\ silent' = silent
        /\ controller' = Abort(U) /\ T \subseteq U
    BY <1>8, <2>1, <2>2 DEF CancelScopes
  <2>4. \A j \in T : controller'[j] # "live"
    BY <2>1, <2>3, AbortFacts DEF IInv
  <2>5. \A j \in JobIds : (controller'[j] = "none" <=> controller[j] = "none")
                          /\ (controller'[j] = "live" => controller[j] = "live")
    BY <2>3, AbortFacts DEF IInv
  <2>6. QED
    BY <2>3, <2>4, <2>5, AgreedCancel
<1>9. ASSUME NEW g \in Groups, CancelGroup(g) \/ RevokeGroup(g)
      PROVE  Agreed'
  BY <1>8, <1>9 DEF CancelGroup, RevokeGroup
<1>10. QED
  BY <1>1, <1>2, <1>3, <1>4, <1>5, <1>6, <1>7, <1>9,
     AgreedClaim, AgreedDone, AgreedDown, AgreedBoot, StepCases

LEMMA InitAgrees == JobsInit => Agreed
BY JobIdFacts
DEF JobsInit, Init, Idle, Agreed, AwaitedWasClaimed, DownIsIdle, RunningRowHasOneRunner,
    CancelReachesHandler, Awaits

LEMMA JobsInvariant == JobsSpec => []IInv
<1>1. JobsInit => IInv
  BY InitTyped, InitAgrees DEF IInv, Agreed
<1>2. IInv /\ [JobsNext]_vars => IInv'
  BY NextTyped, AgreedNext DEF IInv, Agreed
<1>3. QED
  BY <1>1, <1>2, PTL DEF JobsSpec

(* The rows and the executor's memory keep their types. *)
THEOREM JobsTypeCorrect == JobsSpec => []JobsTypeOK
<1>1. IInv => JobsTypeOK
  BY DEF IInv
<1>2. QED
  BY <1>1, JobsInvariant, PTL

(* While Core is up a running row has one runner, under any interleaving of
   runs, cancellations, shutdowns and crashes. *)
THEOREM OneRunnerPerJob == JobsSpec => []RunningRowHasOneRunner
<1>1. IInv => RunningRowHasOneRunner
  BY DEF IInv
<1>2. QED
  BY <1>1, JobsInvariant, PTL

(* A handler whose row Core cancelled has been aborted. *)
THEOREM CancelledHandlersAreTold == JobsSpec => []CancelReachesHandler
<1>1. IInv => CancelReachesHandler
  BY DEF IInv
<1>2. QED
  BY <1>1, JobsInvariant, PTL

-----------------------------------------------------------------------------
(* Grants. *)

LEMMA QuietNext ==
  ASSUME JobsTypeOK, RevokedScopeIsQuiet, [JobsNext]_vars
  PROVE  RevokedScopeIsQuiet'
<1>1. ASSUME UNCHANGED rows, granted \subseteq granted'
      PROVE  RevokedScopeIsQuiet'
  BY <1>1 DEF RevokedScopeIsQuiet, Unfinished, rows
<1>2. ASSUME NEW j \in JobIds, NEW s \in granted, NEW t, Submit(j, s, t), granted' = granted
      PROVE  RevokedScopeIsQuiet'
  BY <1>2 DEF RevokedScopeIsQuiet, Unfinished, Submit, JobsTypeOK
<1>3. ASSUME granted' = granted, scopeOf' = scopeOf,
             \A j \in JobIds : status'[j] \in {"queued", "running"} => Unfinished(j)
      PROVE  RevokedScopeIsQuiet'
  BY <1>3 DEF RevokedScopeIsQuiet, Unfinished
<1>4. ASSUME NEW r \in Runners, Claim(r)
      PROVE  RevokedScopeIsQuiet'
  <2>1. PICK j \in JobIds : Begin(j) /\ status[j] = "queued"
    BY <1>4, ClaimBegins
  <2>2. \A i \in JobIds : status'[i] \in {"queued", "running"} => Unfinished(i)
    BY <2>1 DEF Begin, Unfinished, JobsTypeOK
  <2>3. QED
    BY <1>3, <1>4, <2>2 DEF Claim
<1>5. ASSUME NEW r \in Runners, NEW o \in {"succeeded", "failed"}, HandlerDone(r, o)
      PROVE  RevokedScopeIsQuiet'
  <2>1. \A i \in JobIds : status'[i] \in {"queued", "running"} => Unfinished(i)
    BY <1>5 DEF HandlerDone, Unfinished, JobsTypeOK
  <2>2. QED
    BY <1>3, <1>5, <2>1 DEF HandlerDone
<1>6. ASSUME NEW S, NEW o \in {"cancelled", "failed"}, Close(S, o), granted' = granted
      PROVE  RevokedScopeIsQuiet'
  BY <1>3, <1>6 DEF Close, Unfinished
<1>7. ASSUME NEW g, CancelScopes(g), granted \ g \subseteq granted'
      PROVE  RevokedScopeIsQuiet'
  BY <1>7 DEF CancelScopes, Close, Unfinished, RevokedScopeIsQuiet
<1>8. CASE UNCHANGED vars
  BY <1>1, <1>8 DEF vars, rows
<1>9. CASE \/ Tick \/ BeginClose \/ GoDown
           \/ \E r \in Requests, limit \in RunLimits : AdminRun(r, limit)
           \/ \E r \in Runners : LeaveScope(r)
           \/ \E g \in Groups : Grant(g)
  BY <1>1, <1>9 DEF Tick, BeginClose, GoDown, AdminRun, LeaveScope, Grant
<1>10. CASE Boot \/ \E j \in JobIds : Cancel(j) \/ WorkerCancel(j)
  <2>1. CASE Boot
    <3>1. Close(Interrupted, "failed") /\ granted' = granted
      BY <2>1 DEF Boot
    <3>2. QED
      BY <1>6, <3>1
  <2>2. ASSUME NEW j \in JobIds, Cancel(j) \/ WorkerCancel(j)
        PROVE  RevokedScopeIsQuiet'
    <3>1. Close({j}, "cancelled") /\ granted' = granted
      BY <2>2 DEF Cancel, WorkerCancel
    <3>2. QED
      BY <1>6, <3>1
  <2>3. QED
    BY <1>10, <2>1, <2>2
<1>11. CASE \E g \in Groups : CancelGroup(g) \/ RevokeGroup(g)
  BY <1>7, <1>11 DEF CancelGroup, RevokeGroup
<1>12. CASE \E j \in JobIds, s \in Scopes, t \in Types :
              \/ Enqueue(j, s, t)
              \/ \E r \in Requests : EnqueueMedia(j, s, t, r)
  BY <1>2, <1>12 DEF Enqueue, EnqueueMedia
<1>13. QED
  BY <1>4, <1>5, <1>8, <1>9, <1>10, <1>11, <1>12, StepCases

(* Revoking a user or disabling a plugin leaves no active job behind. *)
THEOREM RevokedScopesAreQuiet == JobsSpec => []RevokedScopeIsQuiet
<1>1. JobsInit => JobsTypeOK /\ RevokedScopeIsQuiet
  <2>1. JobsInit => RevokedScopeIsQuiet
    BY DEF JobsInit, Init, RevokedScopeIsQuiet, Unfinished
  <2>2. QED
    BY <2>1, InitTyped
<1>2. JobsTypeOK /\ RevokedScopeIsQuiet /\ [JobsNext]_vars => (JobsTypeOK /\ RevokedScopeIsQuiet)'
  BY NextTyped, QuietNext
<1>3. QED
  BY <1>1, <1>2, PTL DEF JobsSpec
=============================================================================

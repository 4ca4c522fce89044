-------------------------- MODULE WorkerSupervisor --------------------------
(***************************************************************************)
(* The Worker lifecycle of one plugin installation, as kept by             *)
(* WorkerSupervisor (src/src/worker-supervisor.ts) over processes spawned  *)
(* by createTrustedNodeWorkerFactory (src/src/trusted-worker-factory.ts).  *)
(*                                                                         *)
(* Core is one thread, so every stretch of code between two awaits is one  *)
(* action.  start() is suspended while the factory waits for the child to  *)
(* report "ready"; stop() and disable() are suspended between two keys.    *)
(*                                                                         *)
(* A ManagedWorker object is a record <<key, slot>>: the code compares     *)
(* these objects by identity, and an object that was replaced in the       *)
(* `workers` map can still be referred to by a suspended start() or by a   *)
(* timer.  Its state and attempts are never read again, so these two are   *)
(* kept for the current object only.  One start() call creates at most one *)
(* process, so the process has the name of the record the call created.    *)
(*                                                                         *)
(* Definitions named Faulty... are never used by the specification: each   *)
(* is a plausible fault of the definition that follows it.                 *)
(***************************************************************************)
EXTENDS Naturals, FiniteSets

CONSTANTS
  Keys,         \* worker keys: the user scopes of the installation
  Slots,        \* objects of one key that can be referred to at once (bound)
  NoSlot,       \* "the workers map has no entry for this key"
  MaxActive,    \* maxActiveWorkersPerInstallation
  MaxRestart    \* maxRestartAttempts

ASSUME ConstantsAssumption ==
  /\ IsFiniteSet(Keys)
  /\ NoSlot \notin Slots
  /\ MaxActive \in Nat
  /\ MaxRestart \in Nat

VARIABLES
  installation, \* status of the plugin installation row
  worker,       \* worker[k]: slot of the object in the workers map, or NoSlot
  state,        \* state[k]: WorkerState of the object the map holds
  attempts,     \* attempts[k]: its consecutive crashes, see Bump
  owns,         \* objects whose handle field is set
  idleTimer,    \* objects with a scheduled idle timer
  restartTimer, \* objects with a scheduled restart timer
  stableTimer,  \* objects with a scheduled stable-run timer
  pending,      \* objects whose start() awaits factory.start
  live,         \* processes that neither ended nor were sent SIGTERM
  owed,         \* sweeps that a request handler has still to begin
  visits,       \* <<mode, key>> pairs that sweeps under way have still to visit
  stopped,      \* history: keys stopped, with no start() request since
  revived,      \* history: those put in backoff by a start() that failed late
  dropped       \* history: live processes whose handle such a failure dropped

vars == <<installation, worker, state, attempts, owns, idleTimer, restartTimer,
          stableTimer, pending, live, owed, visits, stopped, revived, dropped>>

timers == <<idleTimer, restartTimer, stableTimer>>
history == <<stopped, revived, dropped>>

Records == Keys \X Slots
WorkerState == {"stopped", "starting", "running", "backoff", "disabled", "failed"}
Modes == {"stop", "disable"}
Attempts == 0 .. MaxRestart + 1

(* The object the workers map holds for key k, when it holds one. *)
Current(k) == <<k, worker[k]>>
Known(k) == worker[k] # NoSlot
IsCurrent(r) == worker[r[1]] = r[2]

FaultyActive == {k \in Keys : state[k] = "running"}

(* Objects that count against the capacity of the installation. *)
Active == {k \in Keys : state[k] \in {"starting", "running"}}

(* A slot can be used again when nothing refers to its object any more. *)
FreeSlots(k) ==
  {s \in Slots \ {worker[k]} :
     <<k, s>> \notin pending \cup idleTimer \cup restartTimer \cup stableTimer \cup live}

(* attempts is only ever compared with MaxRestart: counting stops above it. *)
Bump(n) == IF n > MaxRestart THEN n ELSE n + 1

Unavailable == installation # "installed"

Init ==
  /\ installation = "installed"
  /\ worker = [k \in Keys |-> NoSlot]
  /\ state = [k \in Keys |-> "stopped"]
  /\ attempts = [k \in Keys |-> 0]
  /\ owns = {} /\ pending = {}
  /\ idleTimer = {} /\ restartTimer = {} /\ stableTimer = {}
  /\ live = {}
  /\ owed = {} /\ visits = {}
  /\ stopped = {} /\ revived = {} /\ dropped = {}

FaultyInherited(k) == 0

(* The count of crashes a new object takes over from the one it replaces. *)
Inherited(k) == attempts[k]

(***************************************************************************)
(* start() up to the await.  A key that is starting or running only has    *)
(* its idle timer rearmed, which changes nothing here.  Without capacity   *)
(* the key gets a new "failed" object; otherwise a "starting" one, and the *)
(* factory spawns the process.                                             *)
(***************************************************************************)
BeginStart(k) ==
  /\ installation = "installed"
  /\ state[k] \notin {"starting", "running"}
  /\ FreeSlots(k) # {}
  /\ LET s == CHOOSE x \in FreeSlots(k) : TRUE
         r == <<k, s>>
         admitted == Cardinality(Active) < MaxActive
     IN /\ worker' = [worker EXCEPT ![k] = s]
        /\ state' = [state EXCEPT ![k] = IF admitted THEN "starting" ELSE "failed"]
        /\ pending' = IF admitted THEN pending \cup {r} ELSE pending
        /\ live' = IF admitted THEN live \cup {r} ELSE live
  /\ attempts' = [attempts EXCEPT ![k] = Inherited(k)]

(* A gateway request or an administrator's health probe asks for a worker. *)
Start(k) ==
  /\ BeginStart(k)
  /\ stopped' = stopped \ {k} /\ revived' = revived \ {k}
  /\ UNCHANGED <<installation, owns, timers, owed, visits, dropped>>

FaultyAdoptable(r) == state[r[1]] = "starting" /\ ~Unavailable
FaultyAdoptableAfterStop(r) == IsCurrent(r) /\ ~Unavailable

(***************************************************************************)
(* The child reported "ready" and start() continues.  The handle is kept   *)
(* only when the object is still the current one, still starting, and the  *)
(* installation still installed; otherwise the new process is stopped.     *)
(***************************************************************************)
Adoptable(r) == IsCurrent(r) /\ state[r[1]] = "starting" /\ ~Unavailable

FactoryReady(r) ==
  /\ r \in pending
  /\ pending' = pending \ {r}
  /\ \/ /\ Adoptable(r)
        /\ owns' = owns \cup {r}
        /\ state' = [state EXCEPT ![r[1]] = "running"]
        /\ stableTimer' = IF attempts[r[1]] = 0 THEN stableTimer \ {r} ELSE stableTimer \cup {r}
        /\ idleTimer' = idleTimer \cup {r}
        /\ UNCHANGED live
     \/ /\ ~Adoptable(r)
        /\ live' = live \ {r}
        /\ UNCHANGED <<owns, state, stableTimer, idleTimer>>
  /\ UNCHANGED <<installation, worker, attempts, restartTimer, owed, visits, history>>

(***************************************************************************)
(* crashed(): acts on whatever object the map now holds for the key.       *)
(***************************************************************************)
Crashed(k) ==
  LET r == Current(k)
      n == Bump(attempts[k])
      retry == n <= MaxRestart /\ ~Unavailable
  IN /\ attempts' = [attempts EXCEPT ![k] = n]
     /\ owns' = owns \ {r}
     /\ idleTimer' = idleTimer \ {r}
     /\ stableTimer' = stableTimer \ {r}
     /\ restartTimer' = IF retry THEN restartTimer \cup {r} ELSE restartTimer \ {r}
     /\ state' = [state EXCEPT ![k] = IF retry THEN "backoff"
                                      ELSE IF Unavailable THEN "disabled" ELSE "failed"]

(***************************************************************************)
(* factory.start rejected: the child exited before it was ready, or was    *)
(* killed because readiness timed out.  The catch block of start() calls   *)
(* crashed() without the identity test of the success path.                *)
(***************************************************************************)
FactoryFail(r) ==
  LET k == r[1]
      isLate == ~(IsCurrent(r) /\ state[k] = "starting")
  IN /\ r \in pending
     /\ pending' = pending \ {r}
     /\ live' = live \ {r}
     /\ Crashed(k)
     /\ revived' = IF isLate /\ k \in stopped THEN revived \cup {k} ELSE revived
     /\ dropped' = IF isLate THEN dropped \cup (owns \cap {Current(k)}) ELSE dropped
     /\ UNCHANGED <<installation, worker, owed, visits, stopped>>

(* A ready process fails; the callback is ignored unless the handle is owned. *)
ProcessCrash(r) ==
  /\ r \in live \ pending
  /\ live' = live \ {r} /\ dropped' = dropped \ {r}
  /\ IF IsCurrent(r) /\ r \in owns
     THEN Crashed(r[1])
     ELSE UNCHANGED <<attempts, owns, timers, state>>
  /\ UNCHANGED <<installation, worker, pending, owed, visits, stopped, revived>>

(* A ready process ends with code 0 or by a foreign SIGTERM: not a crash. *)
ProcessExit(r) ==
  /\ r \in live \ pending
  /\ live' = live \ {r} /\ dropped' = dropped \ {r}
  /\ UNCHANGED <<installation, worker, state, attempts, owns, timers, pending, owed, visits, stopped, revived>>

FaultyStopHandle(r) == owns' = owns \ {r} /\ UNCHANGED live

(* handle?.stop(): sends SIGTERM to the process of r when r owns its handle. *)
StopHandle(r) ==
  /\ owns' = owns \ {r}
  /\ live' = IF r \in owns THEN live \ {r} ELSE live

(* The idle timer of r fires and stops the worker the key has now. *)
IdleTimeout(r) ==
  /\ r \in idleTimer
  /\ LET now == Current(r[1])
     IN /\ idleTimer' = idleTimer \ {r, now}
        /\ StopHandle(now)
        /\ state' = [state EXCEPT ![r[1]] = "stopped"]
  /\ UNCHANGED <<installation, worker, attempts, restartTimer, stableTimer, pending, owed, visits, history>>

(* The backoff delay of r is over: restart, unless r was replaced or stopped. *)
RestartTimeout(r) ==
  /\ r \in restartTimer
  /\ restartTimer' = restartTimer \ {r}
  /\ IF IsCurrent(r) /\ state[r[1]] = "backoff" /\ ~Unavailable
     THEN BeginStart(r[1])
     ELSE UNCHANGED <<worker, attempts, state, pending, live>>
  /\ UNCHANGED <<installation, owns, idleTimer, stableTimer, owed, visits, history>>

(* A stable run forgives the earlier crashes of r. *)
StableTimeout(r) ==
  /\ r \in stableTimer
  /\ stableTimer' = stableTimer \ {r}
  /\ attempts' = IF IsCurrent(r) /\ state[r[1]] = "running"
                 THEN [attempts EXCEPT ![r[1]] = 0] ELSE attempts
  /\ UNCHANGED <<installation, worker, state, owns, idleTimer, restartTimer, pending, live, owed, visits, history>>

(***************************************************************************)
(* stop() and disable(): take the keys known now, then visit them one by   *)
(* one with an await in between.  The order of the keys is left open, and  *)
(* two sweeps of the same mode under way together share their visits.      *)
(***************************************************************************)
BeginSweep(m) == visits' = visits \cup ({m} \X {k \in Keys : Known(k)})

(* stop() on behalf of a capability change, an upgrade or Core's shutdown. *)
Stop ==
  /\ BeginSweep("stop")
  /\ UNCHANGED <<installation, worker, state, attempts, owns, timers, pending, live, owed, history>>

(* The sweep that follows a change of the installation's status. *)
OwedSweep(m) ==
  /\ m \in owed
  /\ BeginSweep(m)
  /\ owed' = owed \ {m}
  /\ UNCHANGED <<installation, worker, state, attempts, owns, timers, pending, live, history>>

(* clearIdle, clearRestart and clearStable. *)
ClearTimers(r) ==
  /\ idleTimer' = idleTimer \ {r}
  /\ restartTimer' = restartTimer \ {r}
  /\ stableTimer' = stableTimer \ {r}

(* A sweep under way, or one that is owed, still has to visit key k. *)
SweepDue(k) == "disable" \in owed \/ \E m \in Modes : <<m, k>> \in visits

Visit(m, k) ==
  /\ <<m, k>> \in visits
  /\ visits' = visits \ {<<m, k>>}
  /\ LET r == Current(k)
     IN /\ ClearTimers(r)
        /\ StopHandle(r)
        /\ state' = [state EXCEPT ![k] = IF m = "disable" \/ Unavailable
                                         THEN "disabled" ELSE "stopped"]
  /\ stopped' = stopped \cup {k} /\ revived' = revived \ {k}
  /\ UNCHANGED <<installation, worker, attempts, pending, owed, dropped>>

(***************************************************************************)
(* The administrator's handlers: the row changes first, the sweep follows  *)
(* after other awaits of the handler.                                      *)
(***************************************************************************)
ChangeStatus(from, to, m) ==
  /\ installation = from
  /\ installation' = to
  /\ owed' = owed \cup m
  /\ UNCHANGED <<worker, state, attempts, owns, timers, pending, live, visits, history>>

FaultyDisable == ChangeStatus("installed", "disabled", {})
Disable == ChangeStatus("installed", "disabled", {"disable"})
Enable == ChangeStatus("disabled", "installed", {})
Uninstall == ChangeStatus("disabled", "uninstalled", {"stop"})

Next ==
  \/ \E k \in Keys : Start(k)
  \/ \E r \in Records :
       \/ FactoryReady(r) \/ FactoryFail(r)
       \/ ProcessCrash(r) \/ ProcessExit(r)
       \/ IdleTimeout(r) \/ RestartTimeout(r) \/ StableTimeout(r)
  \/ Stop
  \/ \E m \in Modes : OwedSweep(m) \/ \E k \in Keys : Visit(m, k)
  \/ Disable \/ Enable \/ Uninstall

Spec == Init /\ [][Next]_vars

(***************************************************************************)
(* Fairness.  factory.start settles: the trusted factory gives up after 5  *)
(* seconds.  Timers fire.  A handler that changed the status goes on to    *)
(* its sweep, and a sweep goes on to its next key.                         *)
(***************************************************************************)
Fairness ==
  /\ \A r \in Records :
       /\ WF_vars(FactoryReady(r) \/ FactoryFail(r))
       /\ WF_vars(RestartTimeout(r))
       /\ WF_vars(StableTimeout(r))
  /\ \A m \in Modes :
       /\ WF_vars(OwedSweep(m))
       /\ \A k \in Keys : WF_vars(Visit(m, k))

FairSpec == Spec /\ Fairness

-----------------------------------------------------------------------------
(* Type invariant of the supervisor's maps, timers and suspended calls. *)
TypeOK ==
  /\ installation \in {"installed", "disabled", "uninstalled"}
  /\ worker \in [Keys -> Slots \cup {NoSlot}]
  /\ state \in [Keys -> WorkerState]
  /\ attempts \in [Keys -> Attempts]
  /\ owns \subseteq Records /\ pending \subseteq Records
  /\ idleTimer \subseteq Records
  /\ restartTimer \subseteq Records
  /\ stableTimer \subseteq Records
  /\ live \subseteq Records
  /\ owed \subseteq Modes
  /\ visits \subseteq Modes \X Keys
  /\ stopped \subseteq Keys /\ revived \subseteq Keys
  /\ dropped \subseteq Records

(* However starts, restarts, crashes and stops interleave, no more workers
   are starting or running than the installation's capacity (the process of a
   superseded start() that is still under way is not counted by the code). *)
CapacityRespected ==
  Cardinality({k \in Keys : state[k] \in {"starting", "running"}}) <= MaxActive

(* A handle is owned exactly by the current, running object of its key, which
   has an idle timer: a running worker is always reclaimed in the end, and no
   replaced object keeps a process alive. *)
RunningOwnsHandle ==
  \A r \in Records :
    /\ (r \in owns) <=> (IsCurrent(r) /\ state[r[1]] = "running")
    /\ (r \in idleTimer) <=> (r \in owns)

(* A restart timer of the current object means backoff, after no more
   consecutive crashes than are allowed: a timer left behind would restart a
   stopped worker.  Conversely a key in backoff has its timer, otherwise it would
   be stranded; the exception is a timer that fired while the installation was
   disabled, and then a sweep that will visit the key is still to come. *)
BackoffHasTimer ==
  \A k \in Keys : Known(k) =>
    /\ Current(k) \in restartTimer =>
         state[k] = "backoff" /\ attempts[k] \in 1 .. MaxRestart
    /\ state[k] = "backoff" => Current(k) \in restartTimer \/ SweepDue(k)

(* Every live process is owned by its key or still being started, so that
   something will stop it; only a start() that fails after it was superseded
   can drop a newer object's handle without stopping the process. *)
NoOrphanProcess == live \subseteq pending \cup owns \cup dropped

(* Once stop() has visited a key the worker stays down until it is asked for
   again: no timer, crash callback or late success of start() revives it.  Only
   a start() that fails after the visit does. *)
StopSticks ==
  \A k \in stopped : k \in revived \/ state[k] \in {"stopped", "disabled"}

(* The same without the exception: what the tests "cancels a pending crash
   restart when the worker is stopped" and "ignores a stale crash callback
   after stop" say of stop(). *)
StopIsFinal == \A k \in stopped : state[k] \in {"stopped", "disabled"}

(* The count of consecutive crashes survives stops, replaced objects and
   rejected starts; only a stable run of the same object clears it. *)
CrashesForgottenOnlyByStableRun ==
  [][\A k \in Keys :
       attempts'[k] < attempts[k]
         => worker'[k] = worker[k] /\ state[k] = "running"]_vars

(* After an installation was disabled no process of it is left running, unless
   it is enabled again, but for those a late failure dropped. *)
DisabledQuiesces == []<>(installation = "installed" \/ live \subseteq dropped)
=============================================================================

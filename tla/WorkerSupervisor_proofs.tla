----------------------- MODULE WorkerSupervisor_proofs -----------------------
(***************************************************************************)
(* What WorkerSupervisor guarantees for every set of keys, every capacity  *)
(* and every number of restarts, proved with TLAPS.                        *)
(***************************************************************************)
EXTENDS WorkerSupervisor, FiniteSetTheorems, TLAPS

(* Everything that refers to a key does so after the key got its first object,
   and a worker that was ever started keeps an object for ever. *)
KnownKeys ==
  /\ \A r \in pending \cup restartTimer \cup stableTimer \cup owns : Known(r[1])
  /\ \A v \in visits : Known(v[2])
  /\ \A k \in Keys : state[k] # "stopped" => Known(k)

Typed == TypeOK /\ KnownKeys

LEMMA RecordsFacts ==
  /\ \A r \in Records : r[1] \in Keys /\ r[2] \in Slots /\ r = <<r[1], r[2]>>
  /\ \A k \in Keys, s \in Slots : <<k, s>> \in Records
BY DEF Records

LEMMA CurrentFacts ==
  ASSUME TypeOK, NEW k \in Keys, Known(k)
  PROVE  Current(k) \in Records /\ Current(k)[1] = k /\ IsCurrent(Current(k))
BY DEF TypeOK, Known, Current, IsCurrent, Records

LEMMA BumpFacts ==
  ASSUME NEW n \in Attempts
  PROVE  Bump(n) \in Attempts /\ n <= Bump(n) /\ Bump(n) >= 1
BY ConstantsAssumption DEF Attempts, Bump

(* The case analysis of a step, shared by the invariance proofs. *)
LEMMA StepCases ==
  ASSUME Next
  PROVE  \/ \E k \in Keys : Start(k)
         \/ \E r \in Records : FactoryReady(r)
         \/ \E r \in Records : FactoryFail(r)
         \/ \E r \in Records : ProcessCrash(r)
         \/ \E r \in Records : ProcessExit(r)
         \/ \E r \in Records : IdleTimeout(r)
         \/ \E r \in Records : RestartTimeout(r)
         \/ \E r \in Records : StableTimeout(r)
         \/ Stop
         \/ \E m \in Modes : OwedSweep(m)
         \/ \E m \in Modes, k \in Keys : Visit(m, k)
         \/ Disable \/ Enable \/ Uninstall
BY DEF Next

LEMMA BeginStartTyped ==
  ASSUME Typed, NEW k \in Keys, BeginStart(k)
  PROVE  \E s \in Slots \ {worker[k]} :
           /\ <<k, s>> \notin pending \cup idleTimer \cup restartTimer \cup stableTimer \cup live
           /\ <<k, s>> \in Records
           /\ worker' = [worker EXCEPT ![k] = s]
           /\ \/ /\ Cardinality(Active) < MaxActive
                 /\ state' = [state EXCEPT ![k] = "starting"]
                 /\ pending' = pending \cup {<<k, s>>}
                 /\ live' = live \cup {<<k, s>>}
              \/ /\ state' = [state EXCEPT ![k] = "failed"]
                 /\ pending' = pending
                 /\ live' = live
           /\ attempts' = attempts
<1>1. FreeSlots(k) # {}
  BY DEF BeginStart
<1> DEFINE s == CHOOSE x \in FreeSlots(k) : TRUE
<1>2. s \in FreeSlots(k)
  BY <1>1
<1>3. /\ s \in Slots \ {worker[k]}
      /\ <<k, s>> \notin pending \cup idleTimer \cup restartTimer \cup stableTimer \cup live
  BY <1>2 DEF FreeSlots
<1>4. attempts' = attempts
  BY DEF BeginStart, Inherited, Typed, TypeOK
<1>5. /\ worker' = [worker EXCEPT ![k] = s]
      /\ \/ /\ Cardinality(Active) < MaxActive
            /\ state' = [state EXCEPT ![k] = "starting"]
            /\ pending' = pending \cup {<<k, s>>}
            /\ live' = live \cup {<<k, s>>}
         \/ /\ state' = [state EXCEPT ![k] = "failed"]
            /\ pending' = pending
            /\ live' = live
  BY DEF BeginStart
<1> HIDE DEF s
<1>6. <<k, s>> \in Records
  BY <1>3, RecordsFacts
<1> QED
  BY <1>3, <1>4, <1>5, <1>6

LEMMA BeginStartKeepsTypes ==
  ASSUME Typed, NEW k \in Keys, BeginStart(k)
  PROVE  /\ worker' \in [Keys -> Slots \cup {NoSlot}]
         /\ state' \in [Keys -> WorkerState]
         /\ attempts' = attempts
         /\ pending' \subseteq Records /\ live' \subseteq Records
         /\ \A j \in Keys : Known(j) => Known(j)'
         /\ \A j \in Keys : state'[j] # "stopped" => Known(j)'
         /\ \A r \in pending' : Known(r[1])'
<1>1. PICK s \in Slots \ {worker[k]} :
           /\ <<k, s>> \in Records
           /\ worker' = [worker EXCEPT ![k] = s]
           /\ \/ /\ state' = [state EXCEPT ![k] = "starting"]
                 /\ pending' = pending \cup {<<k, s>>}
                 /\ live' = live \cup {<<k, s>>}
              \/ /\ state' = [state EXCEPT ![k] = "failed"]
                 /\ pending' = pending
                 /\ live' = live
           /\ attempts' = attempts
  BY BeginStartTyped
<1>2. worker' \in [Keys -> Slots \cup {NoSlot}] /\ state' \in [Keys -> WorkerState]
  BY <1>1 DEF Typed, TypeOK, WorkerState
<1>3. pending' \subseteq Records /\ live' \subseteq Records
  BY <1>1 DEF Typed, TypeOK
<1>4. /\ \A j \in Keys : Known(j) => Known(j)'
      /\ Known(k)'
  BY <1>1, ConstantsAssumption DEF Typed, TypeOK, Known
<1>5. \A j \in Keys : state'[j] # "stopped" => Known(j)'
  BY <1>1, <1>4 DEF Typed, TypeOK, KnownKeys
<1>6. \A r \in pending' : Known(r[1])'
  BY <1>1, <1>4, RecordsFacts DEF Typed, TypeOK, KnownKeys
<1> QED
  BY <1>1, <1>2, <1>3, <1>4, <1>5, <1>6

LEMMA CrashedTyped ==
  ASSUME Typed, NEW k \in Keys, Known(k), Crashed(k)
  PROVE  /\ attempts' \in [Keys -> Attempts]
         /\ state' \in [Keys -> WorkerState]
         /\ state'[k] \in {"backoff", "disabled", "failed"}
         /\ \A j \in Keys \ {k} : state'[j] = state[j]
         /\ owns' \subseteq owns
         /\ idleTimer' \subseteq idleTimer
         /\ stableTimer' \subseteq stableTimer
         /\ restartTimer' \subseteq restartTimer \cup {Current(k)}
<1>1. Bump(attempts[k]) \in Attempts
  BY BumpFacts DEF Typed, TypeOK
<1> QED
  BY <1>1 DEF Crashed, Typed, TypeOK, WorkerState

LEMMA InitTyped == Init => Typed
BY ConstantsAssumption DEF Init, Typed, TypeOK, KnownKeys, WorkerState, Attempts, Known, Modes

(* Every step keeps the types and the fact that keys in use are known. *)
LEMMA NextTyped == Typed /\ [Next]_vars => Typed'
<1> SUFFICES ASSUME Typed, [Next]_vars
             PROVE  Typed'
  OBVIOUS
<1> USE DEF Modes
<1>1. ASSUME NEW k \in Keys, Start(k)
      PROVE  Typed'
  <2>1. BeginStart(k)
    BY <1>1 DEF Start
  <2> QED
    BY <1>1, <2>1, BeginStartKeepsTypes, RecordsFacts
       DEF Start, timers, Typed, TypeOK, KnownKeys
<1>2. ASSUME NEW r \in Records, FactoryReady(r)
      PROVE  Typed'
  BY <1>2, RecordsFacts DEF FactoryReady, history, Typed, TypeOK, KnownKeys, Known, WorkerState
<1>3. ASSUME NEW r \in Records, FactoryFail(r)
      PROVE  Typed'
  <2> DEFINE k == r[1]
  <2>1. k \in Keys /\ Known(k) /\ Crashed(k)
    BY <1>3, RecordsFacts DEF FactoryFail, Typed, KnownKeys
  <2>2. Current(k) \in Records /\ Current(k)[1] = k
    BY <2>1, CurrentFacts DEF Typed
  <2> QED
    BY <1>3, <2>1, <2>2, CrashedTyped DEF FactoryFail, Typed, TypeOK, KnownKeys, Known
<1>4. ASSUME NEW r \in Records, ProcessCrash(r)
      PROVE  Typed'
  <2>1. CASE IsCurrent(r) /\ r \in owns
    <3> DEFINE k == r[1]
    <3>1. k \in Keys /\ Known(k) /\ Crashed(k)
      BY <1>4, <2>1, RecordsFacts DEF ProcessCrash, Typed, KnownKeys
    <3>2. Current(k) \in Records /\ Current(k)[1] = k
      BY <3>1, CurrentFacts DEF Typed
    <3> QED
      BY <1>4, <3>1, <3>2, CrashedTyped DEF ProcessCrash, Typed, TypeOK, KnownKeys, Known
  <2>2. CASE ~(IsCurrent(r) /\ r \in owns)
    BY <1>4, <2>2 DEF ProcessCrash, timers, Typed, TypeOK, KnownKeys, Known
  <2> QED
    BY <2>1, <2>2
<1>5. ASSUME NEW r \in Records, ProcessExit(r)
      PROVE  Typed'
  BY <1>5 DEF ProcessExit, timers, Typed, TypeOK, KnownKeys, Known
<1>6. ASSUME NEW r \in Records, IdleTimeout(r)
      PROVE  Typed'
  BY <1>6 DEF IdleTimeout, StopHandle, history, Typed, TypeOK, KnownKeys, Known, WorkerState
<1>7. ASSUME NEW r \in Records, RestartTimeout(r)
      PROVE  Typed'
  <2>1. CASE BeginStart(r[1])
    BY <1>7, <2>1, BeginStartKeepsTypes, RecordsFacts
       DEF RestartTimeout, history, Typed, TypeOK, KnownKeys
  <2>2. CASE UNCHANGED <<worker, attempts, state, pending, live>>
    BY <1>7, <2>2 DEF RestartTimeout, history, Typed, TypeOK, KnownKeys, Known
  <2> QED
    BY <1>7, <2>1, <2>2 DEF RestartTimeout
<1>8. ASSUME NEW r \in Records, StableTimeout(r)
      PROVE  Typed'
  <2>1. 0 \in Attempts
    BY ConstantsAssumption DEF Attempts
  <2>2. attempts' \in [Keys -> Attempts]
    BY <1>8, <2>1 DEF StableTimeout, Typed, TypeOK
  <2> QED
    BY <1>8, <2>2 DEF StableTimeout, history, Typed, TypeOK, KnownKeys, Known
<1>9. ASSUME NEW m \in Modes, BeginSweep(m), owed' \subseteq owed,
             UNCHANGED <<installation, worker, state, attempts, owns, timers, pending, live, history>>
      PROVE  Typed'
  BY <1>9 DEF BeginSweep, timers, history, Typed, TypeOK, KnownKeys, Known
<1>10. ASSUME Stop
       PROVE  Typed'
  BY <1>9, <1>10 DEF Stop, Typed, TypeOK
<1>11. ASSUME NEW m \in Modes, OwedSweep(m)
       PROVE  Typed'
  BY <1>9, <1>11 DEF OwedSweep
<1>12. ASSUME NEW m \in Modes, NEW k \in Keys, Visit(m, k)
       PROVE  Typed'
  BY <1>12 DEF Visit, ClearTimers, StopHandle, Typed, TypeOK, KnownKeys, Known, WorkerState
<1>13. ASSUME Disable \/ Enable \/ Uninstall
       PROVE  Typed'
  BY <1>13 DEF Disable, Enable, Uninstall, ChangeStatus, timers, history, Typed, TypeOK, KnownKeys, Known
<1>14. CASE UNCHANGED vars
  BY <1>14 DEF vars, Typed, TypeOK, KnownKeys, Known
<1> QED
  BY <1>1, <1>2, <1>3, <1>4, <1>5, <1>6, <1>7, <1>8, <1>10, <1>11, <1>12, <1>13, <1>14, StepCases

(* The maps, timers and suspended calls keep their types. *)
THEOREM TypeCorrect == Spec => []TypeOK
<1>1. Typed => TypeOK
  BY DEF Typed
<1> QED
  BY InitTyped, NextTyped, <1>1, PTL DEF Spec

-----------------------------------------------------------------------------
(***************************************************************************)
(* Handles.  RunningOwnsHandle is inductive together with the types: an    *)
(* object can only be replaced when it owns no handle.                     *)
(***************************************************************************)
LEMMA CrashedOwns ==
  ASSUME Typed, RunningOwnsHandle, NEW k \in Keys, Known(k), Crashed(k), UNCHANGED worker
  PROVE  RunningOwnsHandle'
<1>1. \A r \in Records : r[1] = k /\ IsCurrent(r) => r = Current(k)
  BY RecordsFacts DEF IsCurrent, Current
<1>2. Current(k) \notin owns' /\ Current(k) \notin idleTimer'
  BY DEF Crashed
<1>3. \A r \in Records :
        r # Current(k) => /\ (r \in owns') <=> (r \in owns)
                          /\ (r \in idleTimer') <=> (r \in idleTimer)
  BY DEF Crashed
<1>4. state'[k] # "running" /\ \A j \in Keys \ {k} : state'[j] = state[j]
  BY CrashedTyped
<1>5. Current(k)[1] = k
  BY DEF Current
<1>6. ASSUME NEW r \in Records
      PROVE  /\ (r \in owns') <=> (IsCurrent(r) /\ state'[r[1]] = "running")
             /\ (r \in idleTimer') <=> (r \in owns')
  <2>1. CASE r = Current(k)
    BY <2>1, <1>2, <1>4, <1>5
  <2> USE DEF RunningOwnsHandle
  <2>2. CASE r # Current(k) /\ r[1] = k
    <3>1. ~IsCurrent(r)
      BY <2>2, <1>1
    <3>2. r \notin owns /\ r \notin idleTimer
      BY <3>1
    <3> QED
      BY <2>2, <3>1, <3>2, <1>3
  <2>3. CASE r[1] # k
    <3>1. state'[r[1]] = state[r[1]] /\ r # Current(k)
      BY <2>3, <1>4, <1>5, RecordsFacts
    <3>2. /\ r \in owns <=> IsCurrent(r) /\ state[r[1]] = "running"
          /\ r \in idleTimer <=> r \in owns
      OBVIOUS
    <3> QED
      BY <3>1, <3>2, <1>3
  <2> QED
    BY <2>1, <2>2, <2>3
<1> QED
  BY <1>6 DEF RunningOwnsHandle, IsCurrent

LEMMA BeginStartOwns ==
  ASSUME Typed, RunningOwnsHandle, NEW k \in Keys, BeginStart(k), UNCHANGED <<owns, idleTimer>>
  PROVE  RunningOwnsHandle'
<1>1. PICK s \in Slots \ {worker[k]} :
           /\ worker' = [worker EXCEPT ![k] = s]
           /\ \/ state' = [state EXCEPT ![k] = "starting"]
              \/ state' = [state EXCEPT ![k] = "failed"]
  BY BeginStartTyped
<1>2. state[k] \notin {"starting", "running"}
  BY DEF BeginStart
<1> QED
  BY <1>1, <1>2, RecordsFacts DEF RunningOwnsHandle, IsCurrent, Typed, TypeOK

(* Stopping the current object of a key: timers, handle and state together. *)
LEMMA StopOwns ==
  ASSUME Typed, RunningOwnsHandle, NEW k \in Keys, NEW st \in WorkerState \ {"running"},
         idleTimer' = idleTimer \ {Current(k)}, owns' = owns \ {Current(k)},
         state' = [state EXCEPT ![k] = st], UNCHANGED worker
  PROVE  RunningOwnsHandle'
<1>1. \A r \in Records : r[1] = k /\ IsCurrent(r) => r = Current(k)
  BY RecordsFacts DEF IsCurrent, Current
<1>2. Current(k)[1] = k
  BY DEF Current
<1> QED
  BY <1>1, <1>2, RecordsFacts DEF RunningOwnsHandle, IsCurrent, Typed, TypeOK

LEMMA NextOwns == Typed /\ RunningOwnsHandle /\ [Next]_vars => RunningOwnsHandle'
<1> SUFFICES ASSUME Typed, RunningOwnsHandle, [Next]_vars
             PROVE  RunningOwnsHandle'
  OBVIOUS
<1> USE DEF Modes
<1>1. ASSUME NEW k \in Keys, Start(k)
      PROVE  RunningOwnsHandle'
  BY <1>1, BeginStartOwns DEF Start, timers
<1>2. ASSUME NEW r \in Records, FactoryReady(r)
      PROVE  RunningOwnsHandle'
  BY <1>2, RecordsFacts
     DEF FactoryReady, Adoptable, history, RunningOwnsHandle, IsCurrent, Typed, TypeOK
<1>3. ASSUME NEW r \in Records, FactoryFail(r)
      PROVE  RunningOwnsHandle'
  <2>1. r[1] \in Keys /\ Known(r[1]) /\ Crashed(r[1]) /\ UNCHANGED worker
    BY <1>3, RecordsFacts DEF FactoryFail, Typed, KnownKeys
  <2> QED
    BY <2>1, CrashedOwns
<1>4. ASSUME NEW r \in Records, ProcessCrash(r)
      PROVE  RunningOwnsHandle'
  <2>1. CASE IsCurrent(r) /\ r \in owns
    <3>1. r[1] \in Keys /\ Known(r[1]) /\ Crashed(r[1]) /\ UNCHANGED worker
      BY <1>4, <2>1, RecordsFacts DEF ProcessCrash, Typed, KnownKeys
    <3> QED
      BY <3>1, CrashedOwns
  <2>2. CASE ~(IsCurrent(r) /\ r \in owns)
    BY <1>4, <2>2 DEF ProcessCrash, timers, RunningOwnsHandle, IsCurrent
  <2> QED
    BY <2>1, <2>2
<1>5. ASSUME NEW r \in Records, ProcessExit(r)
      PROVE  RunningOwnsHandle'
  BY <1>5 DEF ProcessExit, timers, RunningOwnsHandle, IsCurrent
<1>6. ASSUME NEW r \in Records, IdleTimeout(r)
      PROVE  RunningOwnsHandle'
  <2>1. r \in owns /\ IsCurrent(r)
    BY <1>6 DEF IdleTimeout, RunningOwnsHandle
  <2>2. r = Current(r[1]) /\ r[1] \in Keys
    BY <2>1, RecordsFacts DEF IsCurrent, Current
  <2> QED
    BY <1>6, <2>2, StopOwns DEF IdleTimeout, StopHandle, WorkerState
<1>7. ASSUME NEW r \in Records, RestartTimeout(r)
      PROVE  RunningOwnsHandle'
  <2>1. CASE BeginStart(r[1])
    BY <1>7, <2>1, BeginStartOwns, RecordsFacts DEF RestartTimeout
  <2>2. CASE UNCHANGED <<worker, attempts, state, pending, live>>
    BY <1>7, <2>2 DEF RestartTimeout, RunningOwnsHandle, IsCurrent
  <2> QED
    BY <1>7, <2>1, <2>2 DEF RestartTimeout
<1>8. ASSUME NEW r \in Records, StableTimeout(r)
      PROVE  RunningOwnsHandle'
  BY <1>8 DEF StableTimeout, RunningOwnsHandle, IsCurrent
<1>9. ASSUME Stop \/ (\E m \in Modes : OwedSweep(m)) \/ Disable \/ Enable \/ Uninstall
      PROVE  RunningOwnsHandle'
  BY <1>9 DEF Stop, OwedSweep, Disable, Enable, Uninstall, ChangeStatus, timers,
              RunningOwnsHandle, IsCurrent
<1>10. ASSUME NEW m \in Modes, NEW k \in Keys, Visit(m, k)
       PROVE  RunningOwnsHandle'
  <2>1. PICK st \in {"disabled", "stopped"} : state' = [state EXCEPT ![k] = st]
    BY <1>10 DEF Visit
  <2>2. st \in WorkerState \ {"running"}
    BY DEF WorkerState
  <2> QED
    BY <1>10, <2>1, <2>2, StopOwns DEF Visit, ClearTimers, StopHandle
<1>11. CASE UNCHANGED vars
  BY <1>11 DEF vars, RunningOwnsHandle, IsCurrent
<1> QED
  BY <1>1, <1>2, <1>3, <1>4, <1>5, <1>6, <1>7, <1>8, <1>9, <1>10, <1>11, StepCases

(* At any time a handle is owned, and its idle timer armed, exactly by the
   current running object of its key. *)
THEOREM HandlesOwned == Spec => []RunningOwnsHandle
<1>1. Init => RunningOwnsHandle
  BY DEF Init, RunningOwnsHandle, IsCurrent, Records
<1> QED
  BY InitTyped, NextTyped, <1>1, NextOwns, PTL DEF Spec

-----------------------------------------------------------------------------
(***************************************************************************)
(* Processes and stops.  Both facts follow step by step from the           *)
(* ownership of handles.                                                   *)
(***************************************************************************)
HandleInv == Typed /\ RunningOwnsHandle

(* What BeginStart does, as far as processes and states are concerned. *)
LEMMA BeginStartEffect ==
  ASSUME HandleInv, NEW k \in Keys, BeginStart(k)
  PROVE  /\ \E r \in Records :
              (live' = live \cup {r} /\ pending' = pending \cup {r}) \/ UNCHANGED <<live, pending>>
         /\ \A j \in Keys \ {k} : state'[j] = state[j] /\ worker'[j] = worker[j]
         /\ state'[k] \in {"starting", "failed"}
         /\ state[k] \notin {"starting", "running"}
<1>1. PICK s \in Slots \ {worker[k]} :
           /\ <<k, s>> \in Records
           /\ worker' = [worker EXCEPT ![k] = s]
           /\ \/ /\ state' = [state EXCEPT ![k] = "starting"]
                 /\ pending' = pending \cup {<<k, s>>}
                 /\ live' = live \cup {<<k, s>>}
              \/ /\ state' = [state EXCEPT ![k] = "failed"]
                 /\ pending' = pending
                 /\ live' = live
  BY BeginStartTyped DEF HandleInv
<1>2. state'[k] \in {"starting", "failed"}
  BY <1>1 DEF HandleInv, Typed, TypeOK
<1>3. \A j \in Keys \ {k} : state'[j] = state[j] /\ worker'[j] = worker[j]
  BY <1>1 DEF HandleInv, Typed, TypeOK
<1>4. state[k] \notin {"starting", "running"}
  BY DEF BeginStart
<1>5. \E r \in Records :
        (live' = live \cup {r} /\ pending' = pending \cup {r}) \/ UNCHANGED <<live, pending>>
  <2> DEFINE q == <<k, s>>
  <2>1. q \in Records
    BY <1>1
  <2>2. \/ live' = live \cup {q} /\ pending' = pending \cup {q}
        \/ live' = live /\ pending' = pending
    BY <1>1
  <2> HIDE DEF q
  <2> QED
    BY <2>1, <2>2
<1> QED
  BY <1>2, <1>3, <1>4, <1>5

LEMMA NextNoOrphan == HandleInv /\ NoOrphanProcess /\ [Next]_vars => NoOrphanProcess'
<1> SUFFICES ASSUME HandleInv, NoOrphanProcess, [Next]_vars
             PROVE  NoOrphanProcess'
  OBVIOUS
<1> USE DEF NoOrphanProcess
<1>1. ASSUME NEW k \in Keys, Start(k)
      PROVE  NoOrphanProcess'
  BY <1>1, BeginStartEffect DEF Start
<1>2. ASSUME NEW r \in Records, FactoryReady(r)
      PROVE  NoOrphanProcess'
  BY <1>2 DEF FactoryReady, history
<1>3. ASSUME NEW r \in Records, FactoryFail(r)
      PROVE  NoOrphanProcess'
  <2>1. CASE IsCurrent(r) /\ state[r[1]] = "starting"
    <3>1. Current(r[1]) = r
      BY <2>1, RecordsFacts DEF IsCurrent, Current
    <3>2. owns' = owns \ {r} /\ live' = live \ {r} /\ pending' = pending \ {r} /\ dropped' = dropped
      BY <1>3, <2>1, <3>1 DEF FactoryFail, Crashed
    <3> QED
      BY <3>2
  <2>2. CASE ~(IsCurrent(r) /\ state[r[1]] = "starting")
    BY <1>3, <2>2 DEF FactoryFail, Crashed
  <2> QED
    BY <2>1, <2>2
<1>4. ASSUME NEW r \in Records, ProcessCrash(r)
      PROVE  NoOrphanProcess'
  <2>1. CASE IsCurrent(r) /\ r \in owns
    <3>1. Current(r[1]) = r
      BY <2>1, RecordsFacts DEF IsCurrent, Current
    <3> QED
      BY <1>4, <2>1, <3>1 DEF ProcessCrash, Crashed
  <2>2. CASE ~(IsCurrent(r) /\ r \in owns)
    BY <1>4, <2>2 DEF ProcessCrash
  <2> QED
    BY <2>1, <2>2
<1>5. ASSUME NEW r \in Records, ProcessExit(r)
      PROVE  NoOrphanProcess'
  BY <1>5 DEF ProcessExit
<1>6. ASSUME NEW r \in Records, IdleTimeout(r)
      PROVE  NoOrphanProcess'
  BY <1>6 DEF IdleTimeout, StopHandle, history
<1>7. ASSUME NEW r \in Records, RestartTimeout(r)
      PROVE  NoOrphanProcess'
  BY <1>7, BeginStartEffect, RecordsFacts DEF RestartTimeout, history
<1>8. ASSUME NEW r \in Records, StableTimeout(r)
      PROVE  NoOrphanProcess'
  BY <1>8 DEF StableTimeout, history
<1>9. ASSUME Stop \/ (\E m \in Modes : OwedSweep(m)) \/ Disable \/ Enable \/ Uninstall
      PROVE  NoOrphanProcess'
  BY <1>9 DEF Stop, OwedSweep, Disable, Enable, Uninstall, ChangeStatus, history
<1>10. ASSUME NEW m \in Modes, NEW k \in Keys, Visit(m, k)
       PROVE  NoOrphanProcess'
  BY <1>10 DEF Visit, StopHandle
<1>11. CASE UNCHANGED vars
  BY <1>11 DEF vars
<1> QED
  BY <1>1, <1>2, <1>3, <1>4, <1>5, <1>6, <1>7, <1>8, <1>9, <1>10, <1>11, StepCases

(* No process is left that nothing will stop, but for the handles that a late
   failure drops. *)
THEOREM ProcessesAccountedFor == Spec => []NoOrphanProcess
<1>1. Init => HandleInv /\ NoOrphanProcess
  BY InitTyped DEF Init, HandleInv, NoOrphanProcess, RunningOwnsHandle, IsCurrent, Records
<1>2. HandleInv /\ [Next]_vars => HandleInv'
  BY NextTyped, NextOwns DEF HandleInv
<1> QED
  BY <1>1, <1>2, NextNoOrphan, PTL DEF Spec

(* A key that stop() visited is not revived by anything but a late failure:
   every other change of its state starts from a state that is already excluded. *)
LEMMA NextSticks == HandleInv /\ StopSticks /\ [Next]_vars => StopSticks'
<1> SUFFICES ASSUME HandleInv, StopSticks, [Next]_vars
             PROVE  StopSticks'
  OBVIOUS
<1> USE DEF StopSticks
<1>0. stopped \subseteq Keys
  BY DEF HandleInv, Typed, TypeOK
<1>1. ASSUME NEW k \in Keys, Start(k)
      PROVE  StopSticks'
  <2>1. \A j \in Keys \ {k} : state'[j] = state[j]
    BY <1>1, BeginStartEffect DEF Start
  <2> QED
    BY <1>0, <1>1, <2>1 DEF Start
<1>2. ASSUME NEW r \in Records, FactoryReady(r)
      PROVE  StopSticks'
  <2>1. CASE Adoptable(r) /\ state' = [state EXCEPT ![r[1]] = "running"]
    BY <1>0, <1>2, <2>1 DEF FactoryReady, Adoptable, history, HandleInv, Typed, TypeOK
  <2>2. CASE state' = state
    BY <1>2, <2>2 DEF FactoryReady, history
  <2> QED
    BY <1>2, <2>1, <2>2 DEF FactoryReady
<1>3. ASSUME NEW r \in Records, FactoryFail(r)
      PROVE  StopSticks'
  <2>1. r[1] \in Keys /\ Known(r[1]) /\ Crashed(r[1])
    BY <1>3, RecordsFacts DEF FactoryFail, HandleInv, Typed, KnownKeys
  <2>2. \A j \in Keys \ {r[1]} : state'[j] = state[j]
    BY <2>1, CrashedTyped DEF HandleInv
  <2>3. stopped' = stopped /\ revived \subseteq revived'
    BY <1>3 DEF FactoryFail
  <2>4. r[1] \in stopped => r[1] \in revived'
    BY <1>3 DEF FactoryFail
  <2> QED
    BY <1>0, <2>2, <2>3, <2>4
<1>4. ASSUME NEW r \in Records, ProcessCrash(r)
      PROVE  StopSticks'
  <2>1. CASE IsCurrent(r) /\ r \in owns
    <3>1. r[1] \in Keys /\ Known(r[1]) /\ Crashed(r[1])
      BY <1>4, <2>1, RecordsFacts DEF ProcessCrash, HandleInv, Typed, KnownKeys
    <3>2. \A j \in Keys \ {r[1]} : state'[j] = state[j]
      BY <3>1, CrashedTyped DEF HandleInv
    <3>3. state[r[1]] = "running"
      BY <2>1 DEF HandleInv, RunningOwnsHandle
    <3> QED
      BY <1>0, <1>4, <3>2, <3>3 DEF ProcessCrash
  <2>2. CASE ~(IsCurrent(r) /\ r \in owns)
    BY <1>4, <2>2 DEF ProcessCrash
  <2> QED
    BY <2>1, <2>2
<1>5. ASSUME NEW r \in Records, ProcessExit(r)
      PROVE  StopSticks'
  BY <1>5 DEF ProcessExit
<1>6. ASSUME NEW r \in Records, IdleTimeout(r)
      PROVE  StopSticks'
  BY <1>0, <1>6, RecordsFacts DEF IdleTimeout, history, HandleInv, Typed, TypeOK
<1>7. ASSUME NEW r \in Records, RestartTimeout(r)
      PROVE  StopSticks'
  <2>1. CASE state[r[1]] = "backoff" /\ BeginStart(r[1])
    <3>1. \A j \in Keys \ {r[1]} : state'[j] = state[j]
      BY <2>1, BeginStartEffect, RecordsFacts
    <3> QED
      BY <1>0, <1>7, <2>1, <3>1 DEF RestartTimeout, history
  <2>2. CASE UNCHANGED state
    BY <1>7, <2>2 DEF RestartTimeout, history
  <2> QED
    BY <1>7, <2>1, <2>2 DEF RestartTimeout
<1>8. ASSUME NEW r \in Records, StableTimeout(r)
      PROVE  StopSticks'
  BY <1>8 DEF StableTimeout, history
<1>9. ASSUME Stop \/ (\E m \in Modes : OwedSweep(m)) \/ Disable \/ Enable \/ Uninstall
      PROVE  StopSticks'
  BY <1>9 DEF Stop, OwedSweep, Disable, Enable, Uninstall, ChangeStatus, history
<1>10. ASSUME NEW m \in Modes, NEW k \in Keys, Visit(m, k)
       PROVE  StopSticks'
  <2>1. \E st \in {"disabled", "stopped"} : state' = [state EXCEPT ![k] = st]
    BY <1>10 DEF Visit
  <2>2. stopped' = stopped \cup {k} /\ revived' = revived \ {k}
    BY <1>10 DEF Visit
  <2> QED
    BY <1>0, <2>1, <2>2 DEF HandleInv, Typed, TypeOK
<1>11. CASE UNCHANGED vars
  BY <1>11 DEF vars
<1> QED
  BY <1>1, <1>2, <1>3, <1>4, <1>5, <1>6, <1>7, <1>8, <1>9, <1>10, <1>11, StepCases

(* What stop() took down stays down until it is asked for again, or a start()
   that was already under way fails. *)
THEOREM StopsStick == Spec => []StopSticks
<1>1. Init => HandleInv /\ StopSticks
  BY InitTyped DEF Init, HandleInv, StopSticks, RunningOwnsHandle, IsCurrent, Records
<1>2. HandleInv /\ [Next]_vars => HandleInv'
  BY NextTyped, NextOwns DEF HandleInv
<1> QED
  BY <1>1, <1>2, NextSticks, PTL DEF Spec

-----------------------------------------------------------------------------
(***************************************************************************)
(* Capacity.  Only BeginStart makes a key active, and it counts first.     *)
(***************************************************************************)
LEMMA ActiveFinite == IsFiniteSet(Active) /\ Cardinality(Active) \in Nat
<1>1. IsFiniteSet(Keys) /\ Active \subseteq Keys
  BY ConstantsAssumption DEF Active
<1> QED
  BY <1>1, FS_Subset, FS_CardinalityType

LEMMA FewerActive ==
  ASSUME Active' \subseteq Active, Cardinality(Active) <= MaxActive
  PROVE  Cardinality(Active') <= MaxActive
<1>1. Cardinality(Active') \in Nat /\ Cardinality(Active') <= Cardinality(Active)
  BY ActiveFinite, FS_Subset, FS_CardinalityType
<1> QED
  BY <1>1, ActiveFinite, ConstantsAssumption

LEMMA BeginStartCapacity ==
  ASSUME HandleInv, NEW k \in Keys, BeginStart(k), Cardinality(Active) <= MaxActive
  PROVE  Cardinality(Active') <= MaxActive
<1>1. CASE Cardinality(Active) < MaxActive
  <2>1. Active' \subseteq Active \cup {k}
    BY BeginStartEffect DEF Active
  <2>2. /\ IsFiniteSet(Active \cup {k})
        /\ Cardinality(Active \cup {k}) \in {Cardinality(Active), Cardinality(Active) + 1}
    BY ActiveFinite, FS_AddElement
  <2>3. Cardinality(Active') \in Nat /\ Cardinality(Active') <= Cardinality(Active \cup {k})
    BY <2>1, <2>2, FS_Subset, FS_CardinalityType
  <2> QED
    BY <1>1, <2>2, <2>3, ActiveFinite, ConstantsAssumption
<1>2. CASE ~(Cardinality(Active) < MaxActive)
  <2>1. state' = [state EXCEPT ![k] = "failed"]
    BY <1>2 DEF BeginStart
  <2>2. Active' \subseteq Active
    BY <2>1 DEF Active, HandleInv, Typed, TypeOK
  <2> QED
    BY <2>2, FewerActive
<1> QED
  BY <1>1, <1>2

LEMMA NextCapacity == HandleInv /\ CapacityRespected /\ [Next]_vars => CapacityRespected'
<1> SUFFICES ASSUME HandleInv, Cardinality(Active) <= MaxActive, [Next]_vars
             PROVE  Cardinality(Active') <= MaxActive
  BY DEF CapacityRespected, Active
<1> USE DEF HandleInv, Typed, TypeOK
<1>1. ASSUME NEW k \in Keys, Start(k)
      PROVE  Cardinality(Active') <= MaxActive
  BY <1>1, BeginStartCapacity DEF Start
<1>2. ASSUME NEW r \in Records, FactoryReady(r)
      PROVE  Active' \subseteq Active
  BY <1>2, RecordsFacts DEF FactoryReady, Adoptable, Active
<1>3. ASSUME NEW k \in Keys, Known(k), Crashed(k)
      PROVE  Active' \subseteq Active
  BY <1>3, CrashedTyped DEF Active
<1>4. ASSUME NEW r \in Records, FactoryFail(r) \/ ProcessCrash(r)
      PROVE  Active' \subseteq Active
  <2>1. CASE Crashed(r[1]) /\ r \in pending \cup owns
    <3>1. r[1] \in Keys /\ Known(r[1])
      BY <2>1, RecordsFacts DEF KnownKeys
    <3> QED
      BY <2>1, <3>1, <1>3
  <2>2. CASE state' = state
    BY <2>2 DEF Active
  <2> QED
    BY <1>4, <2>1, <2>2 DEF FactoryFail, ProcessCrash
<1>5. ASSUME NEW r \in Records, RestartTimeout(r)
      PROVE  Cardinality(Active') <= MaxActive
  <2>1. CASE BeginStart(r[1])
    BY <2>1, BeginStartCapacity, RecordsFacts
  <2>2. CASE state' = state
    BY <2>2 DEF Active
  <2> QED
    BY <1>5, <2>1, <2>2 DEF RestartTimeout
<1>6. ASSUME NEW k \in Keys, NEW st \in {"stopped", "disabled"}, state' = [state EXCEPT ![k] = st]
      PROVE  Active' \subseteq Active
  BY <1>6 DEF Active
<1>7. ASSUME NEW r \in Records, IdleTimeout(r)
      PROVE  Active' \subseteq Active
  BY <1>6, <1>7, RecordsFacts DEF IdleTimeout
<1>8. ASSUME NEW m \in Modes, NEW k \in Keys, Visit(m, k)
      PROVE  Active' \subseteq Active
  <2>1. \E st \in {"stopped", "disabled"} : state' = [state EXCEPT ![k] = st]
    BY <1>8 DEF Visit
  <2> QED
    BY <2>1, <1>6
<1>9. ASSUME \/ \E r \in Records : ProcessExit(r) \/ StableTimeout(r)
             \/ Stop \/ \E m \in Modes : OwedSweep(m)
             \/ Disable \/ Enable \/ Uninstall \/ UNCHANGED vars
      PROVE  Active' \subseteq Active
  BY <1>9 DEF ProcessExit, StableTimeout, Stop, OwedSweep, Disable, Enable, Uninstall,
              ChangeStatus, vars, Active
<1> QED
  BY <1>1, <1>2, <1>4, <1>5, <1>7, <1>8, <1>9, StepCases, FewerActive

(* However starts, restarts and crashes of an installation's keys interleave, no
   more of them are starting or running than its capacity. *)
THEOREM CapacityKept == Spec => []CapacityRespected
<1>1. Init => HandleInv /\ CapacityRespected
  <2>1. ASSUME Init
        PROVE  CapacityRespected
    <3>1. {k \in Keys : state[k] \in {"starting", "running"}} = {}
      BY <2>1 DEF Init
    <3> QED
      BY <3>1, FS_EmptySet, ConstantsAssumption DEF CapacityRespected
  <2>2. Init => RunningOwnsHandle
    BY DEF Init, RunningOwnsHandle, IsCurrent, Records
  <2> QED
    BY <2>1, <2>2, InitTyped DEF HandleInv
<1>2. HandleInv /\ [Next]_vars => HandleInv'
  BY NextTyped, NextOwns DEF HandleInv
<1> QED
  BY <1>1, <1>2, NextCapacity, PTL DEF Spec

(* A count of consecutive crashes goes down only when a stable run of the same
   object ends. *)
THEOREM CrashesForgiven == Spec => CrashesForgottenOnlyByStableRun
<1> DEFINE Kept == \A k \in Keys :
             attempts'[k] < attempts[k] => worker'[k] = worker[k] /\ state[k] = "running"
<1>1. ASSUME Typed, [Next]_vars
      PROVE  Kept
  <2> USE <1>1 DEF Typed, TypeOK
  <2>1. ASSUME attempts' = attempts
        PROVE  Kept
    BY <2>1, ConstantsAssumption DEF Attempts
  <2>2. ASSUME NEW r \in Records, FactoryFail(r) \/ ProcessCrash(r)
        PROVE  Kept
    <3>1. CASE Crashed(r[1])
      <4>1. /\ r[1] \in Keys
            /\ attempts' = [attempts EXCEPT ![r[1]] = Bump(attempts[r[1]])]
        BY <3>1, RecordsFacts DEF Crashed
      <4>2. attempts[r[1]] <= Bump(attempts[r[1]]) /\ Bump(attempts[r[1]]) \in Attempts
        BY <4>1, BumpFacts
      <4>3. \A k \in Keys : attempts[k] <= attempts'[k]
        BY <4>1, <4>2, ConstantsAssumption DEF Attempts
      <4>4. \A k \in Keys : attempts'[k] \in Nat /\ attempts[k] \in Nat
        BY <4>1, <4>2, ConstantsAssumption DEF Attempts
      <4> QED
        BY <4>3, <4>4
    <3>2. CASE attempts' = attempts
      BY <3>2, <2>1
    <3> QED
      BY <2>2, <3>1, <3>2 DEF FactoryFail, ProcessCrash
  <2>3. ASSUME NEW r \in Records, StableTimeout(r)
        PROVE  Kept
    <3>1. CASE IsCurrent(r) /\ state[r[1]] = "running"
      <4>1. /\ attempts' = [attempts EXCEPT ![r[1]] = 0] /\ worker' = worker
        BY <2>3, <3>1 DEF StableTimeout
      <4> QED
        BY <3>1, <4>1, ConstantsAssumption DEF Attempts
    <3>2. CASE attempts' = attempts
      BY <3>2, <2>1
    <3> QED
      BY <2>3, <3>1, <3>2 DEF StableTimeout
  <2>4. ASSUME NEW k \in Keys, BeginStart(k)
        PROVE  Kept
    BY <2>4, <2>1, BeginStartTyped
  <2>5. ASSUME NEW r \in Records, RestartTimeout(r)
        PROVE  Kept
    BY <2>1, <2>4, <2>5, RecordsFacts DEF RestartTimeout
  <2>6. ASSUME \/ \E r \in Records : FactoryReady(r) \/ ProcessExit(r) \/ IdleTimeout(r)
               \/ Stop \/ \E m \in Modes : OwedSweep(m) \/ \E k \in Keys : Visit(m, k)
               \/ Disable \/ Enable \/ Uninstall \/ UNCHANGED vars
        PROVE  Kept
    BY <2>1, <2>6 DEF FactoryReady, ProcessExit, IdleTimeout, Stop, OwedSweep, Visit,
                      Disable, Enable, Uninstall, ChangeStatus, vars
  <2> QED
    BY <1>1, <2>2, <2>3, <2>4, <2>5, <2>6, StepCases DEF Start
<1>2. Typed /\ [Next]_vars => [Kept]_vars
  BY <1>1
<1> QED
  BY <1>2, InitTyped, NextTyped, PTL DEF Spec, CrashesForgottenOnlyByStableRun

-----------------------------------------------------------------------------
(***************************************************************************)
(* Backoff.  BackoffHasTimer alone is not inductive: Enable would break it *)
(* after a restart timer fired in vain.  While the installation is not     *)
(* available, a key in backoff always has a sweep to come.                 *)
(***************************************************************************)
BackoffAt(k) ==
  /\ Known(k) /\ Current(k) \in restartTimer =>
       state[k] = "backoff" /\ attempts[k] \in 1 .. MaxRestart
  /\ state[k] = "backoff" =>
       (Current(k) \in restartTimer /\ ~Unavailable) \/ SweepDue(k)

Backoffs == \A k \in Keys : BackoffAt(k)

(* A key that the step leaves alone. *)
LEMMA BackoffFrame ==
  ASSUME NEW k \in Keys, BackoffAt(k),
         worker'[k] = worker[k], state'[k] = state[k], attempts'[k] = attempts[k],
         (Current(k) \in restartTimer') <=> (Current(k) \in restartTimer),
         UNCHANGED installation,
         state[k] = "backoff" /\ SweepDue(k) => SweepDue(k)'
  PROVE  BackoffAt(k)'
<1>1. Current(k)' = Current(k) /\ (Known(k)' <=> Known(k)) /\ (Unavailable' <=> Unavailable)
  BY DEF Current, Known, Unavailable
<1> QED
  BY <1>1 DEF BackoffAt

(* A key that the step takes out of backoff, or leaves out of it. *)
LEMMA NoBackoff ==
  ASSUME NEW k \in Keys, state'[k] # "backoff", Current(k)' \notin restartTimer'
  PROVE  BackoffAt(k)'
BY DEF BackoffAt

LEMMA OtherCurrent ==
  ASSUME NEW j \in Keys, NEW k \in Keys, j # k
  PROVE  Current(j) # Current(k)
BY DEF Current

LEMMA BeginStartBackoffs ==
  ASSUME Typed, Backoffs, NEW k \in Keys, BeginStart(k), restartTimer' \subseteq restartTimer,
         \A r \in restartTimer \ restartTimer' : r[1] = k,
         UNCHANGED <<installation, owed, visits>>
  PROVE  Backoffs'
<1>1. PICK s \in Slots \ {worker[k]} :
           /\ <<k, s>> \notin restartTimer
           /\ worker' = [worker EXCEPT ![k] = s]
           /\ \/ state' = [state EXCEPT ![k] = "starting"]
              \/ state' = [state EXCEPT ![k] = "failed"]
           /\ attempts' = attempts
  BY BeginStartTyped
<1>2. BackoffAt(k)'
  <2>1. Current(k)' = <<k, s>> /\ state'[k] \in {"starting", "failed"}
    BY <1>1 DEF Current, Typed, TypeOK
  <2> QED
    BY <1>1, <2>1, NoBackoff
<1>3. ASSUME NEW j \in Keys \ {k}
      PROVE  BackoffAt(j)'
  <2>1. worker'[j] = worker[j] /\ state'[j] = state[j] /\ attempts'[j] = attempts[j]
    BY <1>1 DEF Typed, TypeOK
  <2>2. (Current(j) \in restartTimer') <=> (Current(j) \in restartTimer)
    BY DEF Current
  <2>3. SweepDue(j)' <=> SweepDue(j)
    BY DEF SweepDue
  <2> QED
    BY <2>1, <2>2, <2>3, BackoffFrame DEF Backoffs
<1> QED
  BY <1>2, <1>3 DEF Backoffs

LEMMA CrashedBackoffs ==
  ASSUME Typed, Backoffs, NEW k \in Keys, Known(k), Crashed(k),
         UNCHANGED <<installation, worker, owed, visits>>
  PROVE  Backoffs'
<1>1. BackoffAt(k)'
  <2>1. Current(k)' = Current(k) /\ (Unavailable' <=> Unavailable)
    BY DEF Current, Unavailable
  <2> DEFINE n == Bump(attempts[k])
  <2>2. n \in Attempts /\ n >= 1
    BY BumpFacts DEF Typed, TypeOK
  <2>3. attempts'[k] = n
    BY DEF Crashed, Typed, TypeOK
  <2>4. CASE n <= MaxRestart /\ ~Unavailable
    <3>1. state'[k] = "backoff" /\ Current(k) \in restartTimer'
      BY <2>4 DEF Crashed, Typed, TypeOK
    <3>2. n \in 1 .. MaxRestart
      BY <2>2, <2>4, ConstantsAssumption DEF Attempts
    <3> QED
      BY <2>1, <2>3, <2>4, <3>1, <3>2 DEF BackoffAt
  <2>5. CASE ~(n <= MaxRestart /\ ~Unavailable)
    <3>1. state'[k] # "backoff" /\ Current(k) \notin restartTimer'
      BY <2>5 DEF Crashed, Typed, TypeOK
    <3> QED
      BY <2>1, <3>1, NoBackoff
  <2> QED
    BY <2>4, <2>5
<1>2. ASSUME NEW j \in Keys \ {k}
      PROVE  BackoffAt(j)'
  <2>1. state'[j] = state[j] /\ attempts'[j] = attempts[j] /\ worker'[j] = worker[j]
    BY DEF Crashed, Typed, TypeOK
  <2>2. (Current(j) \in restartTimer') <=> (Current(j) \in restartTimer)
    BY OtherCurrent DEF Crashed
  <2>3. SweepDue(j)' <=> SweepDue(j)
    BY DEF SweepDue
  <2> QED
    BY <2>1, <2>2, <2>3, BackoffFrame DEF Backoffs
<1> QED
  BY <1>1, <1>2 DEF Backoffs

LEMMA NextBackoffs == HandleInv /\ Backoffs /\ [Next]_vars => Backoffs'
<1> SUFFICES ASSUME HandleInv, Backoffs, [Next]_vars
             PROVE  Backoffs'
  OBVIOUS
<1>0. Typed /\ TypeOK /\ RunningOwnsHandle
  BY DEF HandleInv, Typed
<1>1. ASSUME NEW k \in Keys, Start(k)
      PROVE  Backoffs'
  BY <1>0, <1>1, BeginStartBackoffs DEF Start, timers
<1>2. ASSUME NEW r \in Records, FactoryReady(r)
      PROVE  Backoffs'
  <2>1. CASE Adoptable(r) /\ state' = [state EXCEPT ![r[1]] = "running"]
    <3>1. r[1] \in Keys /\ r = Current(r[1]) /\ Known(r[1])
      BY <1>0, <1>2, <2>1, RecordsFacts DEF FactoryReady, Adoptable, IsCurrent, Current, Typed, KnownKeys
    <3>2. Current(r[1]) \notin restartTimer
      BY <2>1, <3>1 DEF Adoptable, Backoffs, BackoffAt
    <3>3. BackoffAt(r[1])'
      <4>1. state'[r[1]] = "running" /\ Current(r[1])' = Current(r[1]) /\ restartTimer' = restartTimer
        BY <1>0, <1>2, <2>1, <3>1 DEF FactoryReady, Current, TypeOK
      <4> QED
        BY <3>1, <3>2, <4>1, NoBackoff
    <3>4. ASSUME NEW j \in Keys \ {r[1]}
          PROVE  BackoffAt(j)'
      <4>1. state'[j] = state[j]
        BY <1>0, <2>1 DEF TypeOK
      <4> QED
        BY <1>2, <4>1, BackoffFrame DEF FactoryReady, SweepDue, Backoffs
    <3> QED
      BY <3>3, <3>4 DEF Backoffs
  <2>2. CASE state' = state
    BY <1>2, <2>2, BackoffFrame DEF FactoryReady, SweepDue, Backoffs
  <2> QED
    BY <1>2, <2>1, <2>2 DEF FactoryReady
<1>3. ASSUME NEW r \in Records, FactoryFail(r)
      PROVE  Backoffs'
  <2>1. r[1] \in Keys /\ Known(r[1]) /\ Crashed(r[1])
    BY <1>0, <1>3, RecordsFacts DEF FactoryFail, Typed, KnownKeys
  <2> QED
    BY <1>0, <1>3, <2>1, CrashedBackoffs DEF FactoryFail
<1>4. ASSUME NEW r \in Records, ProcessCrash(r)
      PROVE  Backoffs'
  <2>1. CASE IsCurrent(r) /\ r \in owns
    <3>1. r[1] \in Keys /\ Known(r[1]) /\ Crashed(r[1])
      BY <1>0, <1>4, <2>1, RecordsFacts DEF ProcessCrash, Typed, KnownKeys
    <3> QED
      BY <1>0, <1>4, <3>1, CrashedBackoffs DEF ProcessCrash
  <2>2. CASE ~(IsCurrent(r) /\ r \in owns)
    BY <1>4, <2>2, BackoffFrame DEF ProcessCrash, timers, SweepDue, Backoffs
  <2> QED
    BY <2>1, <2>2
<1>5. ASSUME NEW k \in Keys, NEW st \in WorkerState \ {"backoff"},
             state' = [state EXCEPT ![k] = st], Current(k) \notin restartTimer',
             restartTimer \ {Current(k)} \subseteq restartTimer', restartTimer' \subseteq restartTimer,
             \A j \in Keys \ {k} : SweepDue(j) => SweepDue(j)',
             UNCHANGED <<installation, worker, attempts>>
      PROVE  Backoffs'
  <2>1. BackoffAt(k)'
    <3>1. state'[k] # "backoff" /\ Current(k)' = Current(k)
      BY <1>0, <1>5 DEF Current, TypeOK
    <3> QED
      BY <1>5, <3>1, NoBackoff
  <2>2. ASSUME NEW j \in Keys \ {k}
        PROVE  BackoffAt(j)'
    <3>1. state'[j] = state[j] /\ Current(j) # Current(k)
      BY <1>0, <1>5, OtherCurrent DEF TypeOK
    <3> QED
      BY <1>5, <3>1, BackoffFrame DEF Backoffs
  <2> QED
    BY <2>1, <2>2 DEF Backoffs
<1>6. ASSUME NEW r \in Records, IdleTimeout(r)
      PROVE  Backoffs'
  <2>1. r[1] \in Keys /\ state[r[1]] = "running" /\ Known(r[1])
    BY <1>0, <1>6, RecordsFacts DEF IdleTimeout, RunningOwnsHandle, Typed, KnownKeys
  <2>2. Current(r[1]) \notin restartTimer
    BY <2>1 DEF Backoffs, BackoffAt
  <2> QED
    BY <1>5, <1>6, <2>1, <2>2 DEF IdleTimeout, SweepDue, WorkerState
<1>7. ASSUME NEW r \in Records, RestartTimeout(r)
      PROVE  Backoffs'
  <2>1. r[1] \in Keys
    BY RecordsFacts
  <2>2. CASE BeginStart(r[1])
    BY <1>0, <1>7, <2>1, <2>2, BeginStartBackoffs DEF RestartTimeout
  <2>3. CASE /\ ~(IsCurrent(r) /\ state[r[1]] = "backoff" /\ ~Unavailable)
             /\ UNCHANGED <<worker, attempts, state, pending, live>>
    <3>1. ASSUME NEW j \in Keys
          PROVE  BackoffAt(j)'
      <4>1. UNCHANGED <<installation, owed, visits, worker, state, attempts>>
        BY <1>7, <2>3 DEF RestartTimeout
      <4>2. SweepDue(j)' <=> SweepDue(j)
        BY <4>1 DEF SweepDue
      <4>3. CASE r # Current(j)
        <5>1. (Current(j) \in restartTimer') <=> (Current(j) \in restartTimer)
          BY <1>7, <4>3 DEF RestartTimeout
        <5> QED
          BY <4>1, <4>2, <5>1, BackoffFrame DEF Backoffs
      <4>4. CASE r = Current(j)
        <5>1. r[1] = j /\ IsCurrent(r) /\ Current(j)' = Current(j) /\ Current(j) \notin restartTimer'
          BY <1>7, <4>1, <4>4 DEF Current, IsCurrent, RestartTimeout
        <5>2. state[j] = "backoff" => SweepDue(j)
          BY <2>3, <5>1 DEF Backoffs, BackoffAt
        <5> QED
          BY <4>1, <4>2, <5>1, <5>2 DEF BackoffAt
      <4> QED
        BY <4>3, <4>4
    <3> QED
      BY <3>1 DEF Backoffs
  <2> QED
    BY <1>7, <2>2, <2>3 DEF RestartTimeout
<1>8. ASSUME NEW r \in Records, StableTimeout(r)
      PROVE  Backoffs'
  <2>1. ASSUME NEW j \in Keys
        PROVE  BackoffAt(j)'
    <3>1. UNCHANGED <<installation, owed, visits, worker, state, restartTimer>>
      BY <1>8 DEF StableTimeout
    <3>2. SweepDue(j)' <=> SweepDue(j)
      BY <3>1 DEF SweepDue
    <3>3. CASE attempts'[j] = attempts[j]
      BY <3>1, <3>2, <3>3, BackoffFrame DEF Backoffs
    <3>4. CASE state[j] = "running"
      <4>1. Current(j)' = Current(j) /\ (Known(j)' <=> Known(j))
        BY <3>1 DEF Current, Known
      <4>2. Known(j) /\ Current(j) \notin restartTimer
        BY <1>0, <3>4 DEF Backoffs, BackoffAt, Typed, KnownKeys
      <4> QED
        BY <3>1, <3>4, <4>1, <4>2, NoBackoff
    <3> QED
      BY <1>0, <1>8, <3>3, <3>4, RecordsFacts DEF StableTimeout, TypeOK
  <2> QED
    BY <2>1 DEF Backoffs
<1>9. ASSUME UNCHANGED <<installation, worker, state, attempts, restartTimer>>,
             \A j \in Keys : Known(j) /\ SweepDue(j) => SweepDue(j)'
      PROVE  Backoffs'
  <2>1. \A j \in Keys : state[j] = "backoff" => Known(j)
    BY <1>0 DEF Typed, KnownKeys
  <2> QED
    BY <1>9, <2>1, BackoffFrame DEF Backoffs
<1>10. ASSUME NEW r \in Records, ProcessExit(r)
       PROVE  Backoffs'
  BY <1>9, <1>10 DEF ProcessExit, timers, SweepDue
<1>11. ASSUME Stop
       PROVE  Backoffs'
  <2>1. visits \subseteq visits' /\ owed' = owed
    BY <1>11 DEF Stop, BeginSweep
  <2>2. \A j \in Keys : SweepDue(j) => SweepDue(j)'
    BY <2>1 DEF SweepDue
  <2> QED
    BY <1>9, <1>11, <2>2 DEF Stop, timers
<1>12. ASSUME NEW m \in Modes, OwedSweep(m)
       PROVE  Backoffs'
  <2>1. visits \subseteq visits' /\ owed' = owed \ {m}
    BY <1>12 DEF OwedSweep, BeginSweep
  <2>2. \A j \in Keys : Known(j) => <<m, j>> \in visits'
    BY <1>12 DEF OwedSweep, BeginSweep
  <2>3. \A j \in Keys : Known(j) /\ SweepDue(j) => SweepDue(j)'
    BY <2>1, <2>2 DEF SweepDue
  <2> QED
    BY <1>9, <1>12, <2>3 DEF OwedSweep, timers
<1>13. ASSUME NEW m \in Modes, NEW k \in Keys, Visit(m, k)
       PROVE  Backoffs'
  <2>1. PICK st \in {"disabled", "stopped"} : state' = [state EXCEPT ![k] = st]
    BY <1>13 DEF Visit
  <2>2. st \in WorkerState \ {"backoff"}
    BY DEF WorkerState
  <2>3. \A j \in Keys \ {k} : SweepDue(j) => SweepDue(j)'
    BY <1>13 DEF Visit, SweepDue
  <2> QED
    BY <1>5, <1>13, <2>1, <2>2, <2>3 DEF Visit, ClearTimers
<1>14. ASSUME Disable \/ Enable \/ Uninstall
       PROVE  Backoffs'
  <2>1. UNCHANGED <<worker, state, attempts, restartTimer, visits>> /\ owed \subseteq owed'
    BY <1>14 DEF Disable, Enable, Uninstall, ChangeStatus, timers
  <2>2. Unavailable' => Unavailable \/ "disable" \in owed'
    BY <1>14 DEF Disable, Enable, Uninstall, ChangeStatus, Unavailable
  <2>3. ASSUME NEW j \in Keys
        PROVE  BackoffAt(j)'
    <3>1. Current(j)' = Current(j) /\ (Known(j)' <=> Known(j))
      BY <2>1 DEF Current, Known
    <3>2. SweepDue(j) \/ "disable" \in owed' => SweepDue(j)'
      BY <2>1 DEF SweepDue
    <3> QED
      BY <2>1, <2>2, <3>1, <3>2 DEF Backoffs, BackoffAt
  <2> QED
    BY <2>3 DEF Backoffs
<1>15. CASE UNCHANGED vars
  BY <1>9, <1>15 DEF vars, SweepDue
<1> QED
  BY <1>1, <1>2, <1>3, <1>4, <1>6, <1>7, <1>8, <1>10, <1>11, <1>12, <1>13, <1>14, <1>15, StepCases

(* A restart timer always means backoff, within the allowed crashes, and no key
   is stranded in backoff. *)
THEOREM BackoffsSound == Spec => []BackoffHasTimer
<1>1. Init => HandleInv /\ Backoffs
  BY InitTyped DEF Init, HandleInv, Backoffs, BackoffAt, RunningOwnsHandle, IsCurrent, Records
<1>2. HandleInv /\ [Next]_vars => HandleInv'
  BY NextTyped, NextOwns DEF HandleInv
<1>3. Backoffs => BackoffHasTimer
  BY DEF Backoffs, BackoffAt, BackoffHasTimer
<1> QED
  BY <1>1, <1>2, <1>3, NextBackoffs, PTL DEF Spec
=============================================================================

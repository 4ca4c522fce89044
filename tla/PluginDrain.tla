---------------------------- MODULE PluginDrain ----------------------------
(***************************************************************************)
(* PluginDrainManager (src/src/plugin-drain.ts) for one installation: work *)
(* holds leases, an upgrade begins to drain, no lease is given meanwhile,  *)
(* and the upgrade waits until the last lease is back or a timer fires.    *)
(*                                                                         *)
(* Definitions named Faulty... are never used by the specification: each   *)
(* is a plausible fault of the definition that follows it.                 *)
(***************************************************************************)
EXTENDS Naturals, FiniteSets

VARIABLES
  active,       \* leases given and not released
  draining,     \* begin() was called, resume() was not
  waiters       \* calls suspended in waitForIdle()

drain == <<active, draining, waiters>>

DrainInit == active = 0 /\ draining = FALSE /\ waiters = {}

Acquire ==
  /\ ~draining
  /\ active' = active + 1
  /\ UNCHANGED <<draining, waiters>>

FaultyRelease ==
  /\ active' = active - 1
  /\ waiters' = {}
  /\ UNCHANGED draining

(* The last lease that comes back wakes every waiter. *)
Release ==
  /\ active' = active - 1
  /\ waiters' = IF active = 1 THEN {} ELSE waiters
  /\ UNCHANGED draining

(* begin(), and waitForIdle() which returns at once when nothing is active. *)
BeginDrain(u) ==
  /\ ~draining
  /\ draining' = TRUE
  /\ waiters' = IF active = 0 THEN waiters ELSE waiters \cup {u}
  /\ UNCHANGED active

FaultyGiveUp(u) ==
  /\ u \in waiters
  /\ waiters' = waiters \ {u}
  /\ UNCHANGED <<active, draining>>

(* The timer of a waiter fires; its caller resumes at once. *)
GiveUp(u) ==
  /\ u \in waiters
  /\ waiters' = waiters \ {u}
  /\ draining' = FALSE
  /\ UNCHANGED active

Resume ==
  /\ draining' = FALSE
  /\ waiters' = IF active = 0 THEN {} ELSE waiters
  /\ UNCHANGED active
=============================================================================

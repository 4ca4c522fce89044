------------------------- MODULE MCWorkerSupervisor -------------------------
(* WorkerSupervisor on an installation used by one user scope, or by two. *)
EXTENDS WorkerSupervisor, TLC

CONSTANTS u1, u2

OneKey == {u1}
TwoKeys == {u1, u2}
TwoSlots == 1 .. 2
ThreeSlots == 1 .. 3

Users == Permutations(TwoKeys)

(* No action reads the history variables. *)
WithoutHistory ==
  <<installation, worker, state, attempts, owns, idleTimer, restartTimer,
    stableTimer, pending, live, owed, visits>>
=============================================================================

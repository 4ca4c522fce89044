--------------------------- MODULE MCBrowserTasks ---------------------------
(* BrowserTasks with two sessions of one user, two tasks and two runners.
   Nothing tells sessions, browsers or runners apart. *)
EXTENDS BrowserTasks, TLC

CONSTANTS s1, s2, b1, b2, ann, scheduler, admin

MCSessions == {s1, s2}
MCBrowsers == {b1, b2}
MCUsers == {ann}
MCOwner == [s \in MCSessions |-> ann]
MCRunners == {scheduler, admin}
Symmetric == Permutations(MCSessions) \cup Permutations(MCBrowsers) \cup Permutations(MCRunners)
=============================================================================

--------------------------- MODULE BrowserWorkers ---------------------------
(***************************************************************************)
(* BrowserWorkerManager (src/src/browser-worker-manager.ts): at most one   *)
(* started or starting browser per browser session, shared by the tasks of *)
(* the session, and calls that stop the browsers of some sessions.         *)
(*                                                                         *)
(* A browser is a launch of Chromium by browser-worker-driver.ts.  The     *)
(* scopes of a browser and their targets are one with its session: a task  *)
(* with another target is refused like any other failing handler.          *)
(*                                                                         *)
(* Definitions named Faulty... are never used by the specification: each   *)
(* is a plausible fault of the definition that follows it.                 *)
(***************************************************************************)
EXTENDS Naturals, FiniteSets

CONSTANTS
  Sessions,
  Browsers,     \* browsers that can exist at once (bound)
  MaxStops,     \* stop calls that can be under way at once (bound)
  None

ASSUME WorkersAssumption == None \notin Browsers \cup Sessions /\ MaxStops \in Nat

VARIABLES
  browser,      \* browser[b]: [at, session]
  worker,       \* worker[s]: the manager's entry of session s
  pending,      \* pending[s]: the start of session s that is awaited
  stops         \* calls suspended in stopSession, stopUser, stopInstallation

manager == <<browser, worker, pending, stops>>

BrowserStates == {"off", "launching", "open", "dead", "closing"}
Stops == [group : SUBSET Sessions, awaits : SUBSET Browsers]

Off == [at |-> "off", session |-> None]

ManagerInit ==
  /\ browser = [b \in Browsers |-> Off]
  /\ worker = [s \in Sessions |-> None]
  /\ pending = [s \in Sessions |-> None]
  /\ stops = {}

(* acquire(): who finds neither a worker nor a start begins one. *)
Startable(s) == worker[s] = None /\ pending[s] = None

BeginLaunch(s, b) ==
  /\ Startable(s)
  /\ browser[b] = Off /\ \A x \in stops : b \notin x.awaits
  /\ browser' = [browser EXCEPT ![b] = [at |-> "launching", session |-> s]]
  /\ pending' = [pending EXCEPT ![s] = b]
  /\ UNCHANGED <<worker, stops>>

(* The start settles: whoever awaits it goes on. *)
Launched(b) ==
  /\ browser[b].at = "launching"
  /\ browser' = [browser EXCEPT ![b].at = "open"]
  /\ pending' = [pending EXCEPT ![browser[b].session] = None]
  /\ worker' = [worker EXCEPT ![browser[b].session] = b]
  /\ UNCHANGED stops

LaunchFailed(b) ==
  /\ browser[b].at = "launching"
  /\ browser' = [browser EXCEPT ![b] = Off]
  /\ pending' = [pending EXCEPT ![browser[b].session] = None]
  /\ UNCHANGED <<worker, stops>>

FaultyStop(G) == [group |-> G, awaits |-> {}]

(* A stop first waits for the starts that are under way. *)
Stop(G) == [group |-> G, awaits |-> {pending[s] : s \in G} \ {None}]

BeginStop(G) ==
  /\ Cardinality(stops) < MaxStops
  /\ stops' = stops \cup {Stop(G)}
  /\ UNCHANGED <<browser, worker, pending>>

(* Then it forgets the workers it finds, and closes their browsers. *)
FinishStop(x) ==
  /\ x \in stops
  /\ \A b \in x.awaits : browser[b].at # "launching"
  /\ browser' = [b \in Browsers |->
                   IF \E s \in x.group : worker[s] = b
                   THEN [browser[b] EXCEPT !.at = "closing"] ELSE browser[b]]
  /\ worker' = [s \in Sessions |-> IF s \in x.group THEN None ELSE worker[s]]
  /\ stops' = stops \ {x}
  /\ UNCHANGED pending

Closed(b) ==
  /\ browser[b].at = "closing"
  /\ browser' = [browser EXCEPT ![b] = Off]
  /\ UNCHANGED <<worker, pending, stops>>

(* Chromium exits by itself: the manager is not told and keeps the worker. *)
Dies(b) ==
  /\ browser[b].at = "open"
  /\ browser' = [browser EXCEPT ![b].at = "dead"]
  /\ UNCHANGED <<worker, pending, stops>>

ManagerCrash ==
  /\ browser' = [b \in Browsers |-> Off]
  /\ worker' = [s \in Sessions |-> None]
  /\ pending' = [s \in Sessions |-> None]
  /\ stops' = {}

-----------------------------------------------------------------------------
(* Types, and that the manager's two maps refer to browsers in the state and
   of the session they are kept for. *)
ManagerTypeOK ==
  /\ browser \in [Browsers -> [at : BrowserStates, session : Sessions \cup {None}]]
  /\ worker \in [Sessions -> Browsers \cup {None}]
  /\ pending \in [Sessions -> Browsers \cup {None}]
  /\ stops \subseteq Stops
  /\ \A s \in Sessions :
       /\ worker[s] # None => /\ browser[worker[s]].at \in {"open", "dead"}
                              /\ browser[worker[s]].session = s
       /\ pending[s] # None => browser[pending[s]] = [at |-> "launching", session |-> s]

(* No browser is lost: one that is launching or open is the start or the
   worker of its session, so that a later stop of the session finds it; and a
   session has one of them at most.  The browsers that a stop is still closing
   are in neither map: "one isolated Worker per scoped browser session" (the
   comment of BrowserWorkerManager) does not count them. *)
BrowsersAccountedFor ==
  /\ \A b \in Browsers :
       /\ browser[b].at = "launching" => pending[browser[b].session] = b
       /\ browser[b].at \in {"open", "dead"} => worker[browser[b].session] = b
  /\ \A s \in Sessions : worker[s] = None \/ pending[s] = None
=============================================================================

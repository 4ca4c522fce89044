----------------------------- MODULE NativeInstall -----------------------------
(* scripts/native-install-actions, -executor and -apply: a fixed sequence of     *)
(* commands on the host.  An "ensure" command is preceded by an inspection that  *)
(* skips it, lets it run or refuses the plan; the others are always run.  When   *)
(* a command fails the caller may have asked for the applied ones to be undone,  *)
(* last first.  The installer can die anywhere and be run again.                 *)
EXTENDS Nothing, Naturals, Sequences, SequencesExt

CONSTANTS
  Stages,      \* length of requiredCommandSequences of the platform
  Ensured,     \* the stages with idempotency "ensure": 1 on Linux, 4 on Windows
  Repeatable   \* the stages whose command succeeds on a target that exists

Outcomes == {"done", "failed", "refused", "handler-missing", "undone", "undo_failed", "died"}

ASSUME StagesAssumption ==
  /\ Stages \in Nat \ {0} /\ Ensured \subseteq 1..Stages /\ Repeatable \subseteq 1..Stages
  /\ None \notin Outcomes

StageNumbers == 1..Stages

States == {"missing", "matching", "mismatch"}

VARIABLES
  host,    \* what the target of each stage looks like on the host
  made,    \* stages whose target this execution put there
  touched, \* stages whose target somebody else changed during this execution
  execution      \* of the plan, by the executor

installation == <<host, made, touched, execution>>

NotInstalling == [phase |-> "none"]

NativeInit ==
  /\ host \in {h \in [StageNumbers -> States] :
                 \A i \in StageNumbers \ Ensured : h[i] = "missing"}
  /\ made = {} /\ touched = {}
  /\ execution = NotInstalling

(* applyNativeInstallPlan: --apply needs the confirmation, a rehearsal runs      *)
(* nothing.  Compensation is an option of executeNativeInstallActions alone.     *)
BeginInstall(undo) ==
  /\ execution.phase \in {"none", "ended"}
  /\ execution' = [phase |-> "stage", at |-> 1, ledger |-> <<>>, undo |-> undo, undone |-> <<>>, outcome |-> None]
  /\ made' = {} /\ touched' = {}
  /\ UNCHANGED host

ExecutionEnds(outcome) == execution' = [execution EXCEPT !.phase = "ended", !.outcome = outcome]

(* The next stage, or the end of the plan. *)
Entered(n, applied) ==
  LET ledger == Append(execution.ledger, [stage |-> n, applied |-> applied])
  IN execution' = IF n = Stages THEN [execution EXCEPT !.ledger = ledger, !.phase = "ended", !.outcome = "done"]
            ELSE [execution EXCEPT !.ledger = ledger, !.phase = "stage", !.at = n + 1]

(* A mismatch is thrown outside the try: nothing is reported and nothing undone. *)
Inspect ==
  /\ execution.phase = "stage"
  /\ CASE execution.at \notin Ensured \/ host[execution.at] = "missing" -> execution' = [execution EXCEPT !.phase = "run"]
       [] execution.at \in Ensured /\ host[execution.at] = "matching" -> Entered(execution.at, FALSE)
       [] OTHER -> ExecutionEnds("refused")
  /\ UNCHANGED <<host, made, touched>>

CommandSucceeds ==
  /\ execution.phase = "run"
  /\ execution.at \in Repeatable \/ host[execution.at] = "missing"
  /\ host' = [host EXCEPT ![execution.at] = "matching"]
  /\ made' = made \cup {execution.at}
  /\ Entered(execution.at, TRUE)
  /\ UNCHANGED touched

AppliedStages == {entry.stage : entry \in {e \in ToSet(execution.ledger) : e.applied}}

(* A command that fails has changed nothing or left its target half made. *)
CommandFails ==
  /\ execution.phase = "run"
  /\ \/ UNCHANGED host
     \/ host' = [host EXCEPT ![execution.at] = "mismatch"]
  /\ CASE execution.undo = "off" -> ExecutionEnds("failed")
       [] execution.undo = "no_handler" -> ExecutionEnds("handler-missing")
       [] OTHER -> execution' = [execution EXCEPT !.phase = "undo"]
  /\ UNCHANGED <<made, touched>>

(* Applied and not yet undone; the reverse order makes the next one the last.    *)
ToUndo == AppliedStages \ ToSet(execution.undone)

LastStage(S) == CHOOSE i \in S : \A k \in S : k <= i

Undo ==
  /\ execution.phase = "undo"
  /\ ToUndo # {}
  /\ LET last == LastStage(ToUndo)
     IN /\ host' = [host EXCEPT ![last] = "missing"]
        /\ made' = made \ {last}
        /\ execution' = [execution EXCEPT !.undone = Append(@, last)]
  /\ UNCHANGED touched

UndoFails ==
  /\ execution.phase = "undo"
  /\ ToUndo # {}
  /\ ExecutionEnds("undo_failed")
  /\ UNCHANGED <<host, made, touched>>

UndoEnds ==
  /\ execution.phase = "undo"
  /\ ToUndo = {}
  /\ ExecutionEnds("undone")
  /\ UNCHANGED <<host, made, touched>>

InstallerDies ==
  /\ execution.phase \notin {"none", "ended"}
  /\ ExecutionEnds("died")
  /\ UNCHANGED <<host, made, touched>>

(* An administrator, or another package, changes a target in the meantime. *)
Elsewhere(i, state) ==
  /\ host[i] # state
  /\ host' = [host EXCEPT ![i] = state]
  /\ made' = made \ {i}
  /\ touched' = touched \cup {i}
  /\ UNCHANGED execution

NativeNext ==
  \/ \E undo \in {"off", "handler", "no_handler"} : BeginInstall(undo)
  \/ Inspect \/ CommandSucceeds \/ CommandFails
  \/ Undo \/ UndoFails \/ UndoEnds \/ InstallerDies
  \/ \E i \in Ensured, state \in States : Elsewhere(i, state)

NativeSpec == NativeInit /\ [][NativeNext]_installation

--------------------------------------------------------------------------------
InstallTypeOK ==
  /\ host \in [StageNumbers -> States]
  /\ made \subseteq StageNumbers /\ touched \subseteq StageNumbers
  /\ \/ execution = NotInstalling
     \/ execution \in [phase : {"stage", "run", "undo", "ended"}, at : StageNumbers,
                 ledger : Seq([stage : StageNumbers, applied : BOOLEAN]),
                 undo : {"off", "handler", "no_handler"}, undone : Seq(StageNumbers),
                 outcome : Outcomes \cup {None}]

(* What an execution reports as applied and has not undone is what it made, so   *)
(* that an account which was there before is never taken for its own.            *)
LedgerIsTrue == execution # NotInstalling => ToUndo \ touched = made \ touched

(* The service is started last: every stage before it has its target in place.   *)
ServiceStartsLast ==
  execution # NotInstalling =>
    (Stages \in made => \A i \in StageNumbers \ touched : host[i] = "matching")

(* Compensation goes back from the last stage, so that what is left is always a  *)
(* prefix of the plan, and a completed one leaves nothing of this execution.     *)
UndoneInReverse ==
  execution # NotInstalling =>
    /\ \A i \in ToSet(execution.undone), k \in ToUndo : k < i
    /\ execution.outcome = "undone" => made = {}

(* The native installer: a true report, a service that starts on a finished      *)
(* installation, and a compensation that undoes its own stages, last first.      *)
InstallSound == InstallTypeOK /\ LedgerIsTrue /\ ServiceStartsLast /\ UndoneInReverse
================================================================================

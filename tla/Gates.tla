--------------------------------- MODULE Gates ---------------------------------
(***************************************************************************)
(* The two runners that decide whether a tree and a deployment may be      *)
(* released.  Each runs its stages one by one, in a process of its own     *)
(* under a time budget, and leaves a report beside its exit code.  The     *)
(* local gate stops at the first stage that does not pass and then looks   *)
(* for processes its stages left behind; the deployment gate goes through  *)
(* all stages, also those it cannot run.                                   *)
(***************************************************************************)
EXTENDS Naturals, Sequences, SequencesExt

CONSTANT Count       \* stages of a gate

VARIABLES
    gate,        \* "full" or "deployment"
    at,          \* "start", "stages", "cleanup" or "ended"
    results,     \* of the stages so far: [status, late]
    child,       \* the stage's process: "none", "running", or what its end reports
    timedOut,
    left,        \* processes the stages left behind: [watched, parent]
    report,      \* on disk: [of, status, cleanup]
    exit         \* the exit code; "none" before

gateVars == <<gate, at, results, child, timedOut, left, report, exit>>
GatesAssumption == Count \in Nat \ {0}

(* The parent a process is listed with is the one that started it, still   *)
(* alive; or the number of one that is gone; or, where the system hands an *)
(* orphan to another process or the number has been given out again,       *)
(* another that is listed.                                                 *)
Processes == [watched : BOOLEAN, parent : {"alive", "gone", "another"}]
Statuses == ToSet([i \in 1..Len(results) |-> results[i].status])
Stopped == Statuses \cap {"FAIL", "TIMEOUT"} # {}
Unmet == Statuses \cap {"PREREQUISITES_MISSING", "NOT_REACHED"} # {}

-----------------------------------------------------------------------------
(* One stage.  Its process may exit, be ended by a signal, fail to start,  *)
(* and leave a process behind whose parent is gone or still lives.  The    *)
(* timer fires once; what it kills may survive, and what has ended may not *)
(* have been heard of.                                                     *)

Leaves == left' = left \/ \E p \in Processes : left' = left \cup {p}
Spawn ==
    /\ at = "stages" /\ child = "none" /\ ~Stopped /\ Len(results) < Count
    /\ child' \in {"running", "error"} /\ timedOut' = FALSE
    /\ UNCHANGED <<gate, at, results, left, report, exit>>
StageEnds ==
    /\ child = "running"
    /\ child' \in {"0", "1", "signal"} /\ Leaves
    /\ UNCHANGED <<gate, at, results, timedOut, report, exit>>
KillTree == IF child = "running" THEN child' \in {"signal", "running"} /\ Leaves ELSE UNCHANGED <<child, left>>
Timer ==
    /\ child \notin {"none", "error"} /\ ~timedOut
    /\ timedOut' = TRUE /\ KillTree
    /\ UNCHANGED <<gate, at, results, report, exit>>

Adds(status) == results' = Append(results, [status |-> status, late |-> timedOut])
FinishByCode ==
    /\ child \in {"0", "1", "signal", "error"}
    /\ Adds(IF child = "0" THEN "PASS" ELSE "FAIL") /\ child' = "none"
    /\ UNCHANGED <<gate, at, timedOut, left, report, exit>>
Finish ==
    /\ child \in {"0", "1", "signal", "error"}
    /\ Adds(CASE timedOut -> "TIMEOUT" [] ~timedOut /\ child = "0" -> "PASS" [] OTHER -> "FAIL")
    /\ child' = "none"
    /\ UNCHANGED <<gate, at, timedOut, left, report, exit>>

(* The deployment gate names what it does not run.                         *)
Skip ==
    /\ gate = "deployment" /\ at = "stages" /\ child = "none" /\ Len(results) < Count
    /\ results' = Append(results, [status |-> IF Stopped THEN "NOT_REACHED" ELSE "PREREQUISITES_MISSING",
                                   late |-> FALSE])
    /\ UNCHANGED <<gate, at, child, timedOut, left, report, exit>>

-----------------------------------------------------------------------------
(* The gates.                                                              *)

Ends(code) == at' = "ended" /\ exit' = code
VerdictOfExecuted == IF Stopped THEN "FAIL" ELSE "PASS"
Verdict ==
    CASE Stopped -> "FAIL"
      [] ~Stopped /\ "PASS" \notin Statuses -> "FAIL"
      [] ~Stopped /\ "PASS" \in Statuses /\ Unmet -> "INCOMPLETE"
      [] OTHER -> "PASS"
FullStatus == IF Stopped THEN results[Len(results)].status ELSE "PASS"

StartFull ==         \* without npm's path or the list of deferred stages it throws
    /\ gate = "full" /\ at = "start"
    /\ \/ at' = "stages" /\ UNCHANGED exit
       \/ Ends("1")
    /\ UNCHANGED <<gate, results, child, timedOut, left, report>>
StartKeepingReport ==
    /\ gate = "deployment" /\ at = "start"
    /\ \/ at' = "stages" /\ UNCHANGED exit
       \/ Ends("1")
    /\ UNCHANGED <<gate, results, child, timedOut, left, report>>
StartDeployment ==   \* the self-test, the stages, then the report of an earlier run is removed
    /\ gate = "deployment" /\ at = "start"
    /\ \/ /\ at' = "stages" /\ report' = [of |-> "none", status |-> "none", cleanup |-> "none"]
          /\ UNCHANGED exit
       \/ Ends("1") /\ UNCHANGED report
    /\ UNCHANGED <<gate, results, child, timedOut, left>>

ReportFull ==
    /\ gate = "full" /\ at = "stages" /\ child = "none" /\ (Stopped \/ Len(results) = Count)
    /\ report' = [of |-> "this", status |-> FullStatus, cleanup |-> "none"]
    /\ at' = "cleanup"
    /\ UNCHANGED <<gate, results, child, timedOut, left, exit>>
FindOrphans == {p \in left : p.watched /\ p.parent = "gone"}
Cleanup ==           \* a listing that fails is no clean one
    /\ at = "cleanup"
    /\ \E listed \in BOOLEAN :
           LET clean == listed /\ FindOrphans = {}
           IN /\ report' = [report EXCEPT !.cleanup = IF clean THEN "PASS" ELSE "FAIL"]
              /\ Ends(IF clean /\ report.status = "PASS" THEN "0" ELSE "1")
    /\ UNCHANGED <<gate, results, child, timedOut, left>>
ReportDeployment ==
    /\ gate = "deployment" /\ at = "stages" /\ child = "none" /\ Len(results) = Count
    /\ report' = [of |-> "this", status |-> Verdict, cleanup |-> "none"]
    /\ Ends(IF Verdict = "PASS" THEN "0" ELSE "1")
    /\ UNCHANGED <<gate, results, child, timedOut, left>>

Dies ==              \* a crash or an interrupt; the stage's process is in a group of its own
    /\ at \in {"stages", "cleanup"}
    /\ Ends("1")
    /\ UNCHANGED <<gate, results, child, timedOut, left, report>>

-----------------------------------------------------------------------------
Init ==
    /\ gate \in {"full", "deployment"}
    /\ at = "start" /\ results = <<>> /\ child = "none" /\ timedOut = FALSE /\ left = {} /\ exit = "none"
    /\ report \in {[of |-> "none", status |-> "none", cleanup |-> "none"],
                   [of |-> "earlier", status |-> "PASS", cleanup |-> IF gate = "full" THEN "PASS" ELSE "none"]}
Next ==
    \/ StartFull \/ StartDeployment
    \/ Spawn \/ StageEnds \/ Timer \/ Finish \/ Skip
    \/ ReportFull \/ Cleanup \/ ReportDeployment \/ Dies

Spec == Init /\ [][Next]_gateVars

(* A zero exit code and a report that says PASS each mean that every stage *)
(* of this run was started, ended by itself with a zero code and in time;  *)
(* a clean report that every watched process left without the parent that  *)
(* started it is listed with another, as POSIX lists each of them: those   *)
(* the clean-up is meant to find, and does not.  Once the deployment gate  *)
(* has begun its stages, no report of an earlier run is there to be read   *)
(* as its own; of the local gate nothing says so.                          *)
Orphans == {p \in left : p.watched /\ p.parent # "alive"}
VerdictIsEarned ==
    /\ (exit = "0" \/ (report.of = "this" /\ report.status = "PASS")) =>
           Len(results) = Count /\ \A i \in 1..Count : results[i] = [status |-> "PASS", late |-> FALSE]
    /\ report.of = "this" /\ report.cleanup = "PASS" => \A p \in Orphans : p.parent = "another"
    /\ gate = "full" /\ exit = "0" => report.of = "this" /\ report.cleanup = "PASS"
    /\ gate = "deployment" /\ (at = "stages" \/ results # <<>>) => report.of # "earlier"
=============================================================================

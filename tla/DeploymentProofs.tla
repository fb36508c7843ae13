-------------------------- MODULE DeploymentProofs --------------------------
(***************************************************************************)
(* Theorems of the parts explored side by side in MCDeployment: the gates, *)
(* the rehearsal of recovery, tenants and scripts, provisioning, uploads,  *)
(* the workbench.                                                          *)
(***************************************************************************)
EXTENDS MCDeployment, SequenceTheorems, FiniteSetTheorems, TLAPS

-----------------------------------------------------------------------------
(* The gates.                                                              *)

Verdicts == {"PASS", "FAIL", "TIMEOUT", "PREREQUISITES_MISSING", "NOT_REACHED"}
StageResults == [status : Verdicts, late : BOOLEAN]

GateTyped ==
    /\ gate \in {"full", "deployment"} /\ stage \in {"start", "stages", "cleanup", "ended"}
    /\ results \in Seq(StageResults) /\ Len(results) <= Count
    /\ child \in {"none", "running", "0", "1", "signal", "error"} /\ timedOut \in BOOLEAN
    /\ filed \in [of : {"none", "earlier", "this"}, status : Verdicts \cup {"none", "INCOMPLETE"},
                  cleanup : {"none", "PASS", "FAIL"}]
    /\ exit \in {"none", "0", "1"} /\ strays \subseteq G!Processes

(* A stage that passed was in time; the local gate runs one only after all *)
(* before it have passed.                                                  *)
Passes ==
    /\ \A i \in 1 .. Len(results) : results[i].status = "PASS" => ~results[i].late
    /\ \A i \in 1 .. Len(results) : gate = "full" /\ (i < Len(results) \/ child # "none") => results[i].status = "PASS"
    /\ child # "none" => Len(results) < Count
    /\ child # "none" \/ Len(results) # 0 => stage # "start"

AllPassed == Len(results) = Count /\ \A i \in 1 .. Count : results[i].status = "PASS"

(* A report of this run is written when no stage runs any more, and is     *)
(* what the exit code follows.                                             *)
Reported ==
    /\ filed.of = "this" => child = "none" /\ stage \in {"cleanup", "ended"}
    /\ filed.of = "this" /\ filed.status = "PASS" => AllPassed
    /\ filed.of = "this" /\ filed.cleanup = "PASS" => G!FindOrphans = {}
    /\ exit = "0" => /\ stage = "ended" /\ filed.of = "this" /\ filed.status = "PASS"
                     /\ gate = "full" => filed.cleanup = "PASS"
    /\ stage = "cleanup" => gate = "full" /\ filed.of = "this" /\ filed.cleanup = "none"
    /\ gate = "deployment" /\ (stage = "stages" \/ child # "none" \/ Len(results) # 0) => filed.of # "earlier"

(* The local gate starts no stage it cannot run.                           *)
OfFull ==
    gate = "full" => \A i \in 1 .. Len(results) : results[i].status \notin {"PREREQUISITES_MISSING", "NOT_REACHED"}

GateInv == GateTyped /\ Passes /\ OfFull /\ Reported

LEMMA StatusesSeen ==
    ASSUME results \in Seq(StageResults)
    PROVE  \A s : s \in G!Statuses <=> \E i \in 1 .. Len(results) : results[i].status = s
  <1>1. Len(results) \in Nat
    BY LenProperties
  <1>2. DOMAIN [i \in 1 .. Len(results) |-> results[i].status] = 1 .. Len(results)
    OBVIOUS
  <1>3. QED
    BY <1>2 DEF G!Statuses, G!ToSet

LEMMA Passing ==
    ASSUME GateInv
    PROVE  /\ ~G!Stopped => \A i \in 1 .. Len(results) : results[i].status \notin {"FAIL", "TIMEOUT"}
           /\ ~G!Unmet => \A i \in 1 .. Len(results) : results[i].status \notin {"PREREQUISITES_MISSING", "NOT_REACHED"}
           /\ G!Stopped => \E i \in 1 .. Len(results) : results[i].status \in {"FAIL", "TIMEOUT"}
           /\ \A i \in 1 .. Len(results) : results[i].status \in Verdicts
           /\ Len(results) \in Nat
  <1>1. results \in Seq(StageResults) /\ Len(results) \in Nat
    BY LenProperties DEF GateInv, GateTyped
  <1>2. \A i \in 1 .. Len(results) : results[i].status \in Verdicts
    <2>1. \A i \in 1 .. Len(results) : results[i] \in StageResults
      BY <1>1, ElementOfSeq
    <2>2. QED
      BY <2>1 DEF StageResults
  <1>3. QED
    BY <1>1, <1>2, StatusesSeen DEF G!Stopped, G!Unmet

(* One more result, of which the guards of the callers say enough.         *)
LEMMA ResultAdded ==
    ASSUME GateInv, NEW s \in StageResults,
           results' = Append(results, s), UNCHANGED <<gate, stage, strays, filed, exit>>,
           child' = "none", timedOut' \in BOOLEAN, Len(results) < Count, stage # "start",
           s.status = "PASS" => ~s.late,
           filed.of # "this", gate = "deployment" => filed.of # "earlier",
           gate = "full" => s.status \notin {"PREREQUISITES_MISSING", "NOT_REACHED"},
           gate = "full" => \A i \in 1 .. Len(results) : results[i].status = "PASS"
    PROVE  GateInv'
  <1>1. PICK rs : rs = results'
    OBVIOUS
  <1>2. /\ rs \in Seq(StageResults) /\ Len(rs) = Len(results) + 1 /\ Len(results) \in Nat
        /\ rs[Len(results) + 1] = s /\ \A i \in 1 .. Len(results) : rs[i] = results[i]
    BY <1>1, AppendProperties, LenProperties DEF GateInv, GateTyped
  <1>3. GateTyped'
    BY <1>1, <1>2, DeploymentAssumption DEF GateInv, GateTyped, G!GatesAssumption
  <1>4. Passes'
    <2>1. \A i \in 1 .. Len(rs) : rs[i].status = "PASS" => ~rs[i].late
      BY <1>2 DEF GateInv, Passes
    <2>2. \A i \in 1 .. Len(rs) : gate = "full" /\ i < Len(rs) => rs[i].status = "PASS"
      BY <1>2
    <2>3. QED
      BY <1>1, <2>1, <2>2 DEF Passes
  <1>5. Reported' /\ OfFull'
    BY <1>1, <1>2 DEF GateInv, Reported, OfFull
  <1>6. QED
    BY <1>3, <1>4, <1>5 DEF GateInv

LEMMA GateStep ==
    ASSUME GateInv, [G!Next]_(G!gateVars)
    PROVE  GateInv'
  <1>0. Count \in Nat \ {0}
    BY DeploymentAssumption DEF G!GatesAssumption
  <1>1. CASE G!StartFull
    <2>1. /\ gate = "full" /\ stage = "start" /\ UNCHANGED <<gate, results, child, timedOut, strays, filed>>
          /\ \/ stage' = "stages" /\ exit' = exit
             \/ stage' = "ended" /\ exit' = "1"
      BY <1>1 DEF G!StartFull, G!Ends
    <2>2. GateTyped' /\ Passes' /\ OfFull'
      BY <2>1 DEF GateInv, GateTyped, Passes, OfFull
    <2>3. Reported'
      BY <2>1 DEF GateInv, GateTyped, Reported, G!FindOrphans, AllPassed
    <2>4. QED
      BY <2>2, <2>3 DEF GateInv
  <1>2. CASE G!StartDeployment
    <2>1. /\ gate = "deployment" /\ stage = "start" /\ UNCHANGED <<gate, results, child, timedOut, strays>>
          /\ \/ /\ stage' = "stages" /\ filed' = [of |-> "none", status |-> "none", cleanup |-> "none"]
                /\ exit' = exit
             \/ stage' = "ended" /\ exit' = "1" /\ filed' = filed
      BY <1>2 DEF G!StartDeployment, G!Ends
    <2>2. GateTyped' /\ Passes' /\ OfFull'
      BY <2>1 DEF GateInv, GateTyped, Passes, OfFull
    <2>3. Reported'
      BY <2>1 DEF GateInv, Passes, GateTyped, Reported, G!FindOrphans, AllPassed
    <2>4. QED
      BY <2>2, <2>3 DEF GateInv
  <1>3. CASE G!Spawn
    <2>1. /\ stage = "stages" /\ child = "none" /\ ~G!Stopped /\ Len(results) < Count
          /\ child' \in {"running", "error"} /\ timedOut' = FALSE
          /\ UNCHANGED <<gate, stage, results, strays, filed, exit>>
      BY <1>3 DEF G!Spawn
    <2>2. gate = "full" => \A i \in 1 .. Len(results) : results[i].status = "PASS"
      <3>1. SUFFICES ASSUME gate = "full", NEW i \in 1 .. Len(results), results[i].status # "PASS" PROVE FALSE
        OBVIOUS
      <3>2. i = Len(results)
        BY <3>1, Passing DEF GateInv, Passes
      <3>3. results[i].status \in {"PREREQUISITES_MISSING", "NOT_REACHED"}
        BY <2>1, <3>1, Passing DEF Verdicts
      <3>4. QED
        BY <3>1, <3>3 DEF GateInv, OfFull
    <2>3. GateTyped' /\ Passes'
      BY <2>1, <2>2 DEF GateInv, GateTyped, Passes
    <2>4. Reported'
      BY <2>1 DEF GateInv, Reported, AllPassed, G!FindOrphans
    <2>5. OfFull'
      BY <2>1 DEF GateInv, OfFull
    <2>6. QED
      BY <2>3, <2>4, <2>5 DEF GateInv
  <1>4. CASE G!StageEnds \/ G!Timer
    <2>1. /\ child \notin {"none", "error"} /\ child' \in {"running", "0", "1", "signal"} /\ timedOut' \in BOOLEAN
          /\ UNCHANGED <<gate, stage, results, filed, exit>> /\ strays' \subseteq G!Processes
      <3>1. G!Leaves => strays' \subseteq G!Processes
        BY DEF G!Leaves, GateInv, GateTyped
      <3>2. QED
        BY <1>4, <3>1 DEF G!StageEnds, G!Timer, G!KillTree, GateInv, GateTyped
    <2>2. GateTyped' /\ Passes'
      BY <2>1 DEF GateInv, GateTyped, Passes
    <2>3. Reported' /\ OfFull'
      BY <2>1 DEF GateInv, Reported, OfFull
    <2>4. QED
      BY <2>2, <2>3 DEF GateInv
  <1>5. CASE G!Finish
    <2> DEFINE status == CASE timedOut -> "TIMEOUT" [] ~timedOut /\ child = "0" -> "PASS" [] OTHER -> "FAIL"
    <2>1. /\ child \in {"0", "1", "signal", "error"} /\ child' = "none"
          /\ results' = Append(results, [status |-> status, late |-> timedOut])
          /\ UNCHANGED <<gate, stage, timedOut, strays, filed, exit>>
      BY <1>5 DEF G!Finish, G!Adds
    <2>2. status \in {"PASS", "FAIL", "TIMEOUT"} /\ (status = "PASS" => timedOut = FALSE) /\ timedOut \in BOOLEAN
      BY DEF GateInv, GateTyped
    <2> HIDE DEF status
    <2>3. PICK s : s = [status |-> status, late |-> timedOut]
      OBVIOUS
    <2>4. s \in StageResults /\ s.status = status /\ s.late = timedOut
      BY <2>2, <2>3 DEF StageResults, Verdicts
    <2>5. /\ Len(results) < Count /\ stage # "start" /\ filed.of # "this"
          /\ gate = "deployment" => filed.of # "earlier"
          /\ gate = "full" => \A i \in 1 .. Len(results) : results[i].status = "PASS"
      BY <2>1 DEF GateInv, Passes, Reported
    <2>6. QED
      BY <2>1, <2>2, <2>3, <2>4, <2>5, ResultAdded
  <1>6. CASE G!Skip
    <2> DEFINE status == IF G!Stopped THEN "NOT_REACHED" ELSE "PREREQUISITES_MISSING"
    <2>1. /\ gate = "deployment" /\ stage = "stages" /\ child = "none" /\ Len(results) < Count
          /\ results' = Append(results, [status |-> status, late |-> FALSE])
          /\ UNCHANGED <<gate, stage, child, timedOut, strays, filed, exit>>
      BY <1>6 DEF G!Skip
    <2>2. status \in {"NOT_REACHED", "PREREQUISITES_MISSING"}
      OBVIOUS
    <2> HIDE DEF status
    <2>3. PICK s : s = [status |-> status, late |-> FALSE]
      OBVIOUS
    <2>4. s \in StageResults /\ s.status = status /\ s.late = FALSE
      BY <2>2, <2>3 DEF StageResults, Verdicts
    <2>5. filed.of # "this" /\ filed.of # "earlier" /\ timedOut \in BOOLEAN
      BY <2>1 DEF GateInv, GateTyped, Reported
    <2>6. QED
      BY <2>1, <2>2, <2>3, <2>4, <2>5, ResultAdded
  <1>7. CASE G!ReportFull
    <2>1. /\ gate = "full" /\ stage = "stages" /\ child = "none" /\ (G!Stopped \/ Len(results) = Count)
          /\ filed' = [of |-> "this", status |-> G!FullStatus, cleanup |-> "none"]
          /\ stage' = "cleanup" /\ UNCHANGED <<gate, results, child, timedOut, strays, exit>>
      BY <1>7 DEF G!ReportFull
    <2>2. G!FullStatus \in Verdicts /\ (G!FullStatus = "PASS" => AllPassed)
      <3>1. CASE G!Stopped
        <4>1. PICK i \in 1 .. Len(results) : results[i].status \in {"FAIL", "TIMEOUT"}
          BY <3>1, Passing
        <4>2. i = Len(results)
          BY <2>1, <4>1, Passing DEF GateInv, Passes
        <4>3. QED
          BY <3>1, <4>1, <4>2 DEF G!FullStatus, Verdicts
      <3>2. CASE ~G!Stopped
        <4>1. Len(results) = Count /\ G!FullStatus = "PASS"
          BY <2>1, <3>2 DEF G!FullStatus
        <4>2. \A i \in 1 .. Count : results[i].status = "PASS"
          BY <2>1, <3>2, <4>1, Passing DEF Verdicts, GateInv, OfFull
        <4>3. QED
          BY <4>1, <4>2 DEF AllPassed, Verdicts
      <3>3. QED
        BY <3>1, <3>2
    <2>3. filed'.of = "this" /\ filed'.status = G!FullStatus /\ filed'.cleanup = "none"
      BY <2>1
    <2>4. GateTyped' /\ Passes' /\ OfFull'
      BY <2>1, <2>2 DEF GateInv, GateTyped, Passes, OfFull
    <2>5. Reported'
      BY <2>1, <2>2, <2>3 DEF GateInv, Reported, AllPassed
    <2>6. QED
      BY <2>4, <2>5 DEF GateInv
  <1>8. CASE G!Cleanup
    <2>1. PICK clean \in BOOLEAN :
             /\ clean => G!FindOrphans = {}
             /\ filed' = [filed EXCEPT !.cleanup = IF clean THEN "PASS" ELSE "FAIL"]
             /\ stage' = "ended" /\ exit' = IF clean /\ filed.status = "PASS" THEN "0" ELSE "1"
      BY <1>8 DEF G!Cleanup, G!Ends
    <2>2. stage = "cleanup" /\ UNCHANGED <<gate, results, child, timedOut, strays>>
      BY <1>8 DEF G!Cleanup
    <2>3. /\ filed'.of = filed.of /\ filed'.status = filed.status
          /\ filed'.cleanup = IF clean THEN "PASS" ELSE "FAIL"
          /\ filed.of = "this" /\ gate = "full"
      BY <2>1, <2>2 DEF GateInv, GateTyped, Reported
    <2>4. GateTyped' /\ Passes' /\ OfFull'
      BY <2>1, <2>2 DEF GateInv, GateTyped, Passes, OfFull
    <2>5. Reported'
      BY <2>1, <2>2, <2>3 DEF GateInv, Reported, AllPassed, G!FindOrphans
    <2>6. QED
      BY <2>4, <2>5 DEF GateInv
  <1>9. CASE G!ReportDeployment
    <2>1. /\ gate = "deployment" /\ stage = "stages" /\ child = "none" /\ Len(results) = Count
          /\ filed' = [of |-> "this", status |-> G!Verdict, cleanup |-> "none"]
          /\ stage' = "ended" /\ exit' = IF G!Verdict = "PASS" THEN "0" ELSE "1"
          /\ UNCHANGED <<gate, results, child, timedOut, strays>>
      BY <1>9 DEF G!ReportDeployment, G!Ends
    <2>2. G!Verdict \in {"PASS", "FAIL", "INCOMPLETE"} /\ (G!Verdict = "PASS" => ~G!Stopped /\ ~G!Unmet)
      BY DEF G!Verdict
    <2>3. G!Verdict = "PASS" => AllPassed
      BY <2>1, <2>2, Passing DEF AllPassed, Verdicts
    <2>4. filed'.of = "this" /\ filed'.status = G!Verdict /\ filed'.cleanup = "none"
      BY <2>1
    <2>5. GateTyped' /\ Passes' /\ OfFull'
      BY <2>1, <2>2 DEF GateInv, GateTyped, Passes, OfFull, Verdicts
    <2>6. Reported'
      BY <2>1, <2>3, <2>4 DEF GateInv, Reported, AllPassed
    <2>7. QED
      BY <2>5, <2>6 DEF GateInv
  <1>10. CASE G!Dies
    <2>1. /\ stage \in {"stages", "cleanup"} /\ stage' = "ended" /\ exit' = "1"
          /\ UNCHANGED <<gate, results, child, timedOut, strays, filed>>
      BY <1>10 DEF G!Dies, G!Ends
    <2>2. GateTyped' /\ Passes' /\ OfFull'
      BY <2>1 DEF GateInv, GateTyped, Passes, OfFull
    <2>3. Reported'
      BY <2>1 DEF GateInv, Reported, AllPassed, G!FindOrphans
    <2>4. QED
      BY <2>2, <2>3 DEF GateInv
  <1>11. CASE UNCHANGED G!gateVars
    BY <1>11 DEF G!gateVars, GateInv, GateTyped, Passes, OfFull, Reported, AllPassed, G!FindOrphans
  <1>12. QED
    BY <1>1, <1>2, <1>3, <1>4, <1>5, <1>6, <1>7, <1>8, <1>9, <1>10, <1>11 DEF G!Next

(* A zero exit code and a report that says PASS were earned by all stages; *)
(* what a clean report leaves behind without the parent that started it is *)
(* listed with another.                                                    *)
THEOREM GatesEarnTheirVerdict == G!Spec => []G!VerdictIsEarned
  <1>1. G!Init => GateInv
    <2> SUFFICES ASSUME G!Init PROVE GateInv
      OBVIOUS
    <2>1. results \in Seq(StageResults) /\ Len(results) = 0 /\ results = <<>>
      BY EmptySeq DEF G!Init
    <2>2. filed.of \in {"none", "earlier"} /\ stage = "start" /\ child = "none" /\ exit = "none"
      BY DEF G!Init
    <2>3. GateTyped
      <3>1. filed \in [of : {"none", "earlier", "this"}, status : Verdicts \cup {"none", "INCOMPLETE"},
                        cleanup : {"none", "PASS", "FAIL"}]
        BY DEF G!Init, Verdicts
      <3>2. Count \in Nat
        BY DeploymentAssumption DEF G!GatesAssumption
      <3>3. gate \in {"full", "deployment"} /\ stage = "start" /\ child = "none" /\ timedOut = FALSE /\ exit = "none"
            /\ strays = {}
        BY DEF G!Init
      <3>4. results \in Seq(StageResults) /\ Len(results) <= Count
        BY <2>1, <3>2
      <3>5. QED
        BY <3>1, <3>3, <3>4 DEF GateTyped
    <2>4. QED
      BY <2>1, <2>2, <2>3 DEF GateInv, Passes, OfFull, Reported
  <1>2. GateInv => G!VerdictIsEarned
    <2> SUFFICES ASSUME GateInv PROVE G!VerdictIsEarned
      OBVIOUS
    <2>1. ASSUME AllPassed
          PROVE  Len(results) = Count /\ \A i \in 1 .. Count : results[i] = [status |-> "PASS", late |-> FALSE]
      <3>1. ASSUME NEW i \in 1 .. Count PROVE results[i] = [status |-> "PASS", late |-> FALSE]
        <4>1. results[i] \in StageResults /\ i \in 1 .. Len(results)
          BY <2>1, ElementOfSeq DEF AllPassed, GateInv, GateTyped
        <4>2. results[i].status = "PASS" /\ results[i].late = FALSE
          BY <2>1, <4>1 DEF AllPassed, GateInv, Passes, StageResults
        <4>3. QED
          BY <4>1, <4>2 DEF StageResults
      <3>2. QED
        BY <2>1, <3>1 DEF AllPassed
    <2>2. results # <<>> => Len(results) # 0
      BY EmptySeq DEF GateInv, GateTyped
    <2>3. ASSUME G!FindOrphans = {}, NEW p \in G!Orphans PROVE p.parent = "another"
      BY <2>3 DEF G!FindOrphans, G!Orphans, G!Processes, GateInv, GateTyped
    <2>4. QED
      BY <2>1, <2>2, <2>3 DEF GateInv, Reported, G!VerdictIsEarned
  <1>3. QED
    BY <1>1, <1>2, GateStep, PTL DEF G!Spec


-----------------------------------------------------------------------------
(* The rehearsal of recovery.                                              *)

Tenants == {"a", "b"}
Across == [step |-> "request", kind |-> "across"]

(* The source with both tenants, and what may be left of it: a copy with a *)
(* damage the questions show, one with values they do not show, or one     *)
(* whose damage is to a file of b.                                         *)
Values == {"intact", "altered"}
Deployed(sizes, files, jobs, session, values) ==
    [rows |-> sizes, files |-> files, jobs |-> jobs, genesis |-> [t \in Tenants |-> TRUE],
     valid |-> [t \in Tenants |-> TRUE], sessions |-> session, hidden |-> TRUE, candidate |-> FALSE,
     values |-> values]
Single == Deployed([t \in Tenants |-> IF t = "a" THEN 2 ELSE 0], [t \in Tenants |-> IF t = "a" THEN "intact" ELSE "none"],
                   [t \in Tenants |-> IF t = "a" THEN "pending" ELSE "none"], FALSE, "intact")
Refiled(f, v) == Deployed([t \in Tenants |-> IF t = "a" THEN 2 ELSE 1], [t \in Tenants |-> IF t = "a" THEN "intact" ELSE f],
                       [t \in Tenants |-> "pending"], TRUE, v)
Healthy == Refiled("intact", "intact")
Sound(d) == \E v \in Values : d = Refiled("intact", v)
Shows(d) == ~R!Hidden(d) \/ R!State(d) # R!Expected \/ ~R!Verifies(d, "b")

(* A copy and what went wrong.                                             *)
CopyIs(d) ==
    \/ Sound(d) /\ damages \subseteq R!Unnoticed
    \/ Shows(d) /\ damages # {}
    \/ (\E f \in {"none", "altered"}, v \in Values : d = Refiled(f, v)) /\ damages # {}

Early ==
    /\ at = "one tenant" => live = Single /\ damages = {}
    /\ at = "two tenants" => (live = Healthy /\ damages = {}) \/ (live.genesis["b"] = FALSE /\ damages # {})
    /\ at \in {"audited", "measured", "stopped"} => live = Healthy /\ damages = {}
    /\ at = "start" => damages = {}
Copied ==
    /\ at = "backed up" => CopyIs(backup)
    /\ at = "copied" => (damages = {} => live = backup) /\ (live = backup => CopyIs(backup))
    /\ at \in {"restored", "tenants"} => live = backup /\ CopyIs(backup)
    /\ at = "tenants" => R!Hidden(live) /\ R!State(live) = R!Expected
    /\ at \in {"guard", "queues"} => live = backup /\ CopyIs(backup) /\ ~Shows(backup)
Worked ==
    /\ at = "worker of B" =>
           \/ /\ Sound(backup) /\ damages \subseteq R!Unnoticed
              /\ R!Pending(live) = {"b"} /\ R!Scannable(live, "b")
           \/ R!Pending(live) # {"b"} /\ damages # {}
           \/ live.files["b"] # "intact" /\ damages # {}
    /\ at \in {"smoke", "smoked", "candidate stopped"} => Sound(backup) /\ damages \subseteq R!Unnoticed
    /\ at = "rolled back" =>
           \/ Sound(live) /\ damages \subseteq R!Unnoticed
           \/ (Shows(live) \/ damages \subseteq R!Unnoticed) /\ damages # {}
    /\ at = "passed" => damages \subseteq R!Unnoticed
Concluded ==
    /\ at \in {"measured", "stopped", "backed up", "copied", "restored", "tenants", "guard", "queues", "worker of B",
               "smoke", "smoked", "candidate stopped", "rolled back"} => before = R!Expected
    /\ at # "over" => report = "NONE"
    /\ at = "over" => (report = "PASS" => damages \subseteq R!Unnoticed)
    /\ R!AtRest => up = {}

RecoveryInv == Early /\ Copied /\ Worked /\ Concluded

LEMMA RefiledAnswers ==
    ASSUME NEW f, NEW v
    PROVE  /\ R!Hidden(Refiled(f, v)) /\ R!State(Refiled(f, v)) = R!Expected
           /\ R!Verifies(Refiled(f, v), "a") /\ R!Verifies(Refiled(f, v), "b") /\ Refiled(f, v).genesis["b"]
           /\ R!Pending(Refiled(f, v)) = Tenants /\ Refiled(f, v).files["b"] = f
           /\ R!Scannable(Refiled(f, v), "a") /\ (f = "intact" => R!Scannable(Refiled(f, v), "b"))
  <1>1. R!Hidden(Refiled(f, v)) /\ Refiled(f, v).genesis["b"] /\ Refiled(f, v).files["b"] = f
    BY DEF R!Hidden, Refiled, Deployed, Tenants
  <1>2. R!Verifies(Refiled(f, v), "a") /\ R!Verifies(Refiled(f, v), "b")
    BY DEF R!Verifies, Refiled, Deployed, Tenants
  <1>3. R!Pending(Refiled(f, v)) = Tenants
    BY DEF R!Pending, R!T, Refiled, Deployed, Tenants
  <1>4. R!Scannable(Refiled(f, v), "a") /\ (f = "intact" => R!Scannable(Refiled(f, v), "b"))
    BY DEF R!Scannable, Refiled, Deployed, Tenants
  <1>5. R!State(Refiled(f, v)) = R!Expected
    <2> DEFINE s == Refiled(f, v)
               x == R!Source
    <2>1. /\ \A t \in R!T : s.rows[t] = x.rows[t]
          /\ \A t \in R!T : s.jobs[t] = x.jobs[t]
          /\ s.candidate = FALSE /\ x.candidate = FALSE
      BY DEF R!Source, R!Nothing, R!T, Refiled, Deployed, Tenants
    <2> HIDE DEF s, x
    <2>2. R!State(s) = R!State(x)
      BY <2>1 DEF R!State
    <2>3. QED
      BY <2>2 DEF R!Expected, s, x
  <1>6. QED
    BY <1>1, <1>2, <1>3, <1>4, <1>5

(* Sizes and jobs that the state of the source shows.                      *)
LEMMA StateShows ==
    ASSUME NEW d, R!State(d) = R!Expected
    PROVE  d.rows["b"] = 1 /\ d.rows["a"] = 2 /\ d.jobs["b"] # "none"
  <1>1. /\ R!State(d).rows = {<<t, d.rows[t]>> : t \in {"a", "b"}}
        /\ R!State(d).rows = {<<t, R!Source.rows[t]>> : t \in {"a", "b"}}
    BY DEF R!State, R!Expected, R!T
  <1>6. {t \in {"a", "b"} : d.jobs[t] # "none"} = {t \in {"a", "b"} : R!Source.jobs[t] # "none"}
    BY DEF R!State, R!Expected, R!T
  <1>2. R!Source.rows["a"] = 2 /\ R!Source.rows["b"] = 1 /\ R!Source.jobs["b"] # "none"
    BY DEF R!Source, R!Nothing, R!T
  <1>3. <<"a", d.rows["a"]>> \in R!State(d).rows /\ <<"b", d.rows["b"]>> \in R!State(d).rows
    BY <1>1
  <1>4. /\ \E t \in {"a", "b"} : <<"a", d.rows["a"]>> = <<t, R!Source.rows[t]>>
        /\ \E t \in {"a", "b"} : <<"b", d.rows["b"]>> = <<t, R!Source.rows[t]>>
    BY <1>1, <1>3
  <1>5. QED
    BY <1>2, <1>4, <1>6

(* Records with fields replaced, one by one.                               *)
Whole(sizes, files, jobs, session, born, valid, hidden, tried, values) ==
    [rows |-> sizes, files |-> files, jobs |-> jobs, genesis |-> born, valid |-> valid, sessions |-> session,
     hidden |-> hidden, candidate |-> tried, values |-> values]

(* Deployments differ in five fields; the truths are named, as fields are. *)
LEMMA DeployedIsWhole ==
    \E all, yes, no :
        /\ yes = TRUE /\ no = FALSE
        /\ \A r, f, j, s, v : Deployed(r, f, j, s, v) = Whole(r, f, j, s, all, all, yes, no, v)
  <1>1. PICK all, yes, no : all = [t \in Tenants |-> TRUE] /\ yes = TRUE /\ no = FALSE
    OBVIOUS
  <1>2. ASSUME NEW r, NEW f, NEW j, NEW s, NEW v
        PROVE  Deployed(r, f, j, s, v) = Whole(r, f, j, s, all, all, yes, no, v)
    BY <1>1 DEF Deployed, Whole
  <1>3. QED
    BY <1>1, <1>2

LEMMA FilesReplaced ==
    ASSUME NEW sizes, NEW files, NEW jobs, NEW session, NEW v, NEW g
    PROVE  [Deployed(sizes, files, jobs, session, v) EXCEPT !.files = g] = Deployed(sizes, g, jobs, session, v)
  <1>1. PICK all, yes, no : /\ yes = TRUE /\ no = FALSE
                            /\ \A r, f, j, s, u : Deployed(r, f, j, s, u) = Whole(r, f, j, s, all, all, yes, no, u)
    BY DeployedIsWhole
  <1>2. [Whole(sizes, files, jobs, session, all, all, yes, no, v) EXCEPT !.files = g]
        = Whole(sizes, g, jobs, session, all, all, yes, no, v)
    BY DEF Whole
  <1>3. QED
    BY <1>1, <1>2

LEMMA ValuesReplaced ==
    ASSUME NEW sizes, NEW files, NEW jobs, NEW session, NEW v, NEW w
    PROVE  [Deployed(sizes, files, jobs, session, v) EXCEPT !.values = w] = Deployed(sizes, files, jobs, session, w)
  <1>1. PICK all, yes, no : /\ yes = TRUE /\ no = FALSE
                            /\ \A r, f, j, s, u : Deployed(r, f, j, s, u) = Whole(r, f, j, s, all, all, yes, no, u)
    BY DeployedIsWhole
  <1>2. [Whole(sizes, files, jobs, session, all, all, yes, no, v) EXCEPT !.values = w]
        = Whole(sizes, files, jobs, session, all, all, yes, no, w)
    BY DEF Whole
  <1>3. QED
    BY <1>1, <1>2

(* The source is set up as it is meant to be.                              *)
LEMMA SourceSetUp ==
    /\ [R!Nothing EXCEPT !.rows["a"] = 2, !.files["a"] = "intact", !.jobs["a"] = "pending"] = Single
    /\ [Single EXCEPT !.rows["b"] = 1, !.files["b"] = "intact", !.jobs["b"] = "pending", !.sessions = TRUE] = Healthy
  <1>1. PICK all, yes, no : /\ yes = TRUE /\ no = FALSE
                            /\ \A r, f, j, s, v : Deployed(r, f, j, s, v) = Whole(r, f, j, s, all, all, yes, no, v)
    BY DeployedIsWhole
  <1>2. PICK rows0, files0, jobs0, rows1, files1, jobs1, rows2, files2, jobs2 :
            /\ rows0 = [t \in Tenants |-> 0] /\ files0 = [t \in Tenants |-> "none"] /\ jobs0 = [t \in Tenants |-> "none"]
            /\ rows1 = [t \in Tenants |-> IF t = "a" THEN 2 ELSE 0]
            /\ files1 = [t \in Tenants |-> IF t = "a" THEN "intact" ELSE "none"]
            /\ jobs1 = [t \in Tenants |-> IF t = "a" THEN "pending" ELSE "none"]
            /\ rows2 = [t \in Tenants |-> IF t = "a" THEN 2 ELSE 1]
            /\ files2 = [t \in Tenants |-> IF t = "a" THEN "intact" ELSE "intact"]
            /\ jobs2 = [t \in Tenants |-> "pending"]
    OBVIOUS
  <1>3. /\ rows1 = [rows0 EXCEPT !["a"] = 2] /\ files1 = [files0 EXCEPT !["a"] = "intact"]
        /\ jobs1 = [jobs0 EXCEPT !["a"] = "pending"]
    BY <1>2 DEF Tenants
  <1>4. /\ rows2 = [rows1 EXCEPT !["b"] = 1] /\ files2 = [files1 EXCEPT !["b"] = "intact"]
        /\ jobs2 = [jobs1 EXCEPT !["b"] = "pending"]
    BY <1>2 DEF Tenants
  <1>5. R!Nothing = Whole(rows0, files0, jobs0, no, all, all, yes, no, "intact")
    <2>1. R!Nothing = Deployed(rows0, files0, jobs0, no, "intact")
      BY <1>1, <1>2 DEF R!Nothing, R!T, Deployed, Tenants
    <2>2. QED
      BY <1>1, <2>1
  <1>6. Single = Whole(rows1, files1, jobs1, no, all, all, yes, no, "intact")
    <2>1. Single = Deployed(rows1, files1, jobs1, no, "intact")
      BY <1>1, <1>2 DEF Single
    <2>2. QED
      BY <1>1, <2>1
  <1>7. Healthy = Whole(rows2, files2, jobs2, yes, all, all, yes, no, "intact")
    <2>1. Healthy = Deployed(rows2, files2, jobs2, yes, "intact")
      BY <1>1, <1>2 DEF Healthy, Refiled
    <2>2. QED
      BY <1>1, <2>1
  <1>8. [R!Nothing EXCEPT !.rows = [R!Nothing.rows EXCEPT !["a"] = 2],
                          !.files = [R!Nothing.files EXCEPT !["a"] = "intact"],
                          !.jobs = [R!Nothing.jobs EXCEPT !["a"] = "pending"]] = Single
    <2>1. R!Nothing.rows = rows0 /\ R!Nothing.files = files0 /\ R!Nothing.jobs = jobs0
      BY <1>5 DEF Whole
    <2>2. [[[R!Nothing EXCEPT !.rows = rows1] EXCEPT !.files = files1] EXCEPT !.jobs = jobs1]
          = Whole(rows1, files1, jobs1, no, all, all, yes, no, "intact")
      <3>1. [R!Nothing EXCEPT !.rows = rows1] = Whole(rows1, files0, jobs0, no, all, all, yes, no, "intact")
        BY <1>5 DEF Whole
      <3>2. [Whole(rows1, files0, jobs0, no, all, all, yes, no, "intact") EXCEPT !.files = files1]
            = Whole(rows1, files1, jobs0, no, all, all, yes, no, "intact")
        BY DEF Whole
      <3>3. [Whole(rows1, files1, jobs0, no, all, all, yes, no, "intact") EXCEPT !.jobs = jobs1]
            = Whole(rows1, files1, jobs1, no, all, all, yes, no, "intact")
        BY DEF Whole
      <3>4. QED
        BY <3>1, <3>2, <3>3
    <2>3. QED
      BY <1>3, <1>6, <2>1, <2>2
  <1>9. [Single EXCEPT !.rows = [Single.rows EXCEPT !["b"] = 1], !.files = [Single.files EXCEPT !["b"] = "intact"],
                       !.jobs = [Single.jobs EXCEPT !["b"] = "pending"], !.sessions = yes] = Healthy
    <2>1. Single.rows = rows1 /\ Single.files = files1 /\ Single.jobs = jobs1
      BY <1>6 DEF Whole
    <2>2. [[[[Single EXCEPT !.rows = rows2] EXCEPT !.files = files2] EXCEPT !.jobs = jobs2] EXCEPT !.sessions = yes]
          = Whole(rows2, files2, jobs2, yes, all, all, yes, no, "intact")
      <3>1. [Single EXCEPT !.rows = rows2] = Whole(rows2, files1, jobs1, no, all, all, yes, no, "intact")
        BY <1>6 DEF Whole
      <3>2. [Whole(rows2, files1, jobs1, no, all, all, yes, no, "intact") EXCEPT !.files = files2]
            = Whole(rows2, files2, jobs1, no, all, all, yes, no, "intact")
        BY DEF Whole
      <3>3. [Whole(rows2, files2, jobs1, no, all, all, yes, no, "intact") EXCEPT !.jobs = jobs2]
            = Whole(rows2, files2, jobs2, no, all, all, yes, no, "intact")
        BY DEF Whole
      <3>4. [Whole(rows2, files2, jobs2, no, all, all, yes, no, "intact") EXCEPT !.sessions = yes]
            = Whole(rows2, files2, jobs2, yes, all, all, yes, no, "intact")
        BY DEF Whole
      <3>5. QED
        BY <3>1, <3>2, <3>3, <3>4
    <2>3. QED
      BY <1>4, <1>7, <2>1, <2>2
  <1>10. QED
    BY <1>1, <1>8, <1>9

LEMMA CopyOfSound ==
    ASSUME NEW during, NEW v \in Values, NEW copy \in R!Copied(during, Refiled("intact", v))
    PROVE  \/ copy.of = Refiled("intact", v) /\ copy.damages = damages
           \/ \E k : /\ copy.damages = damages \cup {[step |-> during, kind |-> k]}
                     /\ \/ Shows(copy.of)
                        \/ k = "values" /\ copy.of = Refiled("intact", "altered")
                        \/ k \in {"lostFile", "altered"} /\ \E f \in {"none", "altered"} : copy.of = Refiled(f, v)
  <1> DEFINE was == Refiled("intact", v)
             data == R!DataDamages(was)
             files == R!FileDamages(was)
  <1>1. CASE copy = [of |-> was, damages |-> damages]
    BY <1>1
  <1>2. CASE \E k \in DOMAIN data : copy = [of |-> data[k], damages |-> damages \cup {[step |-> during, kind |-> k]}]
    <2>1. PICK k \in DOMAIN data : copy = [of |-> data[k], damages |-> damages \cup {[step |-> during, kind |-> k]}]
      BY <1>2
    <2>2. k \in {"merged", "swapped", "lostRows", "lostJob", "chain", "sessions", "unhidden", "values"}
      BY DEF R!DataDamages
    <2>6. k = "values" => data[k] = Refiled("intact", "altered")
      <3>1. R!DataDamages(was)["values"] = [was EXCEPT !.values = "altered"]
        BY DEF R!DataDamages
      <3>2. [was EXCEPT !.values = "altered"] = Refiled("intact", "altered")
        <4>1. PICK sizes, saved, jobs, yes : \A w : Refiled("intact", w) = Deployed(sizes, saved, jobs, yes, w)
          BY DEF Refiled
        <4>2. [Deployed(sizes, saved, jobs, yes, v) EXCEPT !.values = "altered"] = Deployed(sizes, saved, jobs, yes, "altered")
          BY ValuesReplaced
        <4>3. QED
          BY <4>1, <4>2
      <3>3. QED
        BY <3>1, <3>2
    <2>3. k = "values" \/ Shows(data[k])
      <3>1. CASE k = "merged"
        <4>1. data[k].rows["b"] = 0
          BY <3>1 DEF R!DataDamages, R!T, Refiled, Deployed, Tenants
        <4>2. QED
          BY <4>1, StateShows DEF Shows
      <3>2. CASE k = "swapped"
        <4>1. data[k].rows["a"] = 1
          BY <3>2 DEF R!DataDamages, R!T, Refiled, Deployed, Tenants
        <4>2. QED
          BY <4>1, StateShows DEF Shows
      <3>3. CASE k = "lostRows"
        <4>1. data[k].rows["b"] = 0
          BY <3>3 DEF R!DataDamages, R!T, Refiled, Deployed, Tenants
        <4>2. QED
          BY <4>1, StateShows DEF Shows
      <3>4. CASE k = "lostJob"
        <4>1. data[k].jobs["b"] = "none"
          BY <3>4 DEF R!DataDamages, R!T, Refiled, Deployed, Tenants
        <4>2. QED
          BY <4>1, StateShows DEF Shows
      <3>5. CASE k = "chain"
        <4>1. data[k].valid["b"] = FALSE
          BY <3>5 DEF R!DataDamages, R!T, Refiled, Deployed, Tenants
        <4>2. QED
          BY <4>1 DEF Shows, R!Verifies
      <3>6. CASE k = "sessions"
        <4>1. data[k].sessions = FALSE
          BY <3>6 DEF R!DataDamages, R!T, Refiled, Deployed, Tenants
        <4>2. QED
          BY <4>1 DEF Shows, R!Verifies
      <3>7. CASE k = "unhidden"
        <4>1. data[k].hidden = FALSE
          BY <3>7 DEF R!DataDamages, R!T, Refiled, Deployed, Tenants
        <4>2. QED
          BY <4>1 DEF Shows, R!Hidden
      <3>8. QED
        BY <2>2, <3>1, <3>2, <3>3, <3>4, <3>5, <3>6, <3>7
    <2>4. copy.of = data[k] /\ copy.damages = damages \cup {[step |-> during, kind |-> k]}
      BY <2>1
    <2>5. QED
      BY <2>3, <2>4, <2>6
  <1>3. CASE \E k \in DOMAIN files : copy = [of |-> files[k], damages |-> damages \cup {[step |-> during, kind |-> k]}]
    <2>1. PICK k \in DOMAIN files : copy = [of |-> files[k], damages |-> damages \cup {[step |-> during, kind |-> k]}]
      BY <1>3
    <2>2. k \in {"lostFile", "altered"}
      BY DEF R!FileDamages
    <2>7. ASSUME NEW f
          PROVE  [was EXCEPT !.files["b"] = f] = Refiled(f, v)
      <3>1. [was.files EXCEPT !["b"] = f] = [t \in Tenants |-> IF t = "a" THEN "intact" ELSE f]
        BY DEF Refiled, Deployed, Tenants
      <3>2. PICK g : g = [t \in Tenants |-> IF t = "a" THEN "intact" ELSE f]
        OBVIOUS
      <3>3. [was EXCEPT !.files = g] = Refiled(f, v)
        <4>1. PICK sizes, saved, jobs, yes : /\ was = Deployed(sizes, saved, jobs, yes, v)
                                            /\ Refiled(f, v) = Deployed(sizes, g, jobs, yes, v)
          BY <3>2 DEF Refiled
        <4>2. QED
          BY <4>1, FilesReplaced
      <3>4. QED
        BY <3>1, <3>2, <3>3
    <2>3. k = "lostFile" => files[k] = Refiled("none", v)
      BY <2>7 DEF R!FileDamages
    <2>4. k = "altered" => files[k] = Refiled("altered", v)
      BY <2>7 DEF R!FileDamages
    <2>5. copy.of = files[k] /\ copy.damages = damages \cup {[step |-> during, kind |-> k]}
      BY <2>1
    <2>6. QED
      BY <2>2, <2>3, <2>4, <2>5
  <1>4. QED
    <2> HIDE DEF data, files
    <2>1. R!Copied(during, was) = R!Made(during, was, data) \cup R!Made(during, was, files)
      BY DEF R!Copied, data, files
    <2>2. QED
      BY <1>1, <1>2, <1>3, <2>1 DEF R!Made

(* A copy of anything else that went wrong differs from it.                *)
LEMMA CopyDiffers ==
    ASSUME NEW during, NEW d, NEW copy \in R!Copied(during, d)
    PROVE  \/ copy.of = d /\ copy.damages = damages
           \/ copy.of # d /\ copy.damages # {}
  <1>1. ASSUME NEW kinds, copy \in R!Made(during, d, kinds)
        PROVE  (copy.of = d /\ copy.damages = damages) \/ (copy.of # d /\ copy.damages # {})
    <2>1. CASE copy = [of |-> d, damages |-> damages]
      BY <2>1
    <2>2. CASE \E k \in {k \in DOMAIN kinds : kinds[k] # d} :
                   copy = [of |-> kinds[k], damages |-> damages \cup {[step |-> during, kind |-> k]}]
      <3>1. PICK k \in DOMAIN kinds :
                /\ kinds[k] # d
                /\ copy = [of |-> kinds[k], damages |-> damages \cup {[step |-> during, kind |-> k]}]
        BY <2>2
      <3>2. copy.of = kinds[k] /\ copy.damages = damages \cup {[step |-> during, kind |-> k]}
        BY <3>1
      <3>3. QED
        BY <3>1, <3>2
    <2>3. QED
      BY <1>1, <2>1, <2>2 DEF R!Made
  <1>2. QED
    BY <1>1 DEF R!Copied

LEMMA RecoverySetUp ==
    ASSUME RecoveryInv,
           R!StartSource \/ R!SecondTenant \/ R!AuditRecord \/ R!StateBefore \/ R!StopSource \/ R!Backup
    PROVE  RecoveryInv'
  <1>1. CASE R!StartSource
    <2>1. at = "start" /\ at' = "one tenant" /\ UNCHANGED <<backup, before, damages, report>> /\ live' = Single
      BY <1>1, SourceSetUp DEF R!StartSource, R!Goto
    <2>2. QED
      BY <2>1 DEF RecoveryInv, Early, Copied, Worked, Concluded, R!AtRest
  <1>2. CASE R!SecondTenant
    <2>1. at = "one tenant" /\ at' = "two tenants" /\ UNCHANGED <<backup, before, up, report>>
      BY <1>2 DEF R!SecondTenant, R!Goto
    <2>2. live = Single /\ damages = {}
      BY <2>1 DEF RecoveryInv, Early
    <2>3. \E made \in R!Made("second tenant", Healthy, [linked |-> [Healthy EXCEPT !.genesis["b"] = FALSE]]) :
              live' = made.of /\ damages' = made.damages
      BY <1>2, <2>2, SourceSetUp DEF R!SecondTenant
    <2>4. [Healthy EXCEPT !.genesis["b"] = FALSE].genesis["b"] = FALSE
      BY DEF Healthy, Refiled, Deployed, Tenants
    <2>5. (live' = Healthy /\ damages' = {}) \/ (live'.genesis["b"] = FALSE /\ damages' # {})
      <3> DEFINE kinds == [linked |-> [Healthy EXCEPT !.genesis["b"] = FALSE]]
      <3>1. DOMAIN kinds = {"linked"} /\ kinds["linked"].genesis["b"] = FALSE
        BY <2>4
      <3> HIDE DEF kinds
      <3>2. PICK made \in R!Made("second tenant", Healthy, kinds) : live' = made.of /\ damages' = made.damages
        BY <2>3 DEF kinds
      <3>3. CASE made = [of |-> Healthy, damages |-> damages]
        BY <2>2, <3>2, <3>3
      <3>4. CASE \E k \in DOMAIN kinds :
                     made = [of |-> kinds[k], damages |-> damages \cup {[step |-> "second tenant", kind |-> k]}]
        <4>1. PICK k \in DOMAIN kinds :
                  made = [of |-> kinds[k], damages |-> damages \cup {[step |-> "second tenant", kind |-> k]}]
          BY <3>4
        <4>3. made.of = kinds[k] /\ made.damages = damages \cup {[step |-> "second tenant", kind |-> k]}
          BY <4>1
        <4>4. k = "linked"
          BY <3>1
        <4>2. QED
          BY <3>1, <3>2, <4>3, <4>4
      <3>5. QED
        BY <3>2, <3>3, <3>4 DEF R!Made
    <2>6. QED
      BY <2>1, <2>5 DEF RecoveryInv, Early, Copied, Worked, Concluded, R!AtRest
  <1>3. CASE R!AuditRecord
    <2>1. /\ at = "two tenants" /\ at' = "audited" /\ live.genesis["b"]
          /\ UNCHANGED <<live, backup, before, damages, up, report>>
      BY <1>3 DEF R!AuditRecord, R!Goto
    <2>2. QED
      BY <2>1 DEF RecoveryInv, Early, Copied, Worked, Concluded, R!AtRest
  <1>4. CASE R!StateBefore
    <2>1. at = "audited" /\ at' = "measured" /\ before' = R!Expected /\ UNCHANGED <<live, backup, damages, up, report>>
      BY <1>4 DEF R!StateBefore, R!Goto
    <2>2. QED
      BY <2>1 DEF RecoveryInv, Early, Copied, Worked, Concluded, R!AtRest
  <1>5. CASE R!StopSource
    <2>1. /\ at = "measured" /\ at' = "stopped" /\ up' = {}
          /\ UNCHANGED <<live, backup, before, damages, report>>
      BY <1>5 DEF R!StopSource, R!Goto
    <2>2. QED
      BY <2>1 DEF RecoveryInv, Early, Copied, Worked, Concluded, R!AtRest
  <1>6. CASE R!Backup
    <2>1. at = "stopped" /\ at' = "backed up" /\ UNCHANGED <<live, before, up, report>>
      BY <1>6 DEF R!Backup, R!Goto
    <2>2. live = Healthy /\ damages = {}
      BY <2>1 DEF RecoveryInv, Early
    <2>3. PICK copy \in R!Copied("backup", Healthy) : backup' = copy.of /\ damages' = copy.damages
      BY <1>6, <2>2 DEF R!Backup
    <2>4. \/ Sound(backup') /\ damages' \subseteq R!Unnoticed
          \/ Shows(backup') /\ damages' # {}
          \/ (\E f \in {"none", "altered"}, v \in Values : backup' = Refiled(f, v)) /\ damages' # {}
      <3>1. Shows(copy.of) => Shows(backup')
        BY <2>3
      <3>4. \/ copy.of = Healthy /\ copy.damages = damages
            \/ \E k : /\ copy.damages = damages \cup {[step |-> "backup", kind |-> k]}
                      /\ \/ Shows(copy.of)
                         \/ k = "values" /\ copy.of = Refiled("intact", "altered")
                         \/ k \in {"lostFile", "altered"} /\ \E f \in {"none", "altered"} : copy.of = Refiled(f, "intact")
        <4>1. "intact" \in Values
          BY DEF Values
        <4>2. copy \in R!Copied("backup", Refiled("intact", "intact"))
          BY <2>3 DEF Healthy
        <4>3. QED
          BY ONLY <4>1, <4>2, CopyOfSound, Zenon DEF Healthy
      <3>2. \/ Sound(copy.of) /\ copy.damages \subseteq R!Unnoticed
            \/ Shows(copy.of) /\ copy.damages # {}
            \/ (\E f \in {"none", "altered"}, v \in Values : copy.of = Refiled(f, v)) /\ copy.damages # {}
        <4>1. CASE copy.of = Healthy /\ copy.damages = damages
          BY <2>2, <4>1 DEF Sound, Healthy, Values
        <4>2. ASSUME NEW k, copy.damages = damages \cup {[step |-> "backup", kind |-> k]}, Shows(copy.of)
              PROVE  Shows(copy.of) /\ copy.damages # {}
          BY <4>2
        <4>3. ASSUME copy.damages = damages \cup {[step |-> "backup", kind |-> "values"]}, copy.of = Refiled("intact", "altered")
              PROVE  Sound(copy.of) /\ copy.damages \subseteq R!Unnoticed
          BY <2>2, <4>3 DEF Sound, Values, R!Unnoticed
        <4>4. ASSUME NEW k, copy.damages = damages \cup {[step |-> "backup", kind |-> k]},
                     NEW f \in {"none", "altered"}, copy.of = Refiled(f, "intact")
              PROVE  (\E g \in {"none", "altered"}, v \in Values : copy.of = Refiled(g, v)) /\ copy.damages # {}
          BY <4>4 DEF Values
        <4>5. QED
          BY <3>4, <4>1, <4>2, <4>3, <4>4
      <3>3. QED
        BY <2>3, <3>1, <3>2
    <2>5. CopyIs(backup)'
      BY <2>4 DEF CopyIs, Sound, Shows, R!Hidden, R!State, R!Verifies
    <2>6. QED
      BY <2>1, <2>5 DEF RecoveryInv, Early, Copied, Worked, Concluded, R!AtRest
  <1>7. QED
    BY <1>1, <1>2, <1>3, <1>4, <1>5, <1>6

LEMMA RecoveryRestores ==
    ASSUME RecoveryInv,
           R!Restore \/ R!Manifests \/ R!CheckRestore \/ R!CheckTenants \/ R!CheckGuard
    PROVE  RecoveryInv'
  <1>1. CASE R!Restore
    <2>1. at = "backed up" /\ at' = "copied" /\ UNCHANGED <<backup, before, up, report>>
      BY <1>1 DEF R!Restore, R!Goto
    <2>2. PICK copy \in R!Copied("restore", backup) : live' = copy.of /\ damages' = copy.damages
      BY <1>1 DEF R!Restore
    <2>3. (live' = backup /\ damages' = damages) \/ (live' # backup /\ damages' # {})
      BY <2>2, CopyDiffers
    <2>4. CopyIs(backup)
      BY <2>1 DEF RecoveryInv, Copied
    <2>5. (damages' = {} => live' = backup') /\ (live' = backup' => CopyIs(backup)')
      <3>1. backup' = backup
        BY <2>1
      <3>2. CASE live' = backup /\ damages' = damages
        BY <2>4, <3>1, <3>2 DEF CopyIs, Sound, Shows, R!Hidden, R!State, R!Verifies
      <3>3. QED
        BY <2>3, <3>1, <3>2
    <2>6. QED
      BY <2>1, <2>5 DEF RecoveryInv, Early, Copied, Worked, Concluded, R!AtRest
  <1>2. CASE R!Manifests
    <2>1. at = "copied" /\ live = backup /\ at' = "restored" /\ UNCHANGED <<live, backup, before, damages, report>>
      BY <1>2 DEF R!Manifests, R!Goto
    <2>2. CopyIs(backup)'
      BY <2>1 DEF RecoveryInv, Copied, CopyIs, Sound, Shows, R!Hidden, R!State, R!Verifies
    <2>3. QED
      BY <2>1, <2>2 DEF RecoveryInv, Early, Copied, Worked, Concluded, R!AtRest
  <1>3. CASE R!CheckRestore
    <2>1. at = "restored" /\ at' = "tenants" /\ UNCHANGED <<live, backup, before, damages, up, report>>
      BY <1>3 DEF R!CheckRestore, R!Goto
    <2>2. R!Hidden(live) /\ R!State(live) = R!Expected
      BY <1>3, <2>1 DEF R!CheckRestore, RecoveryInv, Concluded
    <2>3. CopyIs(backup)' /\ (R!Hidden(live) /\ R!State(live) = R!Expected)'
      BY <2>1, <2>2 DEF RecoveryInv, Copied, CopyIs, Sound, Shows, R!Hidden, R!State, R!Verifies
    <2>4. QED
      BY <2>1, <2>3 DEF RecoveryInv, Early, Copied, Worked, Concluded, R!AtRest
  <1>4. CASE R!CheckTenants
    <2>1. at = "tenants" /\ UNCHANGED <<live, backup, before, up, report>> /\ damages' \in {damages, damages \cup {Across}}
      BY <1>4 DEF R!CheckTenants, Across
    <2>2. at' = "failed" \/ (at' = "guard" /\ R!Verifies(live, "b"))
      BY <1>4 DEF R!CheckTenants, R!Goto
    <2>3. live = backup /\ CopyIs(backup) /\ R!Hidden(live) /\ R!State(live) = R!Expected
      BY <2>1 DEF RecoveryInv, Copied
    <2>4. CASE at' = "failed"
      BY <2>1, <2>4 DEF RecoveryInv, Early, Copied, Worked, Concluded, R!AtRest
    <2>5. CASE at' = "guard" /\ R!Verifies(live, "b")
      <3>1. ~Shows(backup)
        BY <2>3, <2>5 DEF Shows
      <3>2. CopyIs(backup)' /\ ~Shows(backup)'
        BY <2>1, <2>3, <3>1 DEF CopyIs, Sound, Shows, R!Hidden, R!State, R!Verifies, R!Unnoticed, Across
      <3>3. QED
        BY <2>1, <2>3, <2>5, <3>2 DEF RecoveryInv, Early, Copied, Worked, Concluded, R!AtRest
    <2>6. QED
      BY <2>2, <2>4, <2>5
  <1>5. CASE R!CheckGuard
    <2>1. /\ at = "guard" /\ UNCHANGED <<live, backup, before, up, report>>
          /\ at' = "failed" \/ (at' = "queues" /\ damages' = damages)
      BY <1>5 DEF R!CheckGuard, R!Goto
    <2>2. CASE at' = "failed"
      BY <2>1, <2>2 DEF RecoveryInv, Early, Copied, Worked, Concluded, R!AtRest
    <2>3. CASE at' = "queues" /\ damages' = damages
      <3>1. CopyIs(backup)' /\ ~Shows(backup)'
        BY <2>1, <2>3 DEF RecoveryInv, Copied, CopyIs, Sound, Shows, R!Hidden, R!State, R!Verifies
      <3>2. QED
        BY <2>1, <2>3, <3>1 DEF RecoveryInv, Early, Copied, Worked, Concluded, R!AtRest
    <2>4. QED
      BY <2>1, <2>2, <2>3
  <1>6. QED
    BY <1>1, <1>2, <1>3, <1>4, <1>5

LEMMA RecoveryWorks ==
    ASSUME RecoveryInv,
           R!WorkerOfA \/ R!WorkerOfB \/ R!ForwardSmoke \/ R!StopCandidate
    PROVE  RecoveryInv'
  <1>1. CASE R!WorkerOfA
    <2>1. at = "queues" /\ UNCHANGED <<backup, before, up, report>> /\ R!Pending(live) = Tenants
      BY <1>1 DEF R!WorkerOfA, R!T, Tenants
    <2>2. PICK taken \in {R!Claimable(live, "a"), R!Pending(live)} :
             /\ damages' = IF taken = R!Claimable(live, "a") THEN damages
                           ELSE damages \cup {[step |-> "worker", kind |-> "reached across"]}
             /\ IF \A t \in taken : R!Scannable(live, t)
                THEN /\ live' = [live EXCEPT !.jobs = [t \in R!T |-> IF t \in taken THEN "completed" ELSE @[t]]]
                     /\ at' = "worker of B"
                ELSE at' = "failed" /\ UNCHANGED live
      BY <1>1 DEF R!WorkerOfA, R!Goto
    <2>3. R!Claimable(live, "a") = {"a"}
      BY <2>1 DEF R!Claimable, Tenants
    <2>4. \/ taken = {"a"} /\ damages' = damages
          \/ taken = Tenants /\ damages' # {}
      BY <2>1, <2>2, <2>3
    <2>5. CASE at' = "failed"
      BY <2>1, <2>5 DEF RecoveryInv, Early, Copied, Worked, Concluded, R!AtRest
    <2>6. CASE at' # "failed"
      <3>1. at' = "worker of B" /\ live' = [live EXCEPT !.jobs = [t \in R!T |-> IF t \in taken THEN "completed" ELSE @[t]]]
        BY <2>2, <2>6
      <3>2. live = backup /\ ~Shows(backup) /\ CopyIs(backup)
        BY <2>1 DEF RecoveryInv, Copied
      <3>3. PICK f \in {"none", "altered", "intact"}, v \in Values :
                /\ live = Refiled(f, v)
                /\ f = "intact" => damages \subseteq R!Unnoticed
                /\ f # "intact" => damages # {}
        BY <3>2 DEF CopyIs, Sound
      <3>4. /\ live'.files["b"] = f
            /\ \A t \in Tenants : live'.jobs[t] = IF t \in taken THEN "completed" ELSE "pending"
        BY <3>1, <3>3 DEF Refiled, Deployed, R!T, Tenants
      <3>5. CASE f # "intact"
        <4>1. damages' # {}
          BY <2>4, <3>3, <3>5
        <4>2. QED
          BY <2>1, <3>1, <3>4, <3>5, <4>1 DEF RecoveryInv, Early, Copied, Worked, Concluded, R!AtRest
      <3>6. CASE f = "intact" /\ taken = Tenants
        <4>1. damages' # {}
          BY <2>4, <3>6 DEF Tenants
        <4>2. R!Pending(live)' # {"b"}
          BY <3>4, <3>6 DEF R!Pending, R!T, Tenants
        <4>3. QED
          BY <2>1, <3>1, <4>1, <4>2 DEF RecoveryInv, Early, Copied, Worked, Concluded, R!AtRest
      <3>7. CASE f = "intact" /\ taken = {"a"}
        <4>1. Sound(backup)' /\ (damages \subseteq R!Unnoticed)'
          BY <2>1, <2>2, <2>3, <3>2, <3>3, <3>7 DEF Sound, R!Unnoticed
        <4>2. R!Pending(live)' = {"b"} /\ R!Scannable(live, "b")'
          BY <3>4, <3>7 DEF R!Pending, R!Scannable, R!T, Tenants
        <4>3. QED
          BY <2>1, <3>1, <4>1, <4>2 DEF RecoveryInv, Early, Copied, Worked, Concluded, R!AtRest
      <3>8. QED
        BY <2>4, <3>5, <3>6, <3>7
    <2>7. QED
      BY <2>5, <2>6
  <1>2. CASE R!WorkerOfB
    <2>1. /\ at = "worker of B" /\ at' = "smoke" /\ R!Pending(live) = {"b"} /\ live.files["b"] = "intact"
          /\ UNCHANGED <<backup, before, damages, up, report>>
      BY <1>2 DEF R!WorkerOfB, R!Goto, R!Scannable
    <2>2. QED
      BY <2>1 DEF RecoveryInv, Early, Copied, Worked, Concluded, R!AtRest
  <1>3. CASE R!ForwardSmoke
    <2>1. /\ at = "smoke" /\ UNCHANGED <<backup, before, up, report>>
          /\ at' = "failed" \/ (at' = "smoked" /\ damages' = damages)
      BY <1>3 DEF R!ForwardSmoke, R!Goto
    <2>2. QED
      BY <2>1 DEF RecoveryInv, Early, Copied, Worked, Concluded, R!AtRest
  <1>4. CASE R!StopCandidate
    <2>1. at = "smoked" /\ at' = "candidate stopped" /\ up' = {} /\ UNCHANGED <<live, backup, before, damages, report>>
      BY <1>4 DEF R!StopCandidate, R!Goto
    <2>2. QED
      BY <2>1 DEF RecoveryInv, Early, Copied, Worked, Concluded, R!AtRest
  <1>5. QED
    BY <1>1, <1>2, <1>3, <1>4

LEMMA RecoveryEnds ==
    ASSUME RecoveryInv,
           R!Rollback \/ R!CheckRollback \/ R!Throws \/ R!Finally \/ UNCHANGED R!recoveryVars
    PROVE  RecoveryInv'
  <1>1. CASE R!Rollback
    <2>1. at = "candidate stopped" /\ at' = "rolled back" /\ UNCHANGED <<backup, before, report>>
      BY <1>1 DEF R!Rollback, R!Goto
    <2>2. Sound(backup) /\ damages \subseteq R!Unnoticed
      BY <2>1 DEF RecoveryInv, Worked
    <2>7. PICK v \in Values : backup = Refiled("intact", v)
      BY <2>2 DEF Sound
    <2>3. PICK copy \in R!Copied("rollback", Refiled("intact", v)) : live' = copy.of /\ damages' = copy.damages
      BY <1>1, <2>7 DEF R!Rollback
    <2>4. \/ Sound(live') /\ damages' \subseteq R!Unnoticed
          \/ (Shows(live') \/ damages' \subseteq R!Unnoticed) /\ damages' # {}
      <3>1. CASE copy.of = Refiled("intact", v) /\ copy.damages = damages
        BY <2>2, <2>3, <3>1 DEF Sound
      <3>2. ASSUME NEW k, copy.damages = damages \cup {[step |-> "rollback", kind |-> k]}, Shows(copy.of)
            PROVE  Shows(live') /\ damages' # {}
        BY <2>3, <3>2
      <3>3. ASSUME NEW k \in {"values", "lostFile", "altered"}, copy.damages = damages \cup {[step |-> "rollback", kind |-> k]}
            PROVE  damages' \subseteq R!Unnoticed /\ damages' # {}
        BY <2>2, <2>3, <3>3 DEF R!Unnoticed
      <3>5. \/ copy.of = Refiled("intact", v) /\ copy.damages = damages
            \/ \E k : /\ copy.damages = damages \cup {[step |-> "rollback", kind |-> k]}
                      /\ Shows(copy.of) \/ k \in {"values", "lostFile", "altered"}
        <4>1. \/ copy.of = Refiled("intact", v) /\ copy.damages = damages
              \/ \E k : /\ copy.damages = damages \cup {[step |-> "rollback", kind |-> k]}
                        /\ \/ Shows(copy.of)
                           \/ k = "values" /\ copy.of = Refiled("intact", "altered")
                           \/ k \in {"lostFile", "altered"} /\ \E f \in {"none", "altered"} : copy.of = Refiled(f, v)
          BY ONLY <2>3, <2>7, CopyOfSound, Zenon
        <4>2. QED
          BY <4>1
      <3>4. QED
        BY <3>1, <3>2, <3>3, <3>5
    <2>5. Worked'
      <3>1. Shows(live') <=> Shows(live)'
        BY DEF Shows, R!Hidden, R!State, R!Verifies
      <3>2. QED
        BY <2>1, <2>4, <3>1 DEF Worked, Sound, R!Unnoticed
    <2>6. QED
      BY <2>1, <2>5 DEF RecoveryInv, Early, Copied, Concluded, R!AtRest
  <1>2. CASE R!CheckRollback
    <2>1. at = "rolled back" /\ at' = "passed" /\ UNCHANGED <<live, backup, before, damages, up, report>>
      BY <1>2 DEF R!CheckRollback, R!Goto
    <2>2. ~Shows(live)
      BY <1>2, <2>1 DEF R!CheckRollback, RecoveryInv, Concluded, Shows
    <2>3. damages \subseteq R!Unnoticed
      BY <2>1, <2>2 DEF RecoveryInv, Worked
    <2>4. damages' \subseteq R!Unnoticed
      BY <2>1, <2>3
    <2>5. QED
      BY <2>1, <2>4 DEF RecoveryInv, Early, Copied, Worked, Concluded, R!AtRest
  <1>3. CASE R!Throws
    <2>1. at # "over" /\ at' = "failed" /\ UNCHANGED <<live, backup, before, damages, report>>
      BY <1>3 DEF R!Throws, R!Goto
    <2>2. QED
      BY <2>1 DEF RecoveryInv, Early, Copied, Worked, Concluded, R!AtRest
  <1>4. CASE R!Finally
    <2>1. /\ at' = "over" /\ UNCHANGED <<live, backup, before, damages>>
          /\ report' = IF at = "passed" THEN "PASS" ELSE "FAIL"
      BY <1>4 DEF R!Finally, R!Goto
    <2>2. QED
      BY <2>1 DEF RecoveryInv, Early, Copied, Worked, Concluded, R!AtRest
  <1>5. CASE UNCHANGED R!recoveryVars
    <2>1. UNCHANGED <<at, live, backup, before, damages, up, report>>
      BY <1>5 DEF R!recoveryVars
    <2>2. Early' /\ Concluded'
      BY <2>1 DEF RecoveryInv, Early, Concluded, R!AtRest
    <2>3. /\ CopyIs(backup)' <=> CopyIs(backup)
          /\ Sound(backup)' <=> Sound(backup)
          /\ Sound(live)' <=> Sound(live)
          /\ (damages \subseteq R!Unnoticed)' <=> damages \subseteq R!Unnoticed
      BY <2>1 DEF CopyIs, Sound, Shows, R!Hidden, R!State, R!Verifies, R!Unnoticed
    <2>4. /\ Shows(backup)' <=> Shows(backup)
          /\ Shows(live)' <=> Shows(live)
          /\ R!Hidden(live)' <=> R!Hidden(live)
          /\ R!State(live)' = R!State(live)
      BY <2>1 DEF Shows, R!Hidden, R!State, R!Verifies
    <2>5. /\ R!Pending(live)' = R!Pending(live)
          /\ R!Scannable(live, "b")' <=> R!Scannable(live, "b")
      BY <2>1 DEF R!Pending, R!Scannable
    <2>6. Copied'
      BY <2>1, <2>3, <2>4 DEF RecoveryInv, Copied
    <2>7. Worked'
      BY <2>1, <2>3, <2>4, <2>5 DEF RecoveryInv, Worked
    <2>8. QED
      BY <2>2, <2>6, <2>7 DEF RecoveryInv
  <1>6. QED
    BY <1>1, <1>2, <1>3, <1>4, <1>5

(* A rehearsal that passes has noticed every damage but altered values in  *)
(* the snapshot, anything done to files or values of the rolled-back copy, *)
(* and a request that reaches across tenants; an undamaged one is never    *)
(* held up; and no copy is made or compared while something runs.          *)
THEOREM RehearsalsEarnTheirPass == R!Spec => []R!PassIsEarned
  <1>1. R!Init => RecoveryInv
    BY DEF R!Init, RecoveryInv, Early, Copied, Worked, Concluded, R!AtRest
  <1>2. RecoveryInv /\ [R!Next]_(R!recoveryVars) => RecoveryInv'
    BY RecoverySetUp, RecoveryRestores, RecoveryWorks, RecoveryEnds DEF R!Next
  <1>3. RecoveryInv => R!PassIsEarned
    <2> SUFFICES ASSUME RecoveryInv PROVE R!PassIsEarned
      OBVIOUS
    <2>1. ASSUME NEW d, Sound(d)
          PROVE  /\ R!Hidden(d) /\ R!State(d) = R!Expected /\ R!Verifies(d, "a") /\ R!Verifies(d, "b")
                 /\ d.genesis["b"] /\ R!Pending(d) = R!T
      BY <2>1, RefiledAnswers DEF Sound, R!T, Tenants
    <2>2. damages = {} => R!Checks
      <3> SUFFICES ASSUME damages = {} PROVE R!Checks
        OBVIOUS
      <3>1. at \in {"two tenants", "audited"} => Sound(live)
        BY DEF RecoveryInv, Early, Sound, Healthy, Values
      <3>2. at = "copied" => live = backup
        BY DEF RecoveryInv, Copied
      <3>3. at \in {"restored", "queues"} => Sound(live)
        BY DEF RecoveryInv, Copied, CopyIs
      <3>4. at = "rolled back" => Sound(live)
        BY DEF RecoveryInv, Worked
      <3>5. at = "worker of B" => R!Pending(live) = {"b"} /\ R!Scannable(live, "b")
        BY DEF RecoveryInv, Worked
      <3>6. at \in {"restored", "rolled back"} => before = R!Expected
        BY DEF RecoveryInv, Concluded
      <3>7. QED
        BY <2>1, <3>1, <3>2, <3>3, <3>4, <3>5, <3>6 DEF R!Checks
    <2>3. QED
      BY <2>2 DEF RecoveryInv, Concluded, R!PassIsEarned
  <1>4. QED
    BY <1>1, <1>2, <1>3, PTL DEF R!Spec

-----------------------------------------------------------------------------
(* The parts side by side: a step of the whole is one of a part, or none.  *)

LEMMA GatesWithin == [Next]_vars => [G!Next]_(G!gateVars)
  <1> SUFFICES ASSUME [Next]_vars PROVE [G!Next]_(G!gateVars)
    OBVIOUS
  <1>1. ASSUME UNCHANGED gates PROVE UNCHANGED G!gateVars
    BY <1>1 DEF gates, G!gateVars
  <1>2. CASE UNCHANGED vars
    BY <1>1, <1>2 DEF vars
  <1>3. CASE Next
    BY <1>1, <1>3 DEF Next, UploadsStep, CsvStep, TenancyStep, ProvisioningStep, RecoveryStep, EdgeStep, WorkbenchStep
  <1>4. QED
    BY <1>2, <1>3

LEMMA RecoveryWithin == [Next]_vars => [R!Next]_(R!recoveryVars)
  <1> SUFFICES ASSUME [Next]_vars PROVE [R!Next]_(R!recoveryVars)
    OBVIOUS
  <1>1. ASSUME UNCHANGED recovery PROVE UNCHANGED R!recoveryVars
    BY <1>1 DEF recovery, R!recoveryVars
  <1>2. CASE UNCHANGED vars
    BY <1>1, <1>2 DEF vars
  <1>3. CASE Next
    BY <1>1, <1>3 DEF Next, UploadsStep, CsvStep, TenancyStep, ProvisioningStep, EdgeStep, WorkbenchStep, GatesStep
  <1>4. QED
    BY <1>2, <1>3

(* A gate or a stage that passes ran every stage, in time; a clean search  *)
(* (findOrphans) leaves only processes listed with another parent; and a   *)
(* rehearsal that passes noticed every damage but those to what it         *)
(* compares with nothing (Unnoticed), and copied at rest.                  *)
THEOREM PassesAreEarned == Spec => []PassIsEarned
  <1>1. Init => G!Init /\ R!Init
    BY DEF Init
  <1>2. Spec => G!Spec
    BY <1>1, GatesWithin, PTL DEF Spec, G!Spec
  <1>3. Spec => R!Spec
    BY <1>1, RecoveryWithin, PTL DEF Spec, R!Spec
  <1>4. QED
    BY <1>2, <1>3, GatesEarnTheirVerdict, RehearsalsEarnTheirPass, PTL DEF PassIsEarned

-----------------------------------------------------------------------------
(* Tenants and scripts.                                                    *)

Clearing == {"resetAll", "resetOne"}
Paths == {"out1", "out2"}
TokenFiles == [tenant : T!Tenants \cup {"none"}, token : Nat]
ScriptSteps == {"none", "checked", "committed", "updated", "cleared", "recorded", "failed", "passed"}
Scripts == [name : {"none", "provision", "login", "issue"} \cup Clearing, step : ScriptSteps,
            tenant : T!Tenants \cup {"none"}, seen : SUBSET T!Tenants,
            out : Paths \cup {"none"}, made : Nat]
TenancyTyped ==
    /\ bootstrap \in [Callers -> {"idle", "created", "committed", "marked", "over"}]
    /\ told \in [Callers -> {0, 201, 409, 500}]
    /\ lock \in Callers \cup {T!Free} /\ tenants \subseteq T!Tenants /\ marker \in BOOLEAN /\ heard \subseteq Callers
    /\ business \subseteq tenants
    /\ issued \in [T!Tenants -> Nat] /\ kept \in [T!Tenants -> Nat] /\ file \in [Paths -> TokenFiles]
    /\ script \in Scripts
    /\ events \in Nat /\ cleared \in Nat /\ mishaps \in Nat

(* The lock is held from the count to the end of the transaction, so while *)
(* it is held no bootstrap has made a tenant.                              *)
Locked ==
    /\ \A c \in Callers : bootstrap[c] = "created" <=> lock = c
    /\ lock # T!Free => T!Bootstrapped = {}
    /\ \A c, d \in T!Bootstrapped : c = d
    /\ \A c \in Callers : bootstrap[c] \in {"idle", "created"} => c \notin tenants
    /\ \A c \in Callers : bootstrap[c] \in {"committed", "marked"} => c \in tenants

Told ==
    /\ \A c \in Callers : told[c] # 0 => bootstrap[c] = "over"
    /\ \A c \in Callers : told[c] = 201 => c \in tenants
    /\ \A c \in Callers : told[c] = 409 => tenants # {}
    /\ \A c \in heard : told[c] = 201
    /\ marker => T!Bootstrapped # {}
    /\ mishaps = 0 => \A c \in T!Bootstrapped : bootstrap[c] \in {"marked", "over"} => marker
    /\ mishaps = 0 => \A c \in T!Bootstrapped : bootstrap[c] = "over" => c \in heard

(* What a script checked still holds when it acts on it.                   *)
Checked ==
    /\ script.name = "provision" /\ script.step = "checked" => "extra" \notin tenants
    /\ script.name = "issue" => script.tenant \in tenants /\ script.out \in Paths
    /\ script.name \in Clearing => script.tenant \in tenants
    /\ script.name = "resetAll" => script.tenant \in Callers /\ tenants = {script.tenant}
    /\ script.step \in {"cleared", "recorded", "failed", "passed"} => script.name \in Clearing
(* Tokens are handed out in the order they are made; the newest is in a    *)
(* file or was read in an answer, or a script is about to write it.        *)
Custody ==
    /\ script.made # 0 => script.name = "issue" /\ script.made <= issued[script.tenant]
    /\ \A o \in Paths : file[o] # T!NoFile => file[o].tenant \in tenants /\ file[o].token <= issued[file[o].tenant]
    /\ \A t \in T!Tenants : (kept[t] # 0 => t \in tenants) /\ kept[t] <= issued[t]
    /\ mishaps = 0 => \A t \in T!Tenants : issued[t] > 1
                                           => kept[t] = issued[t] \/ (script.tenant = t /\ script.made = issued[t])

Counted ==
    /\ events <= cleared
    /\ script.step # "cleared" => cleared <= events + mishaps
    /\ script.step = "cleared" => events < cleared /\ cleared <= events + mishaps + 1
    /\ script.step \in {"recorded", "failed", "passed"} => events > 0

TenancyInv == TenancyTyped /\ Locked /\ Told /\ Checked /\ Custody /\ Counted /\ robbed = {}

LEMMA TenancyConstants ==
    /\ "extra" \in T!Tenants /\ Callers \subseteq T!Tenants /\ "extra" \notin Callers
    /\ T!Free \notin T!Tenants /\ "none" \notin T!Tenants /\ Fictional \subseteq Callers
  BY DeploymentAssumption DEF T!TenancyAssumption, T!Tenants

LEMMA StillCounted ==
    ASSUME NEW e \in Nat, NEW c \in Nat, NEW m \in Nat, NEW n \in Nat, n >= m
    PROVE  (c <= e + m => c <= e + n) /\ (c <= e + m + 1 => c <= e + n + 1)
  OBVIOUS

LEMMA Forborne ==
    ASSUME NEW e \in Nat, NEW c \in Nat, NEW m \in Nat, NEW n \in Nat, n >= m + 1, c <= e + m + 1
    PROVE  c <= e + n
  OBVIOUS

(* What a script has in hand does not change, and nobody gets a token but  *)
(* a new tenant its first.                                                 *)
LEMMA CustodyStands ==
    ASSUME TenancyInv, UNCHANGED <<kept, file>>, script'.tenant = script.tenant \/ script.made = 0,
           script'.made = script.made, script'.made # 0 => script'.name = "issue",
           mishaps' \in Nat, mishaps' >= mishaps,
           \/ UNCHANGED <<tenants, issued>>
           \/ \E t \in T!Tenants \ tenants : tenants' = tenants \cup {t} /\ issued' = [issued EXCEPT ![t] = 1]
    PROVE  Custody'
  <1>0. /\ issued \in [T!Tenants -> Nat] /\ kept \in [T!Tenants -> Nat] /\ tenants \subseteq T!Tenants
        /\ file \in [Paths -> TokenFiles] /\ script \in Scripts
        /\ script.made # 0 => script.tenant \in tenants
        /\ mishaps' = 0 => mishaps = 0
        /\ Custody
    BY DEF TenancyInv, TenancyTyped, Checked, Custody
  <1>1. CASE UNCHANGED <<tenants, issued>>
    <2>1. script'.made # 0 => script'.tenant = script.tenant
      OBVIOUS
    <2>2. \A t \in T!Tenants : issued[t] > 1 /\ script.tenant = t /\ script.made = issued[t] => script'.tenant = t /\ script'.made = issued[t]
      BY <1>0
    <2>3. QED
      BY <1>0, <1>1, <2>1, <2>2 DEF Custody
  <1>2. ASSUME NEW t \in T!Tenants \ tenants, tenants' = tenants \cup {t}, issued' = [issued EXCEPT ![t] = 1]
        PROVE  Custody'
    <2>1. /\ \A u \in T!Tenants : issued'[u] = IF u = t THEN 1 ELSE issued[u]
          /\ kept[t] = 0
      BY <1>0, <1>2 DEF Custody
    <2>2. script'.made # 0 => script'.name = "issue" /\ script'.made <= issued'[script'.tenant]
      <3>1. SUFFICES ASSUME script'.made # 0 PROVE script'.made <= issued'[script'.tenant]
        OBVIOUS
      <3>2. script'.tenant = script.tenant /\ script.tenant \in tenants /\ script.made <= issued[script.tenant]
        BY <1>0, <3>1 DEF Custody
      <3>3. QED
        BY <1>0, <2>1, <3>2
    <2>3. \A o \in Paths : file[o] # T!NoFile => file[o].tenant \in tenants' /\ file[o].token <= issued'[file[o].tenant]
      BY <1>0, <1>2, <2>1 DEF Custody
    <2>4. \A u \in T!Tenants : (kept[u] # 0 => u \in tenants') /\ kept[u] <= issued'[u]
      BY <1>0, <1>2, <2>1 DEF Custody
    <2>5. ASSUME mishaps' = 0, NEW u \in T!Tenants, issued'[u] > 1
          PROVE  kept[u] = issued'[u] \/ (script'.tenant = u /\ script'.made = issued'[u])
      <3>1. u # t /\ issued'[u] = issued[u]
        BY <1>0, <2>1, <2>5
      <3>2. kept[u] = issued[u] \/ (script.tenant = u /\ script.made = issued[u])
        BY <1>0, <2>5, <3>1 DEF Custody
      <3>3. QED
        BY <1>0, <2>5, <3>1, <3>2
    <2>6. QED
      BY <2>2, <2>3, <2>4, <2>5 DEF Custody
  <1>3. QED
    BY <1>1, <1>2

(* The requests change what only they know, the tenants, their tokens and  *)
(* the mishaps; what that asks for so that the scripts are not disturbed.  *)
LEMMA RequestsBesideScripts ==
    ASSUME TenancyInv, UNCHANGED <<business, kept, file, script, events, cleared, robbed>>,
           mishaps' \in Nat, mishaps' >= mishaps,
           \/ UNCHANGED <<tenants, issued>>
           \/ \E c \in Callers : /\ bootstrap[c] = "created" /\ tenants' = tenants \cup {c}
                                 /\ issued' = [issued EXCEPT ![c] = 1]
    PROVE  /\ tenants' \subseteq T!Tenants /\ business' \subseteq tenants' /\ issued' \in [T!Tenants -> Nat]
           /\ Checked' /\ Custody' /\ Counted' /\ robbed' = {}
  <1> USE TenancyConstants
  <1>1. Counted' /\ robbed' = {}
    <2>1. events \in Nat /\ cleared \in Nat /\ mishaps \in Nat /\ mishaps' \in Nat /\ mishaps' >= mishaps
      BY DEF TenancyInv, TenancyTyped
    <2>2. UNCHANGED events /\ UNCHANGED cleared /\ UNCHANGED script /\ UNCHANGED robbed /\ robbed = {} /\ Counted
      BY DEF TenancyInv
    <2>3. /\ cleared <= events + mishaps => cleared <= events + mishaps'
          /\ cleared <= events + mishaps + 1 => cleared <= events + mishaps' + 1
      BY <2>1, StillCounted
    <2>4. QED
      BY <2>2, <2>3 DEF Counted
  <1>2. CASE UNCHANGED <<tenants, issued>>
    <2>1. /\ tenants' \subseteq T!Tenants /\ business' \subseteq tenants' /\ issued' \in [T!Tenants -> Nat]
          /\ Checked'
      BY <1>2 DEF TenancyInv, TenancyTyped, Checked
    <2>2. script'.made # 0 => script'.name = "issue"
      BY DEF TenancyInv, Custody
    <2>3. Custody'
      BY <1>2, <2>2, CustodyStands
    <2>4. QED
      BY <1>1, <2>1, <2>3
  <1>3. ASSUME NEW c \in Callers, bootstrap[c] = "created", tenants' = tenants \cup {c}, issued' = [issued EXCEPT ![c] = 1]
        PROVE  /\ tenants' \subseteq T!Tenants /\ business' \subseteq tenants' /\ issued' \in [T!Tenants -> Nat]
               /\ Checked' /\ Custody'
    <2>1. c \notin tenants /\ T!Bootstrapped = {} /\ c # "extra"
      BY <1>3 DEF TenancyInv, Locked
    <2>2. tenants' \subseteq T!Tenants /\ business' \subseteq tenants' /\ issued' \in [T!Tenants -> Nat]
      BY <1>3 DEF TenancyInv, TenancyTyped
    <2>3. script.name # "resetAll"
      BY <2>1 DEF TenancyInv, Checked, T!Bootstrapped
    <2>4. Checked'
      BY <1>3, <2>1, <2>3 DEF TenancyInv, Checked
    <2>5. script'.made # 0 => script'.name = "issue"
      BY DEF TenancyInv, Custody
    <2>6. Custody'
      BY <1>3, <2>1, <2>5, CustodyStands
    <2>7. QED
      BY <2>2, <2>4, <2>6
  <1>4. QED
    BY <1>1, <1>2, <1>3


LEMMA TenancyRequests ==
    ASSUME TenancyInv, NEW c \in Callers,
           T!CreateTenant(c) \/ T!Commit(c) \/ T!CommitUnheard(c) \/ T!Rollback(c) \/ T!WriteMarker(c) \/ T!AnswerTokens(c)
    PROVE  TenancyInv'
  <1> USE TenancyConstants DEF T!Bootstrapped
  <1>1. CASE T!CreateTenant(c)
    <2>1. /\ bootstrap[c] = "idle" /\ lock = T!Free /\ UNCHANGED <<tenants, marker, heard, issued, mishaps>>
          /\ UNCHANGED <<business, kept, file, script, events, cleared, robbed>>
          /\ \/ /\ tenants # {} /\ told' = [told EXCEPT ![c] = 409] /\ bootstrap' = [bootstrap EXCEPT ![c] = "over"]
                /\ lock' = lock
             \/ /\ tenants = {} /\ bootstrap' = [bootstrap EXCEPT ![c] = "created"] /\ told' = told /\ lock' = c
      BY <1>1 DEF T!CreateTenant, T!Reply, T!Proceed, T!countVars
    <2>2. mishaps' \in Nat /\ mishaps' >= mishaps
      BY <2>1 DEF TenancyInv, TenancyTyped
    <2>3. /\ tenants' \subseteq T!Tenants /\ business' \subseteq tenants' /\ issued' \in [T!Tenants -> Nat]
          /\ Checked' /\ Custody' /\ Counted' /\ robbed' = {}
      BY <2>1, <2>2, RequestsBesideScripts
    <2>4. TenancyTyped'
      BY <2>1, <2>2, <2>3 DEF TenancyInv, TenancyTyped
    <2>5. Locked'
      BY <2>1 DEF TenancyInv, TenancyTyped, Locked
    <2>6. Told'
      BY <2>1 DEF TenancyInv, TenancyTyped, Locked, Told
    <2>7. QED
      BY <2>3, <2>4, <2>5, <2>6 DEF TenancyInv
  <1>2. CASE T!Commit(c)
    <2>1. /\ bootstrap[c] = "created" /\ tenants' = tenants \cup {c} /\ issued' = [issued EXCEPT ![c] = 1] /\ lock' = T!Free
          /\ bootstrap' = [bootstrap EXCEPT ![c] = "committed"] /\ UNCHANGED <<told, marker, heard, mishaps>>
          /\ UNCHANGED <<business, kept, file, script, events, cleared, robbed>>
      BY <1>2 DEF T!Commit, T!Committed, T!Proceed, T!countVars
    <2>2. mishaps' \in Nat /\ mishaps' >= mishaps
      BY <2>1 DEF TenancyInv, TenancyTyped
    <2>3. /\ tenants' \subseteq T!Tenants /\ business' \subseteq tenants' /\ issued' \in [T!Tenants -> Nat]
          /\ Checked' /\ Custody' /\ Counted' /\ robbed' = {}
      BY <2>1, <2>2, RequestsBesideScripts
    <2>4. TenancyTyped'
      BY <2>1, <2>2, <2>3 DEF TenancyInv, TenancyTyped
    <2>5. Locked'
      BY <2>1 DEF TenancyInv, TenancyTyped, Locked
    <2>6. Told'
      BY <2>1 DEF TenancyInv, TenancyTyped, Locked, Told
    <2>7. QED
      BY <2>3, <2>4, <2>5, <2>6 DEF TenancyInv
  <1>3. CASE T!CommitUnheard(c)
    <2>1. /\ bootstrap[c] = "created" /\ tenants' = tenants \cup {c} /\ issued' = [issued EXCEPT ![c] = 1] /\ lock' = T!Free
          /\ bootstrap' = [bootstrap EXCEPT ![c] = "over"] /\ told' = [told EXCEPT ![c] = 500]
          /\ mishaps' = mishaps + 1 /\ UNCHANGED <<marker, heard>>
          /\ UNCHANGED <<business, kept, file, script, events, cleared, robbed>>
      BY <1>3 DEF T!CommitUnheard, T!Committed, T!Reply, T!Mishap, T!countVars
    <2>2. mishaps' \in Nat /\ mishaps' >= mishaps
      BY <2>1 DEF TenancyInv, TenancyTyped
    <2>3. /\ tenants' \subseteq T!Tenants /\ business' \subseteq tenants' /\ issued' \in [T!Tenants -> Nat]
          /\ Checked' /\ Custody' /\ Counted' /\ robbed' = {}
      BY <2>1, <2>2, RequestsBesideScripts
    <2>4. TenancyTyped'
      BY <2>1, <2>2, <2>3 DEF TenancyInv, TenancyTyped
    <2>5. Locked'
      BY <2>1 DEF TenancyInv, TenancyTyped, Locked
    <2>6. Told'
      BY <2>1 DEF TenancyInv, TenancyTyped, Locked, Told
    <2>7. QED
      BY <2>3, <2>4, <2>5, <2>6 DEF TenancyInv
  <1>4. CASE T!Rollback(c)
    <2>1. /\ bootstrap[c] = "created" /\ lock' = T!Free
          /\ bootstrap' = [bootstrap EXCEPT ![c] = "over"] /\ told' = [told EXCEPT ![c] = 500]
          /\ mishaps' = mishaps + 1 /\ UNCHANGED <<tenants, issued, marker, heard>>
          /\ UNCHANGED <<business, kept, file, script, events, cleared, robbed>>
      BY <1>4 DEF T!Rollback, T!Reply, T!Mishap, T!countVars
    <2>2. mishaps' \in Nat /\ mishaps' >= mishaps
      BY <2>1 DEF TenancyInv, TenancyTyped
    <2>3. /\ tenants' \subseteq T!Tenants /\ business' \subseteq tenants' /\ issued' \in [T!Tenants -> Nat]
          /\ Checked' /\ Custody' /\ Counted' /\ robbed' = {}
      BY <2>1, <2>2, RequestsBesideScripts
    <2>4. TenancyTyped'
      BY <2>1, <2>2, <2>3 DEF TenancyInv, TenancyTyped
    <2>5. Locked'
      BY <2>1 DEF TenancyInv, TenancyTyped, Locked
    <2>6. Told'
      BY <2>1 DEF TenancyInv, TenancyTyped, Locked, Told
    <2>7. QED
      BY <2>3, <2>4, <2>5, <2>6 DEF TenancyInv
  <1>5. CASE T!WriteMarker(c)
    <2>1. /\ bootstrap[c] = "committed" /\ bootstrap' = [bootstrap EXCEPT ![c] = "marked"]
          /\ UNCHANGED <<told, lock, tenants, issued, heard>>
          /\ UNCHANGED <<business, kept, file, script, events, cleared, robbed>>
          /\ \/ marker' = TRUE /\ mishaps' = mishaps
             \/ mishaps' = mishaps + 1 /\ marker' = marker
      BY <1>5 DEF T!WriteMarker, T!Proceed, T!Mishap, T!countVars
    <2>2. mishaps' \in Nat /\ mishaps' >= mishaps
      BY <2>1 DEF TenancyInv, TenancyTyped
    <2>3. /\ tenants' \subseteq T!Tenants /\ business' \subseteq tenants' /\ issued' \in [T!Tenants -> Nat]
          /\ Checked' /\ Custody' /\ Counted' /\ robbed' = {}
      BY <2>1, <2>2, RequestsBesideScripts
    <2>4. TenancyTyped'
      BY <2>1, <2>2, <2>3 DEF TenancyInv, TenancyTyped
    <2>5. Locked'
      BY <2>1 DEF TenancyInv, TenancyTyped, Locked
    <2>6. Told'
      BY <2>1 DEF TenancyInv, TenancyTyped, Locked, Told
    <2>7. QED
      BY <2>3, <2>4, <2>5, <2>6 DEF TenancyInv
  <1>6. CASE T!AnswerTokens(c)
    <2>1. /\ bootstrap[c] = "marked" /\ bootstrap' = [bootstrap EXCEPT ![c] = "over"] /\ told' = [told EXCEPT ![c] = 201]
          /\ UNCHANGED <<lock, tenants, issued, marker>>
          /\ UNCHANGED <<business, kept, file, script, events, cleared, robbed>>
          /\ \/ heard' = heard \cup {c} /\ mishaps' = mishaps
             \/ mishaps' = mishaps + 1 /\ heard' = heard
      BY <1>6 DEF T!AnswerTokens, T!Reply, T!Mishap, T!countVars
    <2>2. mishaps' \in Nat /\ mishaps' >= mishaps
      BY <2>1 DEF TenancyInv, TenancyTyped
    <2>3. /\ tenants' \subseteq T!Tenants /\ business' \subseteq tenants' /\ issued' \in [T!Tenants -> Nat]
          /\ Checked' /\ Custody' /\ Counted' /\ robbed' = {}
      BY <2>1, <2>2, RequestsBesideScripts
    <2>4. TenancyTyped'
      BY <2>1, <2>2, <2>3 DEF TenancyInv, TenancyTyped
    <2>5. Locked'
      BY <2>1 DEF TenancyInv, TenancyTyped, Locked
    <2>6. Told'
      BY <2>1 DEF TenancyInv, TenancyTyped, Locked, Told
    <2>7. QED
      BY <2>3, <2>4, <2>5, <2>6 DEF TenancyInv
  <1>7. QED
    BY <1>1, <1>2, <1>3, <1>4, <1>5, <1>6

LEMMA TenancyCrash ==
    ASSUME TenancyInv, T!CrashApi
    PROVE  TenancyInv'
  <1> USE TenancyConstants DEF T!Bootstrapped
  <1>1. /\ bootstrap' = [c \in Callers |-> IF bootstrap[c] = "idle" THEN "idle" ELSE "over"] /\ lock' = T!Free
        /\ mishaps' = mishaps + 1 /\ UNCHANGED <<told, tenants, issued, marker, heard>>
        /\ UNCHANGED <<business, kept, file, script, events, cleared, robbed>>
    BY DEF T!CrashApi, T!Mishap, T!countVars
  <1>2. mishaps' \in Nat /\ mishaps' >= mishaps
    BY <1>1 DEF TenancyInv, TenancyTyped
  <1>3. /\ tenants' \subseteq T!Tenants /\ business' \subseteq tenants' /\ issued' \in [T!Tenants -> Nat]
        /\ Checked' /\ Custody' /\ Counted' /\ robbed' = {}
    BY <1>1, <1>2, RequestsBesideScripts
  <1>4. TenancyTyped'
    BY <1>1, <1>2, <1>3 DEF TenancyInv, TenancyTyped
  <1>5. Locked'
    BY <1>1 DEF TenancyInv, TenancyTyped, Locked
  <1>6. Told'
    BY <1>1 DEF TenancyInv, TenancyTyped, Locked, Told
  <1>7. QED
    BY <1>3, <1>4, <1>5, <1>6 DEF TenancyInv

(* The scripts add the synthetic tenant at most, and touch no request.     *)
LEMMA ScriptsBesideRequests ==
    ASSUME TenancyInv, UNCHANGED <<bootstrap, told, lock, marker, heard>>, tenants' \in {tenants, tenants \cup {"extra"}},
           mishaps' \in Nat, mishaps' >= mishaps
    PROVE  /\ Locked' /\ Told'
           /\ bootstrap' \in [Callers -> {"idle", "created", "committed", "marked", "over"}]
           /\ told' \in [Callers -> {0, 201, 409, 500}] /\ lock' \in Callers \cup {T!Free}
           /\ marker' \in BOOLEAN /\ heard' \subseteq Callers /\ tenants' \subseteq T!Tenants
  <1> USE TenancyConstants
  <1>1. T!Bootstrapped' = T!Bootstrapped /\ \A c \in Callers : c \in tenants' <=> c \in tenants
    BY DEF T!Bootstrapped
  <1>2. mishaps' = 0 => mishaps = 0
    BY DEF TenancyInv, TenancyTyped
  <1>3. Locked'
    BY <1>1 DEF TenancyInv, Locked
  <1>4. tenants # {} => tenants' # {}
    OBVIOUS
  <1>5. Told'
    BY <1>1, <1>2, <1>4 DEF TenancyInv, Told
  <1>6. QED
    BY <1>3, <1>5 DEF TenancyInv, TenancyTyped

LEMMA ScriptMoves ==
    ASSUME script \in Scripts, NEW s \in ScriptSteps, script' = [script EXCEPT !.step = s]
    PROVE  /\ script' \in Scripts /\ script'.step = s /\ script'.name = script.name
           /\ script'.tenant = script.tenant /\ script'.seen = script.seen
           /\ script'.out = script.out /\ script'.made = script.made
  BY DEF Scripts

LEMMA ScriptIssues ==
    ASSUME script \in Scripts, NEW n \in Nat, script' = [script EXCEPT !.step = "updated", !.made = n]
    PROVE  /\ script' \in Scripts /\ script'.step = "updated" /\ script'.name = script.name
           /\ script'.tenant = script.tenant /\ script'.out = script.out /\ script'.made = n
  BY DEF Scripts, ScriptSteps

LEMMA ScriptIdles ==
    /\ T!Idle \in Scripts /\ T!Idle.name = "none" /\ T!Idle.step = "none" /\ T!Idle.made = 0
  BY DEF T!Idle, Scripts, ScriptSteps

(* A script that starts: what it checked is what the invariant wants kept. *)
LEMMA ScriptStarts ==
    ASSUME TenancyInv, NEW n, NEW t \in T!Tenants, NEW o \in Paths \cup {"none"}, T!StartsWith(n, t, o),
           n \in {"provision", "login", "issue"} \cup Clearing,
           UNCHANGED <<bootstrap, told, lock, marker, heard, tenants, business, issued, kept, file, events, cleared, robbed, mishaps>>,
           n = "provision" => "extra" \notin tenants,
           n = "issue" => t \in tenants /\ o \in Paths,
           n \in Clearing => t \in tenants,
           n = "resetAll" => t \in Callers /\ tenants = {t}
    PROVE  TenancyInv'
  <1>1. script' = [name |-> n, step |-> "checked", tenant |-> t, seen |-> business,
                     out |-> o, made |-> 0]
        /\ script = T!Idle
    BY DEF T!StartsWith
  <1>2. /\ script' \in Scripts /\ script'.name = n /\ script'.step = "checked" /\ script'.tenant = t
        /\ script.step = "none" /\ script'.out = o /\ script'.made = 0 /\ script.made = 0
    BY <1>1, ScriptIdles, TenancyConstants DEF Scripts, ScriptSteps, TenancyInv, TenancyTyped
  <1>3. mishaps \in Nat /\ mishaps' \in Nat /\ mishaps' >= mishaps
    BY DEF TenancyInv, TenancyTyped
  <1>4. TenancyTyped'
    BY <1>2 DEF TenancyInv, TenancyTyped
  <1>5. Checked'
    BY <1>2 DEF TenancyInv, Checked, Clearing
  <1>6. Counted'
    <2>1. Counted /\ UNCHANGED events /\ UNCHANGED cleared /\ UNCHANGED mishaps
      BY DEF TenancyInv
    <2>2. QED
      BY <1>2, <2>1 DEF Counted
  <1>7. Custody'
    BY <1>2, <1>3, CustodyStands
  <1>8. QED
    BY <1>3, <1>4, <1>5, <1>6, <1>7, ScriptsBesideRequests DEF TenancyInv

LEMMA TenancyStarts ==
    ASSUME TenancyInv, NEW t \in T!Tenants,
           T!ProvisionTenant \/ T!ProvisionLogin(t) \/ (\E o \in Paths : T!IssueToken(t, o)) \/ T!ResetAll(t) \/ T!ResetOne(t)
    PROVE  TenancyInv'
  <1> USE DEF T!Starts
  <1>1. CASE T!ProvisionTenant
    <2>1. /\ T!Starts("provision", "extra") /\ "extra" \notin tenants
          /\ UNCHANGED <<bootstrap, told, lock, marker, heard, tenants, business, issued, kept, file, events, cleared, robbed, mishaps>>
      BY <1>1 DEF T!ProvisionTenant, T!requestVars, T!countVars
    <2>2. QED
      BY <2>1, ScriptStarts, TenancyConstants DEF Clearing
  <1>2. CASE T!ProvisionLogin(t)
    <2>1. /\ T!Starts("login", t)
          /\ UNCHANGED <<bootstrap, told, lock, marker, heard, tenants, business, issued, kept, file, events, cleared, robbed, mishaps>>
      BY <1>2 DEF T!ProvisionLogin, T!requestVars, T!countVars
    <2>2. QED
      BY <2>1, ScriptStarts, TenancyConstants DEF Clearing
  <1>3. ASSUME NEW o \in Paths, T!IssueToken(t, o) PROVE TenancyInv'
    <2>1. /\ T!StartsWith("issue", t, o) /\ t \in tenants
          /\ UNCHANGED <<bootstrap, told, lock, marker, heard, tenants, business, issued, kept, file, events, cleared, robbed, mishaps>>
      BY <1>3 DEF T!IssueToken, T!requestVars, T!countVars
    <2>2. QED
      BY <2>1, ScriptStarts, TenancyConstants DEF Clearing
  <1>4. CASE T!ResetAll(t)
    <2>1. /\ T!Starts("resetAll", t) /\ t \in Callers /\ tenants = {t}
          /\ UNCHANGED <<bootstrap, told, lock, marker, heard, tenants, business, issued, kept, file, events, cleared, robbed, mishaps>>
      BY <1>4 DEF T!ResetAll, T!TheDemonstration, T!requestVars, T!countVars
    <2>2. QED
      BY <2>1, ScriptStarts, TenancyConstants DEF Clearing
  <1>5. CASE T!ResetOne(t)
    <2>1. /\ T!Starts("resetOne", t) /\ t \in tenants
          /\ UNCHANGED <<bootstrap, told, lock, marker, heard, tenants, business, issued, kept, file, events, cleared, robbed, mishaps>>
      BY <1>5 DEF T!ResetOne, T!requestVars, T!countVars
    <2>2. QED
      BY <2>1, ScriptStarts, TenancyConstants DEF Clearing
  <1>6. QED
    BY <1>1, <1>2, <1>3, <1>4, <1>5

(* A script that ends, whatever it has done.                               *)
LEMMA ScriptEnds ==
    ASSUME TenancyInv, script' = T!Idle, mishaps' \in Nat, mishaps' >= mishaps,
           script.step = "cleared" => mishaps' >= mishaps + 1,
           UNCHANGED <<bootstrap, told, lock, marker, heard, tenants, business, issued, events, cleared, robbed>>,
           kept' \in [T!Tenants -> Nat], file' \in [Paths -> TokenFiles], Custody'
    PROVE  TenancyInv'
  <1>1. script' \in Scripts /\ script'.name = "none" /\ script'.step = "none"
    BY ScriptIdles
  <1>2. TenancyTyped'
    BY <1>1 DEF TenancyInv, TenancyTyped
  <1>3. Checked'
    BY <1>1 DEF TenancyInv, Checked, Clearing
  <1>4. Counted'
    <2>1. /\ events \in Nat /\ cleared \in Nat /\ mishaps \in Nat /\ mishaps' \in Nat /\ mishaps' >= mishaps
          /\ script.step = "cleared" => mishaps' >= mishaps + 1
          /\ UNCHANGED events /\ UNCHANGED cleared /\ Counted
      BY DEF TenancyInv, TenancyTyped
    <2>2. cleared <= events + mishaps'
      <3>1. CASE script.step = "cleared"
        <4>1. cleared <= events + mishaps + 1 /\ mishaps' >= mishaps + 1
          BY <2>1, <3>1 DEF Counted
        <4>2. QED
          BY <2>1, <4>1, Forborne
      <3>2. CASE script.step # "cleared"
        <4>1. cleared <= events + mishaps
          BY <2>1, <3>2 DEF Counted
        <4>2. QED
          BY <2>1, <4>1, StillCounted
      <3>3. QED
        BY <3>1, <3>2
    <2>3. QED
      BY <1>1, <2>1, <2>2 DEF Counted
  <1>5. QED
    BY <1>2, <1>3, <1>4, ScriptsBesideRequests DEF TenancyInv

LEMMA TenancyScripts ==
    ASSUME TenancyInv,
           \/ T!ProvisionCommits \/ T!ProvisionVerifies \/ T!LoginCommits \/ T!IssueUpdates \/ T!IssueWrites
           \/ T!ResetCommits \/ T!ResetRecords \/ T!ResetVerifies \/ T!ResetExits \/ T!ScriptDies
    PROVE  TenancyInv'
  <1> USE TenancyConstants
  <1>0. /\ script \in Scripts /\ mishaps \in Nat /\ events \in Nat /\ cleared \in Nat
        /\ file \in [Paths -> TokenFiles] /\ kept \in [T!Tenants -> Nat] /\ Custody
        /\ issued \in [T!Tenants -> Nat] /\ business \subseteq tenants /\ tenants \subseteq T!Tenants
        /\ mishaps >= mishaps
    BY DEF TenancyInv, TenancyTyped, Checked
  <1>1. CASE T!ProvisionCommits
    <2>1. /\ script.name = "provision" /\ script.step = "checked" /\ tenants' = tenants \cup {"extra"}
          /\ issued' = [issued EXCEPT !["extra"] = 1] /\ script' = [script EXCEPT !.step = "committed"]
          /\ UNCHANGED <<bootstrap, told, lock, marker, heard, business, kept, file, events, cleared, robbed, mishaps>>
      BY <1>1 DEF T!ProvisionCommits, T!ScriptAt, T!Then, T!requestVars, T!countVars
    <2>2. /\ script' \in Scripts /\ script'.name = "provision" /\ script'.step = "committed"
          /\ script'.made = script.made /\ script'.tenant = script.tenant
      BY <1>0, <2>1, ScriptMoves DEF ScriptSteps
    <2>3. "extra" \notin tenants /\ script.made = 0
      BY <1>0, <2>1 DEF TenancyInv, Checked, Custody
    <2>4. /\ Locked' /\ Told'
          /\ bootstrap' \in [Callers -> {"idle", "created", "committed", "marked", "over"}]
          /\ told' \in [Callers -> {0, 201, 409, 500}] /\ lock' \in Callers \cup {T!Free}
          /\ marker' \in BOOLEAN /\ heard' \subseteq Callers /\ tenants' \subseteq T!Tenants
      BY <1>0, <2>1, ScriptsBesideRequests
    <2>5. TenancyTyped'
      BY <1>0, <2>1, <2>2, <2>4 DEF TenancyTyped
    <2>6. Checked'
      BY <1>0, <2>1, <2>2, <2>3 DEF Checked, Clearing
    <2>7. Counted' /\ robbed' = {}
      BY <2>1, <2>2 DEF TenancyInv, Counted
    <2>8. Custody'
      BY <1>0, <2>1, <2>2, <2>3, CustodyStands
    <2>9. QED
      BY <2>4, <2>5, <2>6, <2>7, <2>8 DEF TenancyInv
  <1>2. CASE T!ProvisionVerifies \/ T!LoginCommits \/ T!ResetExits
    <2>1. /\ script' = T!Idle /\ script.step # "cleared"
          /\ UNCHANGED <<bootstrap, told, lock, marker, heard, tenants, business, issued, events, cleared, robbed>>
          /\ UNCHANGED file /\ UNCHANGED kept /\ UNCHANGED mishaps /\ script.name # "issue"
      BY <1>2 DEF TenancyInv, Checked, Clearing, T!ProvisionVerifies, T!LoginCommits, T!ResetExits, T!ScriptAt, T!Exits, T!requestVars, T!countVars
    <2>2. script'.made = 0 /\ script.made = 0
      BY <1>0, <2>1, ScriptIdles DEF Custody
    <2>3. Custody'
      BY <1>0, <2>1, <2>2, CustodyStands
    <2>4. QED
      BY <1>0, <2>1, <2>3, ScriptEnds
  <1>3. CASE T!IssueUpdates
    <2>1. /\ script.name = "issue" /\ script.step = "checked" /\ issued' = [issued EXCEPT ![script.tenant] = @ + 1]
          /\ script' = [script EXCEPT !.step = "updated", !.made = issued[script.tenant] + 1]
          /\ UNCHANGED <<bootstrap, told, lock, marker, heard, tenants, business, kept, file, events, cleared, robbed, mishaps>>
      BY <1>3 DEF T!IssueUpdates, T!ScriptAt, T!Then, T!requestVars, T!countVars
    <2>3. script.tenant \in tenants /\ script.tenant \in T!Tenants /\ script.out \in Paths
      BY <1>0, <2>1 DEF TenancyInv, Checked
    <2>2. /\ script' \in Scripts /\ script'.name = "issue" /\ script'.step = "updated"
          /\ script'.tenant = script.tenant /\ script'.out = script.out /\ script'.made = issued[script.tenant] + 1
      <3>1. issued[script.tenant] + 1 \in Nat
        BY <1>0, <2>3
      <3>2. PICK n \in Nat : n = issued[script.tenant] + 1
        BY <3>1
      <3>3. script' = [script EXCEPT !.step = "updated", !.made = n]
        BY <2>1, <3>2
      <3>4. QED
        BY <1>0, <2>1, <3>2, <3>3, ScriptIssues
    <2>4. issued' \in [T!Tenants -> Nat]
      BY <1>0, <2>1, <2>3
    <2>5. TenancyTyped'
      BY <2>1, <2>2, <2>4 DEF TenancyInv, TenancyTyped
    <2>6. Checked'
      BY <1>0, <2>1, <2>2, <2>3 DEF Checked, Clearing
    <2>7. Counted' /\ robbed' = {}
      BY <2>1, <2>2 DEF TenancyInv, Counted
    <2>8. Custody'
      <3>1. /\ \A t \in T!Tenants : issued'[t] = IF t = script.tenant THEN issued[t] + 1 ELSE issued[t]
            /\ \A t \in T!Tenants : issued[t] \in Nat /\ kept[t] \in Nat /\ kept[t] <= issued[t]
        BY <1>0, <2>1, <2>3 DEF Custody
      <3>2. script'.made <= issued'[script'.tenant]
        BY <2>2, <2>3, <3>1
      <3>3. \A o \in Paths : file[o] # T!NoFile => file[o].tenant \in tenants /\ file[o].token <= issued'[file[o].tenant]
        <4>1. SUFFICES ASSUME NEW o \in Paths, file[o] # T!NoFile
                       PROVE  file[o].tenant \in tenants /\ file[o].token <= issued'[file[o].tenant]
          OBVIOUS
        <4>2. file[o].tenant \in tenants /\ file[o].token <= issued[file[o].tenant] /\ file[o].token \in Nat
          BY <1>0, <4>1 DEF Custody, TokenFiles
        <4>3. QED
          BY <1>0, <3>1, <4>2
      <3>4. \A t \in T!Tenants : (kept[t] # 0 => t \in tenants) /\ kept[t] <= issued'[t]
        BY <1>0, <3>1 DEF Custody
      <3>5. ASSUME mishaps = 0, NEW t \in T!Tenants, issued'[t] > 1
            PROVE  kept[t] = issued'[t] \/ (script'.tenant = t /\ script'.made = issued'[t])
        <4>1. CASE t = script.tenant
          BY <2>2, <3>1, <4>1
        <4>2. CASE t # script.tenant
          BY <1>0, <3>1, <3>5, <4>2 DEF Custody
        <4>3. QED
          BY <4>1, <4>2
      <3>6. QED
        BY <2>1, <2>2, <3>2, <3>3, <3>4, <3>5 DEF Custody
    <2>9. QED
      BY <1>0, <2>1, <2>5, <2>6, <2>7, <2>8, ScriptsBesideRequests DEF TenancyInv
  <1>4. CASE T!IssueWrites
    <2>1. /\ script.name = "issue" /\ script.step = "updated" /\ script' = T!Idle
          /\ file' = [file EXCEPT ![script.out] = [tenant |-> script.tenant, token |-> script.made]]
          /\ kept' = [kept EXCEPT ![script.tenant] = IF @ < script.made THEN script.made ELSE @]
          /\ UNCHANGED <<bootstrap, told, lock, marker, heard, tenants, business, issued, events, cleared, robbed, mishaps>>
      BY <1>4 DEF T!IssueWrites, T!ScriptAt, T!Exits, T!requestVars, T!countVars
    <2>2. /\ script.tenant \in tenants /\ script.tenant \in T!Tenants /\ script.out \in Paths /\ script.made \in Nat
          /\ script.made <= issued[script.tenant]
      <3>1. script.made # 0 => script.made <= issued[script.tenant]
        BY <1>0 DEF Custody
      <3>2. script.tenant \in T!Tenants /\ issued[script.tenant] \in Nat
        BY <1>0, <2>1 DEF TenancyInv, Checked
      <3>3. QED
        BY <1>0, <2>1, <3>1, <3>2 DEF TenancyInv, Checked, Scripts
    <2>3. /\ file' \in [Paths -> TokenFiles] /\ kept' \in [T!Tenants -> Nat]
          /\ \A o \in Paths : file'[o] = IF o = script.out THEN [tenant |-> script.tenant, token |-> script.made] ELSE file[o]
          /\ \A t \in T!Tenants : kept'[t] = IF t = script.tenant /\ kept[t] < script.made THEN script.made ELSE kept[t]
      BY <1>0, <2>1, <2>2 DEF TokenFiles
    <2>4. script'.made = 0
      BY <2>1, ScriptIdles
    <2>5. Custody'
      <3>1. \A t \in T!Tenants : issued[t] \in Nat /\ kept[t] \in Nat /\ kept[t] <= issued[t] /\ (kept[t] # 0 => t \in tenants)
        BY <1>0 DEF Custody
      <3>2. \A o \in Paths : file'[o] # T!NoFile => file'[o].tenant \in tenants /\ file'[o].token <= issued[file'[o].tenant]
        BY <1>0, <2>2, <2>3 DEF Custody
      <3>3. \A t \in T!Tenants : (kept'[t] # 0 => t \in tenants) /\ kept'[t] <= issued[t]
        BY <2>2, <2>3, <3>1
      <3>4. ASSUME mishaps = 0, NEW t \in T!Tenants, issued[t] > 1
            PROVE  kept'[t] = issued[t]
        <4>1. kept[t] = issued[t] \/ (script.tenant = t /\ script.made = issued[t])
          BY <1>0, <3>4 DEF Custody
        <4>2. QED
          BY <2>2, <2>3, <3>1, <4>1
      <3>5. QED
        BY <2>1, <2>4, <3>2, <3>3, <3>4 DEF Custody
    <2>6. QED
      BY <1>0, <2>1, <2>3, <2>5, ScriptEnds
  <1>5. CASE T!ResetCommits
    <2>1. /\ script.name \in Clearing /\ script.step = "checked"
          /\ business' = IF script.name = "resetAll" THEN {} ELSE business \ {script.tenant}
          /\ robbed' = robbed \cup ((business \ business') \ {script.tenant})
          /\ cleared' = cleared + 1 /\ script' = [script EXCEPT !.step = "cleared"]
          /\ UNCHANGED <<bootstrap, told, lock, marker, heard, tenants, issued, kept, file, events, mishaps>>
      BY <1>5 DEF T!ResetCommits, T!Then, T!requestVars, Clearing
    <2>2. /\ script' \in Scripts /\ script'.name = script.name /\ script'.step = "cleared"
          /\ script'.tenant = script.tenant /\ script'.made = script.made
      BY <1>0, <2>1, ScriptMoves DEF ScriptSteps
    <2>3. robbed' = {} /\ business' \subseteq tenants
      <3>1. script.name = "resetAll" => tenants = {script.tenant}
        BY DEF TenancyInv, Checked
      <3>2. robbed = {}
        BY DEF TenancyInv
      <3>3. QED
        BY <1>0, <2>1, <3>1, <3>2
    <2>4. TenancyTyped'
      BY <1>0, <2>1, <2>2, <2>3 DEF TenancyInv, TenancyTyped
    <2>5. Checked'
      BY <1>0, <2>1, <2>2 DEF TenancyInv, Checked, Clearing
    <2>6. Counted'
      <3>1. cleared <= events + mishaps /\ events <= cleared
        BY <2>1 DEF TenancyInv, Counted
      <3>2. events <= cleared + 1 /\ events < cleared + 1 /\ cleared + 1 <= events + mishaps + 1
        BY <1>0, <3>1
      <3>3. QED
        BY <2>1, <2>2, <3>2 DEF Counted
    <2>7. Custody'
      BY <1>0, <2>1, <2>2, CustodyStands DEF Custody
    <2>8. QED
      BY <1>0, <2>1, <2>3, <2>4, <2>5, <2>6, <2>7, ScriptsBesideRequests DEF TenancyInv
  <1>6. CASE T!ResetRecords
    <2>1. /\ script.name \in Clearing /\ script.step = "cleared"
          /\ events' = events + 1 /\ script' = [script EXCEPT !.step = "recorded"]
          /\ UNCHANGED <<bootstrap, told, lock, marker, heard, tenants, business, issued, kept, file, cleared, robbed, mishaps>>
      BY <1>6 DEF T!ResetRecords, T!Then, T!requestVars, Clearing
    <2>2. /\ script' \in Scripts /\ script'.name = script.name /\ script'.step = "recorded"
          /\ script'.tenant = script.tenant /\ script'.made = script.made
      BY <1>0, <2>1, ScriptMoves DEF ScriptSteps
    <2>3. TenancyTyped'
      BY <1>0, <2>1, <2>2 DEF TenancyInv, TenancyTyped
    <2>4. Checked'
      BY <1>0, <2>1, <2>2 DEF TenancyInv, Checked, Clearing
    <2>5. Counted'
      <3>1. events < cleared /\ cleared <= events + mishaps + 1
        BY <2>1 DEF TenancyInv, Counted
      <3>2. events + 1 <= cleared /\ cleared <= events + 1 + mishaps /\ events + 1 > 0
        BY <1>0, <3>1
      <3>3. QED
        BY <2>1, <2>2, <3>2 DEF Counted
    <2>6. Custody'
      BY <1>0, <2>1, <2>2, CustodyStands DEF Custody
    <2>7. QED
      BY <1>0, <2>1, <2>3, <2>4, <2>5, <2>6, ScriptsBesideRequests DEF TenancyInv
  <1>7. CASE T!ResetVerifies
    <2>1. PICK s \in {"failed", "passed"} : script' = [script EXCEPT !.step = s]
      BY <1>7 DEF T!ResetVerifies, T!Then
    <2>2. /\ script.name \in Clearing /\ script.step = "recorded"
          /\ UNCHANGED <<bootstrap, told, lock, marker, heard, tenants, business, issued, kept, file, events, cleared, robbed, mishaps>>
      BY <1>7 DEF T!ResetVerifies, T!requestVars, T!countVars, Clearing
    <2>3. /\ script' \in Scripts /\ script'.name = script.name /\ script'.step = s
          /\ script'.tenant = script.tenant /\ script'.made = script.made
      BY <1>0, <2>1, ScriptMoves DEF ScriptSteps
    <2>4. TenancyTyped'
      BY <2>2, <2>3 DEF TenancyInv, TenancyTyped
    <2>5. Checked'
      BY <2>1, <2>2, <2>3 DEF TenancyInv, Checked, Clearing
    <2>6. Counted' /\ robbed' = {}
      BY <2>1, <2>2, <2>3 DEF TenancyInv, Counted
    <2>7. Custody'
      BY <1>0, <2>2, <2>3, CustodyStands DEF Custody
    <2>8. QED
      BY <1>0, <2>2, <2>4, <2>5, <2>6, <2>7, ScriptsBesideRequests DEF TenancyInv
  <1>8. CASE T!ScriptDies
    <2>1. /\ script' = T!Idle /\ mishaps' = mishaps + 1 /\ UNCHANGED file /\ UNCHANGED kept
          /\ UNCHANGED <<bootstrap, told, lock, marker, heard, tenants, business, issued, events, cleared, robbed>>
      BY <1>8 DEF T!ScriptDies, T!Exits, T!Mishap, T!requestVars, T!countVars
    <2>2. mishaps' \in Nat /\ mishaps' >= mishaps /\ mishaps' >= mishaps + 1
      BY <1>0, <2>1
    <2>3. script'.made = 0 /\ mishaps' # 0
      BY <1>0, <2>1, ScriptIdles
    <2>4. Custody'
      BY <1>0, <2>1, <2>3 DEF Custody
    <2>5. QED
      BY <1>0, <2>1, <2>2, <2>4, ScriptEnds
  <1>9. QED
    BY <1>1, <1>2, <1>3, <1>4, <1>5, <1>6, <1>7, <1>8

LEMMA TenancyOthers ==
    ASSUME TenancyInv, NEW t \in T!Tenants, \/ T!Import(t) \/ T!RotateCredential(t)
           \/ (\E o \in Paths : T!RemoveFile(o)) \/ UNCHANGED T!tenancyVars
    PROVE  TenancyInv'
  <1>1. CASE T!Import(t)
    <2>1. /\ t \in tenants /\ business' = business \cup {t}
          /\ UNCHANGED <<bootstrap, told, lock, marker, heard, tenants, issued, kept, file, script, events, cleared, robbed, mishaps>>
      BY <1>1 DEF T!Import, T!requestVars, T!countVars
    <2>2. TenancyTyped' /\ Locked' /\ Told'
      BY <2>1 DEF TenancyInv, TenancyTyped, Locked, Told, T!Bootstrapped
    <2>3. Checked' /\ Custody' /\ Counted' /\ robbed' = {}
      BY <2>1 DEF TenancyInv, Checked, Custody, Counted
    <2>4. QED
      BY <2>2, <2>3 DEF TenancyInv
  <1>2. ASSUME NEW o \in Paths, T!RemoveFile(o) PROVE TenancyInv'
    <2>1. /\ file' = [file EXCEPT ![o] = T!NoFile]
          /\ UNCHANGED <<bootstrap, told, lock, marker, heard, tenants, business, issued, kept, script, events, cleared, robbed, mishaps>>
      BY <1>2 DEF T!RemoveFile, T!requestVars, T!countVars
    <2>2. /\ file' \in [Paths -> TokenFiles]
          /\ \A q \in Paths : file'[q] = IF q = o THEN T!NoFile ELSE file[q]
      BY <2>1 DEF TenancyInv, TenancyTyped, TokenFiles, T!NoFile
    <2>3. TenancyTyped' /\ Locked' /\ Told'
      BY <2>1, <2>2 DEF TenancyInv, TenancyTyped, Locked, Told, T!Bootstrapped
    <2>4. Checked' /\ Counted' /\ robbed' = {}
      BY <2>1 DEF TenancyInv, Checked, Counted
    <2>5. Custody'
      BY <2>1, <2>2 DEF TenancyInv, Custody
    <2>6. QED
      BY <2>3, <2>4, <2>5 DEF TenancyInv
  <1>3. CASE T!RotateCredential(t)
    <2>1. /\ t \in tenants /\ issued' = [issued EXCEPT ![t] = @ + 1]
          /\ \/ kept' = [kept EXCEPT ![t] = issued'[t]] /\ UNCHANGED mishaps
             \/ mishaps' = mishaps + 1 /\ UNCHANGED kept
          /\ UNCHANGED <<bootstrap, told, lock, marker, heard, tenants, business, file, script, events, cleared, robbed>>
      BY <1>3 DEF T!RotateCredential, T!Mishap, T!requestVars, T!countVars
    <2>2. /\ issued \in [T!Tenants -> Nat] /\ kept \in [T!Tenants -> Nat] /\ mishaps \in Nat /\ script \in Scripts
          /\ file \in [Paths -> TokenFiles] /\ Custody /\ tenants \subseteq T!Tenants
          /\ script.made # 0 => script.tenant \in tenants
          /\ \A u \in T!Tenants : issued[u] \in Nat /\ kept[u] \in Nat /\ kept[u] <= issued[u]
      BY DEF TenancyInv, TenancyTyped, Checked, Custody
    <2>3. /\ issued' \in [T!Tenants -> Nat] /\ kept' \in [T!Tenants -> Nat] /\ mishaps' \in Nat /\ mishaps' >= mishaps
          /\ \A u \in T!Tenants : issued'[u] = IF u = t THEN issued[u] + 1 ELSE issued[u]
          /\ \A u \in T!Tenants : kept'[u] = kept[u] \/ (u = t /\ kept'[u] = issued'[u])
          /\ mishaps' = 0 => mishaps = 0 /\ kept'[t] = issued'[t]
      BY <2>1, <2>2
    <2>4. TenancyTyped'
      BY <2>1, <2>3 DEF TenancyInv, TenancyTyped
    <2>5. Locked'
      BY <2>1 DEF TenancyInv, Locked, T!Bootstrapped
    <2>6. Told'
      BY <2>1, <2>3 DEF TenancyInv, Told, T!Bootstrapped
    <2>7. Checked'
      BY <2>1 DEF TenancyInv, Checked
    <2>8. Counted' /\ robbed' = {}
      <3>1. events \in Nat /\ cleared \in Nat /\ Counted /\ robbed = {}
        BY DEF TenancyInv, TenancyTyped
      <3>2. /\ cleared <= events + mishaps => cleared <= events + mishaps'
            /\ cleared <= events + mishaps + 1 => cleared <= events + mishaps' + 1
        BY <2>2, <2>3, <3>1, StillCounted
      <3>3. QED
        BY <2>1, <3>1, <3>2 DEF Counted
    <2>9. Custody'
      <3>1. script.made # 0 => script.name = "issue" /\ script.made <= issued'[script.tenant]
        <4>1. SUFFICES ASSUME script.made # 0 PROVE script.name = "issue" /\ script.made <= issued'[script.tenant]
          OBVIOUS
        <4>2. /\ script.name = "issue" /\ script.made <= issued[script.tenant] /\ script.tenant \in T!Tenants
              /\ script.made \in Nat
          BY <2>2, <4>1 DEF Custody, Scripts
        <4>3. QED
          BY <2>2, <2>3, <4>2
      <3>2. \A q \in Paths : file[q] # T!NoFile => file[q].tenant \in tenants /\ file[q].token <= issued'[file[q].tenant]
        <4>1. SUFFICES ASSUME NEW q \in Paths, file[q] # T!NoFile
                       PROVE  file[q].tenant \in tenants /\ file[q].token <= issued'[file[q].tenant]
          OBVIOUS
        <4>2. /\ file[q].tenant \in tenants /\ file[q].tenant \in T!Tenants /\ file[q].token \in Nat
              /\ file[q].token <= issued[file[q].tenant]
          BY <2>2, <4>1 DEF Custody, TokenFiles
        <4>3. QED
          BY <2>2, <2>3, <4>2
      <3>3. \A u \in T!Tenants : (kept'[u] # 0 => u \in tenants) /\ kept'[u] <= issued'[u]
        BY <2>1, <2>2, <2>3 DEF Custody
      <3>4. ASSUME mishaps' = 0, NEW u \in T!Tenants, issued'[u] > 1
            PROVE  kept'[u] = issued'[u] \/ (script.tenant = u /\ script.made = issued'[u])
        <4>1. CASE u = t
          BY <2>3, <3>4, <4>1
        <4>2. CASE u # t
          BY <2>2, <2>3, <3>4, <4>2 DEF Custody
        <4>3. QED
          BY <4>1, <4>2
      <3>5. QED
        BY <2>1, <3>1, <3>2, <3>3, <3>4 DEF Custody
    <2>10. QED
      BY <2>4, <2>5, <2>6, <2>7, <2>8, <2>9 DEF TenancyInv
  <1>4. CASE UNCHANGED T!tenancyVars
    BY <1>4 DEF T!tenancyVars, TenancyInv, TenancyTyped, Locked, Told, Checked, Custody, Counted, T!Bootstrapped
  <1>5. QED
    BY <1>1, <1>2, <1>3, <1>4

LEMMA TenancyHolds == T!Init /\ [][T!Next]_(T!tenancyVars) => []TenancyInv
  <1>1. T!Init => TenancyInv
    <2> SUFFICES ASSUME T!Init PROVE TenancyInv
      OBVIOUS
    <2>1. TenancyTyped
      BY ScriptIdles DEF T!Init, TenancyTyped, TokenFiles, Paths, T!NoFile
    <2>2. Locked
      BY TenancyConstants DEF T!Init, Locked, T!Bootstrapped
    <2>3. Told
      BY DEF T!Init, Told, T!Bootstrapped
    <2>4. script.name = "none" /\ script.step = "none" /\ script.made = 0
      BY ScriptIdles DEF T!Init
    <2>5. Checked
      BY <2>4 DEF T!Init, Checked, Clearing
    <2>6. Counted
      BY <2>4 DEF T!Init, Counted
    <2>7. Custody
      BY <2>4 DEF T!Init, Custody, Paths
    <2>8. QED
      BY <2>1, <2>2, <2>3, <2>5, <2>6, <2>7 DEF TenancyInv, T!Init
  <1>2. TenancyInv /\ [T!Next]_(T!tenancyVars) => TenancyInv'
    BY TenancyRequests, TenancyCrash, TenancyStarts, TenancyScripts, TenancyOthers, TenancyConstants DEF T!Next, Paths
  <1>3. QED
    BY <1>1, <1>2, PTL

(* One bootstrap succeeds and the scripts do what they say.                *)
LEMMA TenancyMeans ==
    ASSUME TenancyInv
    PROVE  T!OneBootstrap /\ T!ScriptsAreTrue
  <1>1. T!Cardinality(T!Bootstrapped) <= 1
    <2>1. T!Cardinality(T!Bootstrapped) = Cardinality(T!Bootstrapped)
      BY DEF T!Cardinality, Cardinality
    <2>2. CASE T!Bootstrapped = {}
      BY <2>1, <2>2, FS_EmptySet
    <2>3. CASE T!Bootstrapped # {}
      <3>1. PICK c : T!Bootstrapped = {c}
        BY <2>3 DEF TenancyInv, Locked
      <3>2. Cardinality({c}) = 1
        BY FS_Singleton, Zenon
      <3>3. QED
        BY <2>1, <3>1, <3>2
    <2>4. QED
      BY <2>2, <2>3
  <1>2. T!OneBootstrap
    BY <1>1 DEF TenancyInv, TenancyTyped, Told, T!OneBootstrap, T!Bootstrapped
  <1>3. T!ScriptsAreTrue
    <2>1. events \in Nat /\ cleared \in Nat /\ mishaps \in Nat /\ events <= cleared
      BY DEF TenancyInv, TenancyTyped, Counted
    <2>2. cleared - events <= mishaps + (IF script.step = "cleared" THEN 1 ELSE 0)
      <3>1. CASE script.step = "cleared"
        <4>1. cleared <= events + mishaps + 1
          BY <3>1 DEF TenancyInv, Counted
        <4>2. QED
          BY <2>1, <3>1, <4>1
      <3>2. CASE script.step # "cleared"
        <4>1. cleared <= events + mishaps
          BY <3>2 DEF TenancyInv, Counted
        <4>2. QED
          BY <2>1, <3>2, <4>1
      <3>3. QED
        BY <3>1, <3>2
    <2>3. script.step = "passed" => events > 0 /\ script.tenant \in tenants
      BY DEF TenancyInv, Counted, Checked
    <2>4. QED
      BY <2>1, <2>2, <2>3 DEF TenancyInv, Checked, Custody, Paths, T!ScriptsAreTrue
  <1>4. QED
    BY <1>2, <1>3

-----------------------------------------------------------------------------
(* Migrations and principals.                                              *)

Preparing == {"retiring", "choosing", "resetting", "extending", "uncapping", "granting", "asserting"}
Altering == {"resetting", "extending", "uncapping", "granting", "asserting"}
RunSteps == {"idle", "migrating", "missing", "run", "failed", "done"} \cup Preparing
Words == {P!None} \cup {e[p] : e \in Environments, p \in P!Principals}
RoleStates == [login : BOOLEAN, password : Words, config : BOOLEAN, limit : Int, expired : BOOLEAN]
Positions == [role : P!Principals \cup {P!None}, done : SUBSET P!Principals, uncap : BOOLEAN]

ProvisioningTyped ==
    /\ run \in [Runs -> RunSteps] /\ env \in [Runs -> Environments] /\ migration \in [Runs -> Nat]
    /\ applied \subseteq 1 .. Last /\ schema \in [1 .. Last -> Nat]
    /\ roles \in [P!Principals -> RoleStates] /\ member \in BOOLEAN
    /\ current \in [Runs -> Positions] /\ overlapped \subseteq Runs

(* A run has come to a migration when all before it are recorded.          *)
Ordered ==
    /\ \A r \in Runs : migration[r] >= 1 /\ 1 .. (migration[r] - 1) \subseteq applied
    /\ \A r \in Runs : run[r] \in {"missing", "run"} => migration[r] <= Last
    /\ \A r \in Runs : run[r] \in Preparing => migration[r] > Last
    /\ \A n \in 1 .. Last : schema[n] = IF n \in applied THEN 1 ELSE 0
    /\ \A n \in applied : 1 .. n \subseteq applied

(* What a run that nobody disturbed has done to a principal still stands.  *)
Settled(r) ==
    /\ \A p \in current[r].done : IF p \in P!Configured(r)
                                  THEN P!Fit(roles[p]) /\ roles[p].password = env[r][p]
                                  ELSE ~roles[p].login
    /\ run[r] \in {"extending", "uncapping", "granting"} => ~roles[current[r].role].config
    /\ run[r] = "asserting" => roles[current[r].role].password = env[r][current[r].role]
    /\ run[r] = "done" => ~member
Orderly(r) ==
    /\ run[r] = "idle" => current[r].done = {}
    /\ run[r] \in Altering => current[r].role \in P!Configured(r) \ current[r].done
    /\ run[r] \in Altering \cup {"choosing"} => P!Principals \ P!Configured(r) \subseteq current[r].done
    /\ run[r] = "done" => current[r].done = P!Principals
Prepared ==
    /\ \A r \in Runs : Orderly(r)
    /\ \A r \in Runs \ overlapped : Settled(r)

ProvisioningInv == ProvisioningTyped /\ Ordered /\ Prepared /\ lapses = 0

LEMMA ProvisioningConstants ==
    /\ Environments # {} /\ \A e \in Environments : DOMAIN e = P!Principals
    /\ Last \in Nat
  BY DeploymentAssumption DEF P!ProvisioningAssumption

LEMMA ProvisioningStarts == P!Init => ProvisioningInv
  <1> SUFFICES ASSUME P!Init PROVE ProvisioningInv
    OBVIOUS
  <1>1. (CHOOSE e \in Environments : TRUE) \in Environments
    BY ProvisioningConstants
  <1>2. P!Fresh \in RoleStates
    BY DEF P!Fresh, RoleStates, Words, P!Unlimited
  <1>3. ProvisioningTyped
    <2>1. run \in [Runs -> RunSteps] /\ migration \in [Runs -> Nat] /\ applied \subseteq 1 .. Last
      BY DEF P!Init, RunSteps
    <2>2. env \in [Runs -> Environments]
      BY <1>1 DEF P!Init
    <2>3. schema \in [1 .. Last -> Nat] /\ member \in BOOLEAN /\ overlapped \subseteq Runs
      BY DEF P!Init
    <2>4. roles \in [P!Principals -> RoleStates]
      BY <1>2 DEF P!Init
    <2>5. current \in [Runs -> Positions]
      BY DEF P!Init, Positions
    <2>6. QED
      BY <2>1, <2>2, <2>3, <2>4, <2>5 DEF ProvisioningTyped
  <1>4. Ordered
    BY DEF P!Init, Ordered, Preparing
  <1>5. Prepared
    BY DEF P!Init, Prepared, Orderly, Settled, Altering
  <1>6. QED
    BY <1>3, <1>4, <1>5 DEF P!Init, ProvisioningInv

(* Before its first statement about a role, and where it fails, a run has  *)
(* nothing to show for itself: the roles are as the others left them.      *)
LEMMA RolesBesideMigrations ==
    ASSUME Prepared, ProvisioningTyped, NEW r \in Runs, NEW s \in {"migrating", "missing", "run", "failed", "retiring"},
           run' = [run EXCEPT ![r] = s],
           \/ UNCHANGED env
           \/ run[r] = "idle" /\ \E e \in Environments : env' = [env EXCEPT ![r] = e],
           UNCHANGED <<roles, member, current, overlapped>>
    PROVE  Prepared'
  <1>1. ASSUME NEW q \in Runs, q # r PROVE run'[q] = run[q] /\ env'[q] = env[q]
    BY <1>1 DEF ProvisioningTyped
  <1>2. run'[r] = s
    BY DEF ProvisioningTyped
  <1>3. ASSUME NEW q \in Runs PROVE Orderly(q)'
    <2>1. CASE q = r
      BY <1>2, <2>1 DEF Orderly, Altering
    <2>2. CASE q # r
      BY <1>1, <2>2 DEF Prepared, Orderly, Altering, P!Configured
    <2>3. QED
      BY <2>1, <2>2
  <1>4. ASSUME NEW q \in Runs \ overlapped PROVE Settled(q)'
    <2>1. CASE q # r
      BY <1>1, <2>1 DEF Prepared, Settled, P!Configured, P!Fit
    <2>2. CASE q = r /\ run[r] = "idle"
      <3>1. current[r].done = {}
        BY <2>2 DEF Prepared, Orderly
      <3>2. QED
        BY <1>2, <2>2, <3>1 DEF Settled
    <2>3. CASE q = r /\ UNCHANGED env
      BY <1>2, <2>3 DEF Prepared, Settled, P!Configured, P!Fit
    <2>4. QED
      BY <2>1, <2>2, <2>3
  <1>5. QED
    BY <1>3, <1>4 DEF Prepared

LEMMA ProvisioningBegins ==
    ASSUME ProvisioningInv, NEW r \in Runs, P!Begin(r)
    PROVE  ProvisioningInv'
  <1>1. PICK e \in Environments : env' = [env EXCEPT ![r] = e]
    BY DEF P!Begin
  <1>2. PICK s \in {"migrating", "failed"} : run' = [run EXCEPT ![r] = s]
    BY DEF P!Begin, P!Goto
  <1>3. run[r] = "idle" /\ UNCHANGED <<migration, applied, schema, roles, member, current, overlapped, lapses>>
    BY DEF P!Begin, P!migrationVars, P!roleVars
  <1>4. ProvisioningTyped'
    BY <1>1, <1>2, <1>3 DEF ProvisioningInv, ProvisioningTyped, RunSteps
  <1>5. Ordered'
    BY <1>2, <1>3 DEF ProvisioningInv, ProvisioningTyped, Ordered, Preparing
  <1>6. Prepared'
    BY <1>1, <1>2, <1>3, RolesBesideMigrations DEF ProvisioningInv
  <1>7. QED
    BY <1>3, <1>4, <1>5, <1>6 DEF ProvisioningInv

(* A run goes on to the next migration when this one is recorded.          *)
LEMMA OneFurther ==
    ASSUME NEW m \in Nat, m >= 1, NEW done, 1 .. (m - 1) \subseteq done, m \in done
    PROVE  m + 1 >= 1 /\ m + 1 \in Nat /\ 1 .. ((m + 1) - 1) \subseteq done /\ 1 .. m \subseteq done
  OBVIOUS

LEMMA MigrationsMove ==
    ASSUME ProvisioningInv, NEW r \in Runs,
           P!Skip(r) \/ P!Missing(r) \/ P!RunStatements(r) \/ P!Undo(r) \/ P!Migrated(r)
    PROVE  ProvisioningInv'
  <1>1. CASE P!Skip(r)
    <2>1. /\ migration[r] \in applied /\ run[r] = "migrating" /\ migration' = [migration EXCEPT ![r] = @ + 1]
          /\ UNCHANGED <<run, env, applied, schema, roles, member, current, overlapped, lapses>>
      BY <1>1 DEF P!Skip, P!roleVars
    <2>2. /\ migration[r] + 1 >= 1 /\ migration[r] + 1 \in Nat
          /\ 1 .. ((migration[r] + 1) - 1) \subseteq applied
      BY <2>1, OneFurther DEF ProvisioningInv, ProvisioningTyped, Ordered
    <2>3. ProvisioningTyped'
      BY <2>1, <2>2 DEF ProvisioningInv, ProvisioningTyped
    <2>4. Ordered'
      <3>1. ASSUME NEW q \in Runs PROVE migration'[q] >= 1 /\ 1 .. (migration'[q] - 1) \subseteq applied'
        <4>1. CASE q = r
          <5>1. migration'[q] = migration[r] + 1
            BY <2>1, <4>1 DEF ProvisioningInv, ProvisioningTyped
          <5>2. QED
            BY <2>1, <2>2, <5>1
        <4>2. CASE q # r
          BY <2>1, <4>2 DEF ProvisioningInv, ProvisioningTyped, Ordered
        <4>3. QED
          BY <4>1, <4>2
      <3>2. ASSUME NEW q \in Runs
            PROVE  /\ run'[q] \in {"missing", "run"} => migration'[q] <= Last
                   /\ run'[q] \in Preparing => migration'[q] > Last
        BY <2>1 DEF ProvisioningInv, ProvisioningTyped, Ordered, Preparing
      <3>3. QED
        BY <2>1, <3>1, <3>2 DEF ProvisioningInv, Ordered
    <2>5. Prepared'
      BY <2>1 DEF ProvisioningInv, Prepared, Orderly, Settled, P!Configured, P!Fit
    <2>6. QED
      BY <2>1, <2>3, <2>4, <2>5 DEF ProvisioningInv
  <1>2. ASSUME NEW s \in {"missing", "run", "failed", "retiring"}, run' = [run EXCEPT ![r] = s],
               UNCHANGED <<env, migration, applied, schema, roles, member, current, overlapped, lapses>>,
               s \in {"missing", "run"} => migration[r] <= Last, s = "retiring" => migration[r] > Last
        PROVE  ProvisioningInv'
    <2>1. ProvisioningTyped'
      BY <1>2 DEF ProvisioningInv, ProvisioningTyped, RunSteps, Preparing
    <2>2. Ordered'
      BY <1>2 DEF ProvisioningInv, ProvisioningTyped, Ordered, Preparing
    <2>3. Prepared'
      BY <1>2, RolesBesideMigrations DEF ProvisioningInv
    <2>4. QED
      BY <1>2, <2>1, <2>2, <2>3 DEF ProvisioningInv
  <1>3. CASE P!Missing(r)
    BY <1>2, <1>3 DEF P!Missing, P!Goto, P!migrationVars, P!roleVars
  <1>4. CASE P!RunStatements(r)
    <2>1. migration[r] <= Last
      BY <1>4 DEF P!RunStatements, ProvisioningInv, Ordered
    <2>2. QED
      BY <1>2, <1>4, <2>1 DEF P!RunStatements, P!Goto, P!roleVars
  <1>5. CASE P!Undo(r)
    BY <1>2, <1>5 DEF P!Undo, P!Goto, P!roleVars
  <1>6. CASE P!Migrated(r)
    BY <1>2, <1>6 DEF P!Migrated, P!Goto, P!migrationVars, P!roleVars
  <1>7. QED
    BY <1>1, <1>3, <1>4, <1>5, <1>6

LEMMA MigrationRecorded ==
    ASSUME ProvisioningInv, NEW r \in Runs, P!Record(r)
    PROVE  ProvisioningInv'
  <1> DEFINE m == migration[r]
  <1>1. /\ run[r] = "run" /\ m \notin applied /\ applied' = applied \cup {m}
        /\ schema' = [schema EXCEPT ![m] = @ + 1] /\ migration' = [migration EXCEPT ![r] = m + 1]
        /\ run' = [run EXCEPT ![r] = "migrating"]
        /\ UNCHANGED <<env, roles, member, current, overlapped, lapses>>
    BY DEF P!Record, P!Goto, P!roleVars
  <1>2. m \in Nat /\ m >= 1 /\ m <= Last /\ 1 .. (m - 1) \subseteq applied /\ m \in 1 .. Last
    BY <1>1, ProvisioningConstants DEF ProvisioningInv, ProvisioningTyped, Ordered
  <1>3. m + 1 >= 1 /\ m + 1 \in Nat /\ 1 .. ((m + 1) - 1) \subseteq applied' /\ 1 .. m \subseteq applied'
    <2>1. 1 .. (m - 1) \subseteq applied' /\ m \in applied'
      BY <1>1, <1>2
    <2>2. QED
      BY <1>2, <2>1, OneFurther
  <1> HIDE DEF m
  <1>4. ProvisioningTyped'
    <2>1. run' \in [Runs -> RunSteps] /\ migration' \in [Runs -> Nat] /\ applied' \subseteq 1 .. Last
      BY <1>1, <1>2, <1>3 DEF ProvisioningInv, ProvisioningTyped, RunSteps
    <2>2. schema' \in [1 .. Last -> Nat]
      <3>1. schema \in [1 .. Last -> Nat]
        BY DEF ProvisioningInv, ProvisioningTyped
      <3>2. schema[m] + 1 \in Nat
        BY <1>2, <3>1
      <3>3. QED
        BY <1>1, <3>1, <3>2
    <2>3. QED
      BY <1>1, <2>1, <2>2 DEF ProvisioningInv, ProvisioningTyped
  <1>5. Ordered'
    <2>1. ASSUME NEW q \in Runs PROVE migration'[q] >= 1 /\ 1 .. (migration'[q] - 1) \subseteq applied'
      <3>1. CASE q = r
        <4>1. migration'[q] = m + 1
          BY <1>1, <3>1 DEF ProvisioningInv, ProvisioningTyped
        <4>2. QED
          BY <1>3, <4>1
      <3>2. CASE q # r
        BY <1>1, <3>2 DEF ProvisioningInv, ProvisioningTyped, Ordered
      <3>3. QED
        BY <3>1, <3>2
    <2>2. ASSUME NEW q \in Runs
          PROVE  /\ run'[q] \in {"missing", "run"} => migration'[q] <= Last
                 /\ run'[q] \in Preparing => migration'[q] > Last
      BY <1>1 DEF ProvisioningInv, ProvisioningTyped, Ordered, Preparing
    <2>3. ASSUME NEW n \in 1 .. Last PROVE schema'[n] = IF n \in applied' THEN 1 ELSE 0
      <3>1. CASE n = m
        <4>1. schema[m] = 0
          BY <1>1, <1>2 DEF ProvisioningInv, Ordered
        <4>2. QED
          BY <1>1, <1>2, <3>1, <4>1 DEF ProvisioningInv, ProvisioningTyped
      <3>2. CASE n # m
        BY <1>1, <3>2 DEF ProvisioningInv, ProvisioningTyped, Ordered
      <3>3. QED
        BY <3>1, <3>2
    <2>4. ASSUME NEW n \in applied' PROVE 1 .. n \subseteq applied'
      BY <1>1, <1>3 DEF ProvisioningInv, Ordered
    <2>5. QED
      BY <2>1, <2>2, <2>3, <2>4 DEF Ordered
  <1>6. Prepared'
    BY <1>1, RolesBesideMigrations DEF ProvisioningInv
  <1>7. QED
    BY <1>1, <1>4, <1>5, <1>6 DEF ProvisioningInv

(* Whoever changes a role disturbs every other run that has begun.         *)
LEMMA RoleAltered ==
    ASSUME ProvisioningInv, NEW r \in Runs, run[r] \in Altering,
           NEW role \in RoleStates, roles' = [roles EXCEPT ![current[r].role] = role],
           NEW s \in {"extending", "uncapping", "granting", "asserting"}, run' = [run EXCEPT ![r] = s],
           overlapped' = overlapped \cup (P!Begun \ {r}),
           UNCHANGED <<env, migration, applied, schema, member, current>>,
           s # "asserting" /\ r \notin overlapped => ~role.config,
           s = "asserting" => role.password = env[r][current[r].role]
    PROVE  ProvisioningTyped' /\ Ordered' /\ Prepared'
  <1>1. ASSUME NEW q \in Runs, q # r PROVE run'[q] = run[q]
    BY <1>1 DEF ProvisioningInv, ProvisioningTyped
  <1>2. run'[r] = s /\ s \in RunSteps /\ s \in Preparing /\ run[r] \in Preparing
    BY DEF ProvisioningInv, ProvisioningTyped, RunSteps, Preparing, Altering
  <1>3. current[r].role \in P!Configured(r) \ current[r].done
    BY DEF ProvisioningInv, Prepared, Orderly
  <1>4. ASSUME NEW p \in P!Principals PROVE roles'[p] = IF p = current[r].role THEN role ELSE roles[p]
    BY DEF ProvisioningInv, ProvisioningTyped
  <1>5. current[r].role \in P!Principals /\ current[r].done \subseteq P!Principals
    BY <1>3 DEF P!Configured, ProvisioningInv, ProvisioningTyped, Positions
  <1>6. ProvisioningTyped'
    <2>1. run' \in [Runs -> RunSteps] /\ overlapped' \subseteq Runs
      BY <1>2 DEF ProvisioningInv, ProvisioningTyped, P!Begun
    <2>2. roles' \in [P!Principals -> RoleStates]
      BY DEF ProvisioningInv, ProvisioningTyped
    <2>3. QED
      BY <2>1, <2>2 DEF ProvisioningInv, ProvisioningTyped
  <1>7. Ordered'
    BY <1>1, <1>2 DEF ProvisioningInv, Ordered, Preparing
  <1>8. ASSUME NEW q \in Runs PROVE Orderly(q)'
    <2>1. CASE q = r
      BY <1>2, <1>3, <2>1 DEF ProvisioningInv, Prepared, Orderly, Altering, P!Configured
    <2>2. CASE q # r
      BY <1>1, <2>2 DEF ProvisioningInv, Prepared, Orderly, P!Configured
    <2>3. QED
      BY <2>1, <2>2
  <1>9. ASSUME NEW q \in Runs \ overlapped' PROVE Settled(q)'
    <2>1. CASE q = r
      <3>1. Settled(r)
        BY <1>9, <2>1 DEF ProvisioningInv, Prepared
      <3>2. ASSUME NEW p \in current'[r].done PROVE roles'[p] = roles[p]
        BY <1>3, <1>4, <1>5, <3>2
      <3>3. roles'[current[r].role] = role /\ r \notin overlapped
        BY <1>4, <1>5, <1>9, <2>1
      <3>4. QED
        BY <1>2, <2>1, <3>1, <3>2, <3>3 DEF Settled, P!Configured, P!Fit
    <2>2. CASE q # r
      <3>1. run[q] = "idle"
        BY <1>9, <2>2 DEF P!Begun
      <3>2. current[q].done = {} /\ run'[q] = "idle"
        BY <1>1, <2>2, <3>1 DEF ProvisioningInv, Prepared, Orderly
      <3>3. QED
        BY <3>2 DEF Settled
    <2>3. QED
      BY <2>1, <2>2
  <1>10. QED
    BY <1>6, <1>7, <1>8, <1>9 DEF Prepared

LEMMA RolesAltered ==
    ASSUME ProvisioningInv, NEW r \in Runs, P!ResetAll(r) \/ P!Extend(r) \/ P!Uncap(r) \/ P!Grant(r)
    PROVE  ProvisioningInv'
  <1> DEFINE old == roles[current[r].role]
  <1>1. run[r] \in Altering
    BY DEF P!ResetAll, P!Extend, P!Uncap, P!Grant, Altering
  <1>2. current[r].role \in P!Principals /\ old \in RoleStates
    BY <1>1 DEF ProvisioningInv, ProvisioningTyped, Prepared, Orderly, P!Configured
  <1>3. run[r] \in {"extending", "uncapping", "granting"} /\ r \notin overlapped => ~old.config
    BY DEF ProvisioningInv, Prepared, Settled
  <1> HIDE DEF old
  <1>4. CASE P!ResetAll(r)
    <2>1. [old EXCEPT !.config = FALSE] \in RoleStates /\ ~[old EXCEPT !.config = FALSE].config
      BY <1>2 DEF RoleStates
    <2>2. /\ roles' = [roles EXCEPT ![current[r].role] = [old EXCEPT !.config = FALSE]]
          /\ run' = [run EXCEPT ![r] = "extending"] /\ overlapped' = overlapped \cup (P!Begun \ {r})
          /\ UNCHANGED <<env, migration, applied, schema, member, current, lapses>>
      BY <1>4 DEF P!ResetAll, P!Alter, P!Role, P!Touches, P!Goto, P!migrationVars, old
    <2>3. ProvisioningTyped' /\ Ordered' /\ Prepared'
      BY <1>1, <2>1, <2>2, RoleAltered
    <2>4. QED
      BY <2>2, <2>3 DEF ProvisioningInv
  <1>5. CASE P!Extend(r)
    <2>1. [old EXCEPT !.expired = FALSE] \in RoleStates /\ [old EXCEPT !.expired = FALSE].config = old.config
      BY <1>2 DEF RoleStates
    <2>2. /\ roles' = [roles EXCEPT ![current[r].role] = [old EXCEPT !.expired = FALSE]]
          /\ overlapped' = overlapped \cup (P!Begun \ {r}) /\ run[r] = "extending"
          /\ UNCHANGED <<env, migration, applied, schema, member, current, lapses>>
      BY <1>5 DEF P!Extend, P!Alter, P!Role, P!Touches, P!migrationVars, old
    <2>3. PICK s \in {"uncapping", "granting"} : run' = [run EXCEPT ![r] = s]
      BY <1>5 DEF P!Extend, P!Goto
    <2>4. ProvisioningTyped' /\ Ordered' /\ Prepared'
      BY <1>1, <1>3, <2>1, <2>2, <2>3, RoleAltered
    <2>5. QED
      BY <2>2, <2>4 DEF ProvisioningInv
  <1>6. CASE P!Uncap(r)
    <2>1. /\ [old EXCEPT !.limit = P!Unlimited] \in RoleStates
          /\ [old EXCEPT !.limit = P!Unlimited].config = old.config
      BY <1>2 DEF RoleStates, P!Unlimited
    <2>2. /\ roles' = [roles EXCEPT ![current[r].role] = [old EXCEPT !.limit = P!Unlimited]]
          /\ run' = [run EXCEPT ![r] = "granting"]
          /\ overlapped' = overlapped \cup (P!Begun \ {r}) /\ run[r] = "uncapping"
          /\ UNCHANGED <<env, migration, applied, schema, member, current, lapses>>
      BY <1>6 DEF P!Uncap, P!Alter, P!Role, P!Touches, P!Goto, P!migrationVars, old
    <2>3. ProvisioningTyped' /\ Ordered' /\ Prepared'
      BY <1>1, <1>3, <2>1, <2>2, RoleAltered
    <2>4. QED
      BY <2>2, <2>3 DEF ProvisioningInv
  <1>7. CASE P!Grant(r)
    <2> DEFINE word == env[r][current[r].role]
    <2>1. word \in Words
      BY <1>2 DEF ProvisioningInv, ProvisioningTyped, Words
    <2>2. /\ roles' = [roles EXCEPT ![current[r].role] = [old EXCEPT !.login = TRUE, !.password = word]]
          /\ run' = [run EXCEPT ![r] = "asserting"]
          /\ overlapped' = overlapped \cup (P!Begun \ {r}) /\ run[r] = "granting"
          /\ lapses' = IF old.config /\ r \notin overlapped THEN lapses + 1 ELSE lapses
          /\ UNCHANGED <<env, migration, applied, schema, member, current>>
      BY <1>7 DEF P!Grant, P!Alter, P!Role, P!Touches, P!Goto, P!migrationVars, old
    <2> HIDE DEF word
    <2>3. /\ [old EXCEPT !.login = TRUE, !.password = word] \in RoleStates
          /\ [old EXCEPT !.login = TRUE, !.password = word].password = word
      BY <1>2, <2>1 DEF RoleStates
    <2>4. lapses' = 0
      BY <1>3, <2>2 DEF ProvisioningInv
    <2>5. ProvisioningTyped' /\ Ordered' /\ Prepared'
      <3>1. env[r][current[r].role] = word
        BY DEF word
      <3>2. QED
        BY <1>1, <2>2, <2>3, <3>1, RoleAltered
    <2>6. QED
      BY <2>4, <2>5 DEF ProvisioningInv
  <1>8. QED
    BY <1>4, <1>5, <1>6, <1>7

(* Steps that leave the migrations alone keep them in order.               *)
LEMMA MigrationsBesideRoles ==
    ASSUME Ordered, ProvisioningTyped, NEW r \in Runs, NEW s \in RunSteps, s \notin {"missing", "run"},
           s \in Preparing => run[r] \in Preparing, run' = [run EXCEPT ![r] = s],
           UNCHANGED <<migration, applied, schema>>
    PROVE  Ordered'
  <1>1. ASSUME NEW q \in Runs, q # r PROVE run'[q] = run[q]
    BY <1>1 DEF ProvisioningTyped
  <1>2. run'[r] = s
    BY DEF ProvisioningTyped
  <1>3. QED
    BY <1>1, <1>2 DEF Ordered

LEMMA RolesRetired ==
    ASSUME ProvisioningInv, NEW r \in Runs, P!Retire(r)
    PROVE  ProvisioningInv'
  <1>1. PICK p \in P!Unseen(r) :
          /\ current' = [current EXCEPT ![r].done = @ \cup {p}]
          /\ IF roles[p].login
             THEN roles' = [roles EXCEPT ![p].login = FALSE, ![p].password = P!None] /\ P!Touches(r)
             ELSE UNCHANGED <<roles, overlapped>>
    BY DEF P!Retire
  <1>2. run[r] = "retiring" /\ UNCHANGED <<run, env, migration, applied, schema, member, lapses>>
    BY DEF P!Retire, P!migrationVars
  <1>3. p \in P!Principals /\ p \notin P!Configured(r) /\ p \notin current[r].done
    BY <1>1 DEF P!Unseen
  <1>4. /\ current'[r].done = current[r].done \cup {p} /\ current'[r].role = current[r].role
        /\ \A q \in Runs : q # r => current'[q] = current[q]
        /\ current' \in [Runs -> Positions]
    BY <1>1, <1>3 DEF ProvisioningInv, ProvisioningTyped, Positions
  <1>5. /\ roles' \in [P!Principals -> RoleStates] /\ ~roles'[p].login
        /\ \A o \in P!Principals : o # p => roles'[o] = roles[o]
    <2>1. CASE roles[p].login
      <3>1. roles' = [roles EXCEPT ![p].login = FALSE, ![p].password = P!None]
        BY <1>1, <2>1
      <3>2. P!None \in Words
        BY DEF Words
      <3>3. QED
        BY <1>3, <3>1, <3>2 DEF ProvisioningInv, ProvisioningTyped, RoleStates
    <2>2. CASE ~roles[p].login
      BY <1>1, <2>2 DEF ProvisioningInv, ProvisioningTyped
    <2>3. QED
      BY <2>1, <2>2
  <1>6. /\ overlapped \subseteq overlapped' /\ overlapped' \subseteq Runs
        /\ UNCHANGED roles \/ \A q \in Runs \ overlapped' : q # r => run[q] = "idle"
    <2>1. CASE roles[p].login
      <3>1. overlapped' = overlapped \cup (P!Begun \ {r})
        BY <1>1, <2>1 DEF P!Touches
      <3>2. QED
        BY <3>1 DEF P!Begun, ProvisioningInv, ProvisioningTyped
    <2>2. CASE ~roles[p].login
      BY <1>1, <2>2 DEF ProvisioningInv, ProvisioningTyped
    <2>3. QED
      BY <2>1, <2>2
  <1>7. ProvisioningTyped'
    BY <1>2, <1>4, <1>5, <1>6 DEF ProvisioningInv, ProvisioningTyped
  <1>8. Ordered'
    BY <1>2 DEF ProvisioningInv, Ordered
  <1>9. ASSUME NEW q \in Runs PROVE Orderly(q)'
    <2>1. CASE q = r
      BY <1>2, <2>1 DEF Orderly, Altering
    <2>2. CASE q # r
      BY <1>2, <1>4, <2>2 DEF ProvisioningInv, Prepared, Orderly, P!Configured
    <2>3. QED
      BY <2>1, <2>2
  <1>10. ASSUME NEW q \in Runs \ overlapped' PROVE Settled(q)'
    <2>1. q \notin overlapped /\ Settled(q)
      BY <1>6, <1>10 DEF ProvisioningInv, Prepared
    <2>2. CASE q = r
      <3>1. current[r].done \subseteq P!Principals
        BY DEF ProvisioningInv, ProvisioningTyped, Positions
      <3>2. ASSUME NEW o \in current'[r].done
            PROVE  IF o \in P!Configured(r)' THEN P!Fit(roles[o])' /\ (roles[o].password = env[r][o])'
                                             ELSE (~roles[o].login)'
        <4>1. CASE o = p
          BY <1>2, <1>3, <1>5, <4>1 DEF P!Configured
        <4>2. CASE o # p
          <5>1. o \in current[r].done /\ roles'[o] = roles[o]
            BY <1>4, <1>5, <3>1, <3>2, <4>2
          <5>2. QED
            BY <1>2, <2>1, <2>2, <5>1 DEF Settled, P!Configured, P!Fit
        <4>3. QED
          BY <4>1, <4>2
      <3>3. QED
        BY <1>2, <2>2, <3>2 DEF Settled
    <2>3. CASE q # r /\ UNCHANGED roles
      BY <1>2, <1>4, <2>1, <2>3 DEF Settled, P!Configured, P!Fit
    <2>4. CASE q # r /\ run[q] = "idle"
      <3>1. current'[q].done = {}
        BY <1>4, <2>4 DEF ProvisioningInv, Prepared, Orderly
      <3>2. QED
        BY <1>2, <2>4, <3>1 DEF Settled
    <2>5. QED
      BY <1>6, <1>10, <2>2, <2>3, <2>4
  <1>11. QED
    BY <1>2, <1>7, <1>8, <1>9, <1>10 DEF ProvisioningInv, Prepared

LEMMA RolesJudged ==
    ASSUME ProvisioningInv, NEW r \in Runs,
           \/ P!Retired(r) \/ P!Choose(r) \/ P!AssertRoleAttributes(r) \/ P!AssertNoMembership(r) \/ P!Fails(r)
    PROVE  ProvisioningInv'
  <1>1. CASE P!Retired(r)
    <2>1. /\ run' = [run EXCEPT ![r] = "choosing"] /\ run[r] = "retiring" /\ P!Unseen(r) = {}
          /\ UNCHANGED <<env, migration, applied, schema, roles, member, current, overlapped, lapses>>
      BY <1>1 DEF P!Retired, P!Goto, P!migrationVars, P!roleVars
    <2>2. ProvisioningTyped'
      BY <2>1 DEF ProvisioningInv, ProvisioningTyped, RunSteps, Preparing
    <2>3. Ordered'
      BY <2>1, MigrationsBesideRoles DEF ProvisioningInv, RunSteps, Preparing
    <2>4. ASSUME NEW q \in Runs PROVE Orderly(q)'
      BY <2>1 DEF ProvisioningInv, ProvisioningTyped, Prepared, Orderly, Altering, P!Configured, P!Unseen
    <2>5. ASSUME NEW q \in Runs \ overlapped' PROVE Settled(q)'
      BY <2>1 DEF ProvisioningInv, ProvisioningTyped, Prepared, Settled, P!Configured, P!Fit
    <2>6. QED
      BY <2>1, <2>2, <2>3, <2>4, <2>5 DEF ProvisioningInv, Prepared
  <1>2. CASE P!Choose(r)
    <2>1. PICK p \in P!Configured(r) \ current[r].done, yes \in BOOLEAN :
            current' = [current EXCEPT ![r] = [role |-> p, done |-> @.done, uncap |-> yes]]
      BY <1>2 DEF P!Choose
    <2>2. /\ run' = [run EXCEPT ![r] = "resetting"] /\ run[r] = "choosing"
          /\ UNCHANGED <<env, migration, applied, schema, roles, member, overlapped, lapses>>
      BY <1>2 DEF P!Choose, P!Goto, P!migrationVars, P!roleVars
    <2>3. /\ current' \in [Runs -> Positions] /\ current'[r].role = p /\ current'[r].done = current[r].done
          /\ \A q \in Runs : q # r => current'[q] = current[q]
      BY <2>1 DEF ProvisioningInv, ProvisioningTyped, Positions, P!Configured
    <2>4. run'[r] = "resetting" /\ \A q \in Runs : q # r => run'[q] = run[q]
      BY <2>2 DEF ProvisioningInv, ProvisioningTyped
    <2>5. ProvisioningTyped'
      BY <2>2, <2>3 DEF ProvisioningInv, ProvisioningTyped, RunSteps, Preparing
    <2>6. Ordered'
      BY <2>2, MigrationsBesideRoles DEF ProvisioningInv, RunSteps, Preparing
    <2>7. ASSUME NEW q \in Runs PROVE Orderly(q)'
      <3>1. CASE q = r
        BY <2>1, <2>2, <2>3, <2>4, <3>1 DEF ProvisioningInv, Prepared, Orderly, P!Configured
      <3>2. CASE q # r
        BY <2>2, <2>3, <2>4, <3>2 DEF ProvisioningInv, Prepared, Orderly, P!Configured
      <3>3. QED
        BY <3>1, <3>2
    <2>8. ASSUME NEW q \in Runs \ overlapped' PROVE Settled(q)'
      <3>1. CASE q = r
        BY <2>2, <2>3, <2>4, <3>1 DEF ProvisioningInv, Prepared, Settled, P!Configured, P!Fit
      <3>2. CASE q # r
        BY <2>2, <2>3, <2>4, <3>2 DEF ProvisioningInv, Prepared, Settled, P!Configured, P!Fit
      <3>3. QED
        BY <3>1, <3>2
    <2>9. QED
      BY <2>2, <2>5, <2>6, <2>7, <2>8 DEF ProvisioningInv, Prepared
  <1>3. ASSUME run' = [run EXCEPT ![r] = "failed"],
               UNCHANGED <<env, migration, applied, schema, roles, member, current, overlapped, lapses>>
        PROVE  ProvisioningInv'
    <2>1. ProvisioningTyped'
      BY <1>3 DEF ProvisioningInv, ProvisioningTyped, RunSteps
    <2>2. Ordered'
      BY <1>3, MigrationsBesideRoles DEF ProvisioningInv, RunSteps, Preparing
    <2>3. Prepared'
      BY <1>3, RolesBesideMigrations DEF ProvisioningInv
    <2>4. QED
      BY <1>3, <2>1, <2>2, <2>3 DEF ProvisioningInv
  <1>4. CASE P!AssertRoleAttributes(r) /\ P!Fit(roles[current[r].role])
    <2> DEFINE p == current[r].role
    <2>1. /\ run' = [run EXCEPT ![r] = "choosing"] /\ run[r] = "asserting"
          /\ current' = [current EXCEPT ![r].done = @ \cup {p}]
          /\ UNCHANGED <<env, migration, applied, schema, roles, member, overlapped, lapses>>
      BY <1>4 DEF P!AssertRoleAttributes, P!Goto, P!migrationVars, P!roleVars, P!Role
    <2>2. p \in P!Configured(r) /\ p \in P!Principals /\ P!Principals \ P!Configured(r) \subseteq current[r].done
      BY <2>1 DEF ProvisioningInv, Prepared, Orderly, Altering, P!Configured
    <2>3. /\ current' \in [Runs -> Positions] /\ current'[r].done = current[r].done \cup {p}
          /\ current'[r].role = p /\ \A q \in Runs : q # r => current'[q] = current[q]
      BY <2>1, <2>2 DEF ProvisioningInv, ProvisioningTyped, Positions
    <2>4. run'[r] = "choosing" /\ \A q \in Runs : q # r => run'[q] = run[q]
      BY <2>1 DEF ProvisioningInv, ProvisioningTyped
    <2>5. ProvisioningTyped'
      BY <2>1, <2>3 DEF ProvisioningInv, ProvisioningTyped, RunSteps, Preparing
    <2>6. Ordered'
      BY <2>1, MigrationsBesideRoles DEF ProvisioningInv, RunSteps, Preparing
    <2>7. ASSUME NEW q \in Runs PROVE Orderly(q)'
      <3>1. CASE q = r
        BY <2>1, <2>2, <2>3, <2>4, <3>1 DEF Orderly, Altering, P!Configured
      <3>2. CASE q # r
        BY <2>1, <2>3, <2>4, <3>2 DEF ProvisioningInv, Prepared, Orderly, P!Configured
      <3>3. QED
        BY <3>1, <3>2
    <2>8. ASSUME NEW q \in Runs \ overlapped' PROVE Settled(q)'
      <3>1. Settled(q)
        BY <2>1, <2>8 DEF ProvisioningInv, Prepared
      <3>2. CASE q = r
        <4>1. P!Fit(roles[p]) /\ roles[p].password = env[r][p]
          BY <1>4, <2>1, <3>1, <3>2 DEF Settled
        <4>2. QED
          BY <2>1, <2>2, <2>3, <2>4, <3>1, <3>2, <4>1 DEF Settled, P!Configured, P!Fit
      <3>3. CASE q # r
        BY <2>1, <2>3, <2>4, <3>1, <3>3 DEF Settled, P!Configured, P!Fit
      <3>4. QED
        BY <3>2, <3>3
    <2>9. QED
      BY <2>1, <2>5, <2>6, <2>7, <2>8 DEF ProvisioningInv, Prepared
  <1>5. CASE P!AssertRoleAttributes(r) /\ ~P!Fit(roles[current[r].role])
    BY <1>3, <1>5 DEF P!AssertRoleAttributes, P!Goto, P!migrationVars, P!roleVars, P!Role
  <1>6. CASE P!AssertNoMembership(r) /\ ~member
    <2>1. /\ run' = [run EXCEPT ![r] = "done"] /\ run[r] = "choosing" /\ current[r].done = P!Principals
          /\ UNCHANGED <<env, migration, applied, schema, roles, member, current, overlapped, lapses>>
      BY <1>6 DEF P!AssertNoMembership, P!Goto, P!migrationVars, P!roleVars
    <2>2. ProvisioningTyped'
      BY <2>1 DEF ProvisioningInv, ProvisioningTyped, RunSteps, Preparing
    <2>3. Ordered'
      BY <2>1, MigrationsBesideRoles DEF ProvisioningInv, RunSteps, Preparing
    <2>4. ASSUME NEW q \in Runs PROVE Orderly(q)'
      BY <2>1 DEF ProvisioningInv, ProvisioningTyped, Prepared, Orderly, Altering, P!Configured
    <2>5. ASSUME NEW q \in Runs \ overlapped' PROVE Settled(q)'
      BY <1>6, <2>1 DEF ProvisioningInv, ProvisioningTyped, Prepared, Settled, P!Configured, P!Fit
    <2>6. QED
      BY <2>1, <2>2, <2>3, <2>4, <2>5 DEF ProvisioningInv, Prepared
  <1>7. CASE P!AssertNoMembership(r) /\ member
    BY <1>3, <1>7 DEF P!AssertNoMembership, P!Goto, P!migrationVars, P!roleVars
  <1>8. CASE P!Fails(r)
    BY <1>3, <1>8 DEF P!Fails, P!Goto, P!migrationVars, P!roleVars
  <1>9. QED
    BY <1>1, <1>2, <1>4, <1>5, <1>6, <1>7, <1>8

LEMMA RolesTampered ==
    ASSUME ProvisioningInv, P!Tamper
    PROVE  ProvisioningInv'
  <1>1. /\ overlapped' = overlapped \cup P!Begun
        /\ UNCHANGED <<run, env, migration, applied, schema, current, lapses>>
    BY DEF P!Tamper, P!migrationVars
  <1>2. roles' \in [P!Principals -> RoleStates] /\ member' \in BOOLEAN
    <2>1. member' \in BOOLEAN
      <3>1. UNCHANGED member \/ member' = ~member
        BY DEF P!Tamper
      <3>2. QED
        BY <3>1 DEF ProvisioningInv, ProvisioningTyped
    <2>2. CASE UNCHANGED roles
      BY <2>1, <2>2 DEF ProvisioningInv, ProvisioningTyped
    <2>3. ASSUME NEW p \in P!Principals, NEW role \in RoleStates, roles' = [roles EXCEPT ![p] = role]
          PROVE  roles' \in [P!Principals -> RoleStates]
      BY <2>3 DEF ProvisioningInv, ProvisioningTyped
    <2>4. CASE ~UNCHANGED roles
      <3>1. PICK p \in P!Principals :
              roles' \in {[roles EXCEPT ![p].config = TRUE], [roles EXCEPT ![p].expired = TRUE],
                         [roles EXCEPT ![p].limit = 0], [roles EXCEPT ![p].limit = 40]}
        BY <2>4 DEF P!Tamper
      <3>2. \E role \in RoleStates : roles' = [roles EXCEPT ![p] = role]
        <4>1. roles[p] \in RoleStates
          BY DEF ProvisioningInv, ProvisioningTyped
        <4>2. CASE roles' = [roles EXCEPT ![p].config = TRUE]
          <5>1. [roles[p] EXCEPT !.config = TRUE] \in RoleStates
            BY <4>1 DEF RoleStates
          <5>2. QED
            BY <4>2, <5>1
        <4>3. CASE roles' = [roles EXCEPT ![p].expired = TRUE]
          <5>1. [roles[p] EXCEPT !.expired = TRUE] \in RoleStates
            BY <4>1 DEF RoleStates
          <5>2. QED
            BY <4>3, <5>1
        <4>4. CASE roles' = [roles EXCEPT ![p].limit = 0]
          <5>1. [roles[p] EXCEPT !.limit = 0] \in RoleStates
            BY <4>1 DEF RoleStates
          <5>2. QED
            BY <4>4, <5>1
        <4>5. CASE roles' = [roles EXCEPT ![p].limit = 40]
          <5>1. [roles[p] EXCEPT !.limit = 40] \in RoleStates
            BY <4>1 DEF RoleStates
          <5>2. QED
            BY <4>5, <5>1
        <4>6. QED
          BY <3>1, <4>2, <4>3, <4>4, <4>5, Zenon
      <3>3. QED
        BY <2>1, <2>3, <3>2
    <2>5. QED
      BY <2>2, <2>4
  <1>3. ProvisioningTyped' /\ Ordered'
    BY <1>1, <1>2 DEF ProvisioningInv, ProvisioningTyped, Ordered, P!Begun
  <1>4. ASSUME NEW q \in Runs PROVE Orderly(q)'
    BY <1>1 DEF ProvisioningInv, Prepared, Orderly, P!Configured
  <1>5. ASSUME NEW q \in Runs \ overlapped' PROVE Settled(q)'
    <2>1. run[q] = "idle"
      BY <1>1, <1>5 DEF P!Begun
    <2>2. current'[q].done = {} /\ run'[q] = "idle"
      BY <1>1, <2>1 DEF ProvisioningInv, Prepared, Orderly
    <2>3. QED
      BY <2>2 DEF Settled
  <1>6. QED
    BY <1>1, <1>3, <1>4, <1>5 DEF ProvisioningInv, Prepared

LEMMA ProvisioningHolds == P!Init /\ [][P!Next]_(P!provisioningVars) => []ProvisioningInv
  <1>1. ProvisioningInv /\ UNCHANGED P!provisioningVars => ProvisioningInv'
    BY DEF P!provisioningVars, ProvisioningInv, ProvisioningTyped, Ordered, Prepared, Orderly, Settled,
           P!Configured, P!Fit
  <1>2. ProvisioningInv /\ [P!Next]_(P!provisioningVars) => ProvisioningInv'
    BY <1>1, ProvisioningBegins, MigrationsMove, MigrationRecorded, RolesAltered, RolesRetired, RolesJudged,
       RolesTampered DEF P!Next
  <1>3. QED
    BY <1>2, ProvisioningStarts, PTL

(* Migrations are applied once and in order; a run that reports success    *)
(* and was not disturbed leaves what its environment says.                 *)
LEMMA ProvisioningMeans == ProvisioningInv => P!PreparedAsSaid
  <1> SUFFICES ASSUME ProvisioningInv PROVE P!PreparedAsSaid
    OBVIOUS
  <1>1. P!MigratedOnce
    <2>1. ASSUME NEW r \in Runs, run[r] \notin P!Ended \cup {"migrating", "missing", "run"}
          PROVE  applied = 1 .. Last
      <3>1. run[r] \in Preparing
        BY <2>1 DEF ProvisioningInv, ProvisioningTyped, RunSteps, P!Ended
      <3>2. migration[r] > Last /\ migration[r] \in Nat /\ 1 .. (migration[r] - 1) \subseteq applied
        BY <3>1 DEF ProvisioningInv, ProvisioningTyped, Ordered
      <3>3. 1 .. Last \subseteq 1 .. (migration[r] - 1)
        BY <3>2, ProvisioningConstants
      <3>4. QED
        BY <3>2, <3>3 DEF ProvisioningInv, ProvisioningTyped
    <2>2. QED
      BY <2>1 DEF P!MigratedOnce, ProvisioningInv, Ordered
  <1>2. P!Authoritative
    <2>1. ASSUME NEW r \in Runs, run[r] = "done", r \notin overlapped
          PROVE  ~member /\ \A p \in P!Principals : IF p \in P!Configured(r)
                              THEN P!Fit(roles[p]) /\ roles[p].password = env[r][p]
                              ELSE ~roles[p].login
      BY <2>1 DEF ProvisioningInv, Prepared, Orderly, Settled
    <2>2. QED
      BY <2>1 DEF P!Authoritative
  <1>3. QED
    BY <1>1, <1>2 DEF P!PreparedAsSaid, ProvisioningInv

LEMMA TenancyWithin == [Next]_vars => [T!Next]_(T!tenancyVars)
  <1> SUFFICES ASSUME [Next]_vars PROVE [T!Next]_(T!tenancyVars)
    OBVIOUS
  <1>1. ASSUME UNCHANGED tenancy PROVE UNCHANGED T!tenancyVars
    BY <1>1 DEF tenancy, T!tenancyVars
  <1>2. CASE UNCHANGED vars
    BY <1>1, <1>2 DEF vars
  <1>3. CASE Next
    BY <1>1, <1>3 DEF Next, UploadsStep, CsvStep, ProvisioningStep, RecoveryStep, EdgeStep, WorkbenchStep, GatesStep
  <1>4. QED
    BY <1>2, <1>3

LEMMA ProvisioningWithin == [Next]_vars => [P!Next]_(P!provisioningVars)
  <1> SUFFICES ASSUME [Next]_vars PROVE [P!Next]_(P!provisioningVars)
    OBVIOUS
  <1>1. ASSUME UNCHANGED provisioning PROVE UNCHANGED P!provisioningVars
    BY <1>1 DEF provisioning, P!provisioningVars
  <1>2. CASE UNCHANGED vars
    BY <1>1, <1>2 DEF vars
  <1>3. CASE Next
    BY <1>1, <1>3 DEF Next, UploadsStep, CsvStep, TenancyStep, RecoveryStep, EdgeStep, WorkbenchStep, GatesStep
  <1>4. QED
    BY <1>2, <1>3

(* Whatever runs of the provisioning, bootstraps, scripts, operators and   *)
(* crashes interleave: migrations are applied once and in order, a run     *)
(* that nobody disturbed and that reports success leaves the principals as *)
(* its environment says (prepareRuntime), one caller bootstraps the        *)
(* installation, a script clears no tenant but its own, and a worker's     *)
(* token the database knows was handed out unless something failed.        *)
THEOREM DeploymentStaysOwned == Spec => []DeploymentIsOwned
  <1>1. Init => T!Init /\ P!Init
    BY DEF Init
  <1>2. Spec => []TenancyInv
    BY <1>1, TenancyWithin, TenancyHolds, PTL DEF Spec
  <1>3. Spec => []ProvisioningInv
    BY <1>1, ProvisioningWithin, ProvisioningHolds, PTL DEF Spec
  <1>4. TenancyInv /\ ProvisioningInv => DeploymentIsOwned
    BY TenancyMeans, ProvisioningMeans DEF DeploymentIsOwned
  <1>5. QED
    BY <1>2, <1>3, <1>4, PTL

-----------------------------------------------------------------------------
(* Uploads.                                                                *)

Placing == {"placed", "required", "numbered", "inserted"}
UploadSteps == {"idle", "receiving", "streaming", "waiting", "over"} \cup Placing
EvidenceRows == [by : Uploads, version : Nat]

UploadsTyped ==
    /\ step \in [Uploads -> UploadSteps] /\ names \in [Uploads -> SUBSET {"temporary", "final"}]
    /\ number \in [Uploads -> Nat] /\ reply \in [Uploads -> Nat]
    /\ versions \subseteq EvidenceRows /\ entered \subseteq EvidenceRows
    /\ opening \subseteq Uploads /\ erasing \subseteq Uploads /\ required \in BOOLEAN

(* Where the bytes of an upload are while its handler runs, and after.     *)
BytesPlaced ==
    /\ \A u \in Uploads : step[u] \in Placing => names[u] = {"final"} /\ u \notin opening
    /\ \A u \in Uploads : step[u] = "idle" => names[u] = {} /\ u \notin opening
    /\ \A u \in erasing : step[u] = "over" /\ u \notin opening /\ names[u] \subseteq {"final"}
    /\ \A u \in Uploads : (step[u] = "over" /\ names[u] # {} /\ \A row \in versions : row.by # u)
                             => u \in erasing \cup orphans

RowsKept ==
    /\ \A row \in versions :
         /\ step[row.by] = "over" /\ row.by \notin opening /\ names[row.by] \subseteq {"final"}
         /\ (names[row.by] = {"final"} /\ reply[row.by] = 202) \/ row.by \in unheard
    /\ \A row \in entered : step[row.by] = "inserted" /\ row.version = number[row.by]
    /\ \A u \in Uploads : step[u] = "inserted" => \E row \in entered : row.by = u
    /\ \A u \in Uploads : reply[u] = 202 => step[u] = "over" /\ (required => \E row \in versions : row.by = u)

(* The reset, and what its foreign key keeps out.                          *)
RequirementKept ==
    /\ ~required => versions = {} /\ entered = {}
    /\ required => erasing = {}

(* Numbers are read from committed rows, so that the next one is at most   *)
(* one above them however long its transaction takes.                      *)
NumberedUpTo(n) ==
    /\ U!Versions(versions) = 1 .. n
    /\ \A u \in Uploads : required /\ step[u] \in {"numbered", "inserted"} => number[u] \in 1 .. (n + 1)

UploadsInv == UploadsTyped /\ BytesPlaced /\ RowsKept /\ RequirementKept /\ \E n \in Nat : NumberedUpTo(n)

LEMMA UploadsStart == U!Init => UploadsInv
  <1> SUFFICES ASSUME U!Init PROVE UploadsInv
    OBVIOUS
  <1>1. UploadsTyped
    BY DEF U!Init, UploadsTyped, UploadSteps
  <1>2. BytesPlaced /\ RowsKept /\ RequirementKept
    BY DEF U!Init, BytesPlaced, RowsKept, RequirementKept, Placing
  <1>3. NumberedUpTo(0)
    BY DEF U!Init, NumberedUpTo, U!Versions
  <1>4. QED
    BY <1>1, <1>2, <1>3 DEF UploadsInv

(* A step of one handler that enters no row: it may fail, and then its     *)
(* bytes and its rows go.                                                  *)
Handled(u, s, files, status) ==
    /\ step[u] # "over"
    /\ s \in UploadSteps \ {"idle", "numbered", "inserted"} /\ step' = [step EXCEPT ![u] = s]
    /\ files \in SUBSET {"temporary", "final"} /\ names' = [names EXCEPT ![u] = files]
    /\ status \in Nat /\ status # 202 /\ reply' = [reply EXCEPT ![u] = status]
    /\ UNCHANGED opening \/ (s = "streaming" /\ opening' = opening \cup {u})
    /\ entered' = entered \ U!Mine(u)
    /\ UNCHANGED <<number, versions, required, erasing, unheard, orphans>>
    /\ s \in Placing => files = {"final"} /\ u \notin opening
    /\ s = "over" => files = {}

LEMMA OneHandled ==
    ASSUME UploadsInv, NEW u \in Uploads, NEW s, NEW files, NEW status, Handled(u, s, files, status)
    PROVE  UploadsInv'
  <1> USE DEF Handled
  <1>1. /\ step'[u] = s /\ names'[u] = files /\ reply'[u] = status
        /\ \A w \in Uploads : w # u => step'[w] = step[w] /\ names'[w] = names[w] /\ reply'[w] = reply[w]
    BY DEF UploadsInv, UploadsTyped
  <1>2. \A w \in Uploads : w # u => (w \in opening' <=> w \in opening)
    OBVIOUS
  <1>3. UploadsTyped'
    BY DEF UploadsInv, UploadsTyped
  <1>4. u \notin erasing /\ \A row \in versions : row.by # u /\ row.by \in Uploads
    BY DEF UploadsInv, UploadsTyped, BytesPlaced, RowsKept, EvidenceRows
  <1>5. \A row \in entered' : row \in entered /\ row.by # u /\ row.by \in Uploads
    BY DEF UploadsInv, UploadsTyped, U!Mine, EvidenceRows
  <1>6. BytesPlaced'
    <2>1. ASSUME NEW w \in Uploads
          PROVE  /\ step'[w] \in Placing => names'[w] = {"final"} /\ w \notin opening'
                 /\ step'[w] = "idle" => names'[w] = {} /\ w \notin opening'
      <3>1. CASE w = u
        BY <1>1, <3>1 DEF Placing
      <3>2. CASE w # u
        BY <1>1, <1>2, <3>2 DEF UploadsInv, BytesPlaced
      <3>3. QED
        BY <3>1, <3>2
    <2>2. ASSUME NEW w \in erasing' PROVE step'[w] = "over" /\ w \notin opening' /\ names'[w] \subseteq {"final"}
      BY <1>1, <1>2, <1>4, <2>2 DEF UploadsInv, UploadsTyped, BytesPlaced
    <2>3. ASSUME NEW w \in Uploads, step'[w] = "over", names'[w] # {}, \A row \in versions' : row.by # w
          PROVE  w \in erasing' \cup orphans'
      <3>1. w # u
        BY <1>1, <2>3
      <3>2. QED
        BY <1>1, <2>3, <3>1 DEF UploadsInv, BytesPlaced
    <2>4. QED
      BY <2>1, <2>2, <2>3 DEF BytesPlaced
  <1>7. RowsKept'
    <2>1. ASSUME NEW row \in versions'
          PROVE  /\ step'[row.by] = "over" /\ row.by \notin opening' /\ names'[row.by] \subseteq {"final"}
                 /\ (names'[row.by] = {"final"} /\ reply'[row.by] = 202) \/ row.by \in unheard'
      BY <1>1, <1>2, <1>4, <2>1 DEF UploadsInv, RowsKept
    <2>2. ASSUME NEW row \in entered' PROVE step'[row.by] = "inserted" /\ row.version = number'[row.by]
      BY <1>1, <1>5, <2>2 DEF UploadsInv, RowsKept
    <2>3. ASSUME NEW w \in Uploads, step'[w] = "inserted" PROVE \E row \in entered' : row.by = w
      <3>1. w # u /\ step[w] = "inserted"
        BY <1>1, <2>3
      <3>2. PICK row \in entered : row.by = w
        BY <3>1 DEF UploadsInv, RowsKept
      <3>3. row \in entered'
        BY <3>1, <3>2 DEF U!Mine
      <3>4. QED
        BY <3>2, <3>3
    <2>4. ASSUME NEW w \in Uploads, reply'[w] = 202
          PROVE  step'[w] = "over" /\ (required' => \E row \in versions' : row.by = w)
      BY <1>1, <2>4 DEF UploadsInv, RowsKept
    <2>5. QED
      BY <2>1, <2>2, <2>3, <2>4 DEF RowsKept
  <1>8. RequirementKept'
    BY DEF UploadsInv, RequirementKept
  <1>9. ASSUME NEW n \in Nat, NumberedUpTo(n) PROVE NumberedUpTo(n)'
    BY <1>1, <1>9 DEF NumberedUpTo, U!Versions
  <1>10. QED
    BY <1>3, <1>6, <1>7, <1>8, <1>9 DEF UploadsInv

(* What a handler leaves alone stays as it is at its own place, too.       *)
LEMMA LeftAlone ==
    ASSUME UploadsInv, NEW u \in Uploads, step[u] # "over"
    PROVE  /\ names = [names EXCEPT ![u] = names[u]] /\ names[u] \in SUBSET {"temporary", "final"}
           /\ reply = [reply EXCEPT ![u] = reply[u]] /\ reply[u] \in Nat /\ reply[u] # 202
           /\ step[u] # "inserted" => entered = entered \ U!Mine(u)
  <1>1. step[u] # "inserted" => U!Mine(u) = {}
    BY DEF UploadsInv, RowsKept, U!Mine
  <1>2. QED
    BY <1>1 DEF UploadsInv, UploadsTyped, RowsKept

LEMMA Refused == \A b \in DOMAIN U!Unacceptable : U!Unacceptable[b] \in Nat /\ U!Unacceptable[b] # 202
  BY DEF U!Unacceptable

LEMMA BodiesHandled ==
    ASSUME UploadsInv, NEW u \in Uploads,
           \/ U!Begin(u) \/ U!FileArrives(u) \/ U!ParserRefuses(u) \/ U!BodyRefused(u) \/ U!Rename(u)
           \/ U!CallerLeaves(u)
    PROVE  UploadsInv'
  <1>1. CASE U!Begin(u)
    <2>1. /\ step[u] = "idle"
          /\ UNCHANGED <<names, opening, number, versions, entered, required, erasing, unheard, orphans>>
      BY <1>1 DEF U!Begin, U!fileVars, U!rowVars, U!fateVars
    <2>2. names[u] = {} /\ u \notin opening
      BY <2>1 DEF UploadsInv, BytesPlaced
    <2>3. CASE step' = [step EXCEPT ![u] = "over"] /\ reply' = [reply EXCEPT ![u] = 415]
      <3>1. Handled(u, "over", {}, 415)
        BY <2>1, <2>2, <2>3, LeftAlone DEF Handled, UploadSteps, Placing
      <3>2. QED
        BY <3>1, OneHandled
    <2>4. CASE step' = [step EXCEPT ![u] = "receiving"] /\ UNCHANGED reply
      <3>1. Handled(u, "receiving", {}, reply[u])
        BY <2>1, <2>2, <2>4, LeftAlone DEF Handled, UploadSteps, Placing
      <3>2. QED
        BY <3>1, OneHandled
    <2>5. QED
      BY <1>1, <2>3, <2>4 DEF U!Begin, U!Goto
  <1>2. CASE U!FileArrives(u)
    <2>1. /\ step[u] = "receiving" /\ step' = [step EXCEPT ![u] = "streaming"] /\ opening' = opening \cup {u}
          /\ UNCHANGED <<names, reply, number, versions, entered, required, erasing, unheard, orphans>>
      BY <1>2 DEF U!FileArrives, U!Goto, U!rowVars, U!fateVars
    <2>2. Handled(u, "streaming", names[u], reply[u])
      BY <2>1, LeftAlone DEF Handled, UploadSteps, Placing
    <2>3. QED
      BY <2>2, OneHandled
  <1>3. ASSUME NEW status \in Nat, status # 202, U!CleanUp(u, status), step[u] \in {"receiving", "streaming"},
               UNCHANGED <<opening, number, versions, entered, required, erasing, unheard, orphans>>
        PROVE  UploadsInv'
    <2>1. /\ step' = [step EXCEPT ![u] = "over"] /\ names' = [names EXCEPT ![u] = {}]
          /\ reply' = [reply EXCEPT ![u] = status]
      BY <1>3 DEF U!CleanUp, U!Goto
    <2>2. Handled(u, "over", {}, status)
      BY <1>3, <2>1, LeftAlone DEF Handled, UploadSteps, Placing
    <2>3. QED
      BY <2>2, OneHandled
  <1>4. CASE U!ParserRefuses(u)
    BY <1>3, <1>4 DEF U!ParserRefuses, U!rowVars, U!fateVars
  <1>5. CASE U!BodyRefused(u)
    <2>1. PICK status : status = U!Unacceptable[body[u]]
      OBVIOUS
    <2>2. status \in Nat /\ status # 202
      BY <1>5, <2>1, Refused DEF U!BodyRefused
    <2>3. QED
      BY <1>3, <1>5, <2>1, <2>2 DEF U!BodyRefused, U!Finished, U!rowVars, U!fateVars
  <1>6. CASE U!Rename(u)
    <2>1. /\ step[u] = "streaming" /\ u \notin opening
          /\ step' = [step EXCEPT ![u] = "placed"] /\ names' = [names EXCEPT ![u] = {"final"}]
          /\ UNCHANGED <<reply, opening, number, versions, entered, required, erasing, unheard, orphans>>
      BY <1>6 DEF U!Rename, U!Finished, U!Goto, U!rowVars, U!fateVars
    <2>2. Handled(u, "placed", {"final"}, reply[u])
      BY <2>1, LeftAlone DEF Handled, UploadSteps, Placing
    <2>3. QED
      BY <2>2, OneHandled
  <1>7. CASE U!CallerLeaves(u)
    <2>1. /\ step[u] \in {"receiving", "streaming"} /\ step' = [step EXCEPT ![u] = "waiting"]
          /\ UNCHANGED <<names, reply, opening, number, versions, entered, required, erasing, unheard, orphans>>
      BY <1>7 DEF U!CallerLeaves, U!Goto, U!fileVars, U!rowVars
    <2>2. Handled(u, "waiting", names[u], reply[u])
      BY <2>1, LeftAlone DEF Handled, UploadSteps, Placing
    <2>3. QED
      BY <2>2, OneHandled
  <1>8. QED
    BY <1>1, <1>2, <1>4, <1>5, <1>6, <1>7

LEMMA TransactionsFail ==
    ASSUME UploadsInv, NEW u \in Uploads,
           \/ U!ReadRequirement(u) \/ U!Rollback(u) \/ (U!Insert(u) /\ ~required)
    PROVE  UploadsInv'
  <1>1. ASSUME NEW status \in Nat, status # 202, U!CleanUp(u, status), step[u] \in Placing,
               entered' = entered \ U!Mine(u),
               UNCHANGED <<opening, number, versions, required, erasing, unheard, orphans>>
        PROVE  UploadsInv'
    <2>1. /\ step' = [step EXCEPT ![u] = "over"] /\ names' = [names EXCEPT ![u] = {}]
          /\ reply' = [reply EXCEPT ![u] = status]
      BY <1>1 DEF U!CleanUp, U!Goto
    <2>2. Handled(u, "over", {}, status)
      BY <1>1, <2>1 DEF Handled, UploadSteps, Placing
    <2>3. QED
      BY <2>2, OneHandled
  <1>2. CASE U!ReadRequirement(u)
    <2>1. /\ step[u] = "placed"
          /\ UNCHANGED <<opening, number, versions, entered, required, erasing, unheard, orphans>>
      BY <1>2 DEF U!ReadRequirement, U!rowVars, U!fateVars
    <2>2. entered' = entered \ U!Mine(u)
      BY <2>1, LeftAlone
    <2>3. CASE step' = [step EXCEPT ![u] = "required"] /\ UNCHANGED <<names, reply>>
      <3>1. names[u] = {"final"} /\ u \notin opening
        BY <2>1 DEF UploadsInv, BytesPlaced, Placing
      <3>2. Handled(u, "required", {"final"}, reply[u])
        BY <2>1, <2>2, <2>3, <3>1, LeftAlone DEF Handled, UploadSteps, Placing
      <3>3. QED
        BY <3>2, OneHandled
    <2>4. CASE U!CleanUp(u, 404)
      BY <1>1, <2>1, <2>2, <2>4 DEF Placing
    <2>5. QED
      BY <1>2, <2>3, <2>4 DEF U!ReadRequirement, U!Goto
  <1>3. CASE U!Rollback(u)
    BY <1>1, <1>3 DEF U!Rollback, Placing
  <1>4. CASE U!Insert(u) /\ ~required
    <2>1. entered = entered \ U!Mine(u)
      BY <1>4, LeftAlone DEF U!Insert
    <2>2. QED
      BY <1>1, <1>4, <2>1 DEF U!Insert, Placing, U!fateVars
  <1>5. QED
    BY <1>2, <1>3, <1>4

(* The stream of a request opens its file in its own time, perhaps when    *)
(* the handler has ended.                                                  *)
LEMMA OutputsOpen ==
    ASSUME UploadsInv, NEW u \in Uploads, U!OutputOpens(u)
    PROVE  UploadsInv'
  <1>1. /\ u \in opening /\ opening' = opening \ {u}
        /\ names' = [names EXCEPT ![u] = names[u] \cup {"temporary"}]
        /\ step[u] = "over" => u \in orphans'
        /\ orphans \subseteq orphans'
        /\ UNCHANGED <<step, number, versions, entered, required, reply, erasing, unheard>>
    BY DEF U!OutputOpens, U!rowVars
  <1>2. names'[u] = names[u] \cup {"temporary"} /\ \A w \in Uploads : w # u => names'[w] = names[w]
    BY <1>1 DEF UploadsInv, UploadsTyped
  <1>3. UploadsTyped'
    BY <1>1 DEF UploadsInv, UploadsTyped
  <1>4. u \notin erasing /\ step[u] \notin Placing \cup {"idle"} /\ \A row \in versions : row.by # u /\ row.by \in Uploads
    BY <1>1 DEF UploadsInv, UploadsTyped, BytesPlaced, RowsKept, EvidenceRows
  <1>5. BytesPlaced'
    <2>1. ASSUME NEW w \in Uploads
          PROVE  /\ step'[w] \in Placing => names'[w] = {"final"} /\ w \notin opening'
                 /\ step'[w] = "idle" => names'[w] = {} /\ w \notin opening'
      BY <1>1, <1>2, <1>4 DEF UploadsInv, BytesPlaced
    <2>2. ASSUME NEW w \in erasing' PROVE step'[w] = "over" /\ w \notin opening' /\ names'[w] \subseteq {"final"}
      BY <1>1, <1>2, <1>4, <2>2 DEF UploadsInv, UploadsTyped, BytesPlaced
    <2>3. ASSUME NEW w \in Uploads, step'[w] = "over", names'[w] # {}, \A row \in versions' : row.by # w
          PROVE  w \in erasing' \cup orphans'
      BY <1>1, <1>2, <2>3 DEF UploadsInv, BytesPlaced
    <2>4. QED
      BY <2>1, <2>2, <2>3 DEF BytesPlaced
  <1>6. RowsKept'
    <2>1. ASSUME NEW row \in versions'
          PROVE  /\ step'[row.by] = "over" /\ row.by \notin opening' /\ names'[row.by] \subseteq {"final"}
                 /\ (names'[row.by] = {"final"} /\ reply'[row.by] = 202) \/ row.by \in unheard'
      BY <1>1, <1>2, <1>4, <2>1 DEF UploadsInv, RowsKept
    <2>2. QED
      BY <1>1, <2>1 DEF UploadsInv, RowsKept
  <1>7. RequirementKept' /\ \A n \in Nat : NumberedUpTo(n) => NumberedUpTo(n)'
    BY <1>1 DEF UploadsInv, RequirementKept, NumberedUpTo, U!Versions
  <1>8. QED
    BY <1>3, <1>5, <1>6, <1>7 DEF UploadsInv

LEMMA HighestOf == \A n \in Nat : U!Max({0} \cup 1 .. n) = n
  BY DEF U!Max

LEMMA VersionsRead ==
    ASSUME UploadsInv, NEW u \in Uploads, U!ReadVersion(u)
    PROVE  UploadsInv'
  <1>1. PICK n \in Nat : NumberedUpTo(n)
    BY DEF UploadsInv
  <1>2. U!Max({0} \cup U!Versions(versions)) = n
    BY <1>1, HighestOf DEF NumberedUpTo
  <1>3. /\ step[u] = "required" /\ number' = [number EXCEPT ![u] = n + 1] /\ step' = [step EXCEPT ![u] = "numbered"]
        /\ UNCHANGED <<names, opening, versions, entered, required, reply, erasing, unheard, orphans>>
    BY <1>2 DEF U!ReadVersion, U!Goto, U!fileVars, U!rowVars, U!fateVars
  <1>4. /\ step'[u] = "numbered" /\ number'[u] = n + 1
        /\ \A w \in Uploads : w # u => step'[w] = step[w] /\ number'[w] = number[w]
    BY <1>3 DEF UploadsInv, UploadsTyped
  <1>5. UploadsTyped'
    BY <1>3 DEF UploadsInv, UploadsTyped, UploadSteps, Placing
  <1>6. /\ \A row \in versions : row.by # u /\ row.by \in Uploads
        /\ \A row \in entered : row.by # u /\ row.by \in Uploads
        /\ u \notin erasing /\ names[u] = {"final"} /\ u \notin opening
    BY <1>3 DEF UploadsInv, UploadsTyped, BytesPlaced, RowsKept, EvidenceRows, Placing
  <1>7. BytesPlaced'
    BY <1>3, <1>4, <1>6 DEF UploadsInv, UploadsTyped, BytesPlaced
  <1>8. RowsKept'
    BY <1>3, <1>4, <1>6 DEF UploadsInv, RowsKept
  <1>9. RequirementKept'
    BY <1>3 DEF UploadsInv, RequirementKept
  <1>10. NumberedUpTo(n)'
    BY <1>1, <1>3, <1>4 DEF NumberedUpTo, U!Versions
  <1>11. QED
    BY <1>5, <1>7, <1>8, <1>9, <1>10 DEF UploadsInv

LEMMA RowsEntered ==
    ASSUME UploadsInv, NEW u \in Uploads, U!Insert(u), required
    PROVE  UploadsInv'
  <1> DEFINE new == [by |-> u, version |-> number[u]]
  <1>1. /\ step[u] = "numbered" /\ entered' = entered \cup {new} /\ step' = [step EXCEPT ![u] = "inserted"]
        /\ UNCHANGED <<names, opening, number, versions, required, reply, erasing, unheard, orphans>>
    BY DEF U!Insert, U!Goto, U!fateVars
  <1>2. new \in EvidenceRows /\ new.by = u /\ new.version = number[u]
    BY DEF UploadsInv, UploadsTyped, EvidenceRows
  <1> HIDE DEF new
  <1>3. step'[u] = "inserted" /\ \A w \in Uploads : w # u => step'[w] = step[w]
    BY <1>1 DEF UploadsInv, UploadsTyped
  <1>4. UploadsTyped'
    BY <1>1, <1>2 DEF UploadsInv, UploadsTyped, UploadSteps, Placing
  <1>5. /\ \A row \in versions : row.by # u /\ row.by \in Uploads
        /\ \A row \in entered : row.by # u /\ row.by \in Uploads
        /\ u \notin erasing /\ names[u] = {"final"} /\ u \notin opening
    BY <1>1 DEF UploadsInv, UploadsTyped, BytesPlaced, RowsKept, EvidenceRows, Placing
  <1>6. BytesPlaced'
    BY <1>1, <1>3, <1>5 DEF UploadsInv, UploadsTyped, BytesPlaced
  <1>7. RowsKept'
    <2>1. ASSUME NEW row \in entered' PROVE step'[row.by] = "inserted" /\ row.version = number'[row.by]
      BY <1>1, <1>2, <1>3, <1>5, <2>1 DEF UploadsInv, RowsKept
    <2>2. ASSUME NEW w \in Uploads, step'[w] = "inserted" PROVE \E row \in entered' : row.by = w
      BY <1>1, <1>2, <1>3, <2>2 DEF UploadsInv, RowsKept
    <2>3. ASSUME NEW row \in versions'
          PROVE  /\ step'[row.by] = "over" /\ row.by \notin opening' /\ names'[row.by] \subseteq {"final"}
                 /\ (names'[row.by] = {"final"} /\ reply'[row.by] = 202) \/ row.by \in unheard'
      BY <1>1, <1>3, <1>5, <2>3 DEF UploadsInv, RowsKept
    <2>4. ASSUME NEW w \in Uploads, reply'[w] = 202
          PROVE  step'[w] = "over" /\ (required' => \E row \in versions' : row.by = w)
      BY <1>1, <1>3, <2>4 DEF UploadsInv, RowsKept
    <2>5. QED
      BY <2>1, <2>2, <2>3, <2>4 DEF RowsKept
  <1>8. RequirementKept'
    BY <1>1 DEF UploadsInv, RequirementKept
  <1>9. \A n \in Nat : NumberedUpTo(n) => NumberedUpTo(n)'
    BY <1>1, <1>3 DEF NumberedUpTo, U!Versions
  <1>10. QED
    BY <1>4, <1>6, <1>7, <1>8, <1>9 DEF UploadsInv

(* A number at most one above the numbers there are leaves none out.       *)
LEMMA NoneLeftOut ==
    ASSUME NEW n \in Nat, NEW v \in 1 .. (n + 1)
    PROVE  \E k \in Nat : k >= n /\ (1 .. n) \cup {v} = 1 .. k
  <1>1. CASE v = n + 1
    <2>1. (1 .. n) \cup {v} = 1 .. (n + 1)
      BY <1>1
    <2>2. QED
      BY <2>1
  <1>2. CASE v \in 1 .. n
    <2>1. (1 .. n) \cup {v} = 1 .. n
      BY <1>2
    <2>2. QED
      BY <2>1
  <1>3. QED
    BY <1>1, <1>2

LEMMA TransactionsCommit ==
    ASSUME UploadsInv, NEW u \in Uploads, U!Commit(u) \/ U!CommitUnheard(u)
    PROVE  UploadsInv'
  <1> DEFINE new == [by |-> u, version |-> number[u]]
  <1>1. /\ step[u] = "inserted" /\ step' = [step EXCEPT ![u] = "over"]
        /\ versions' = versions \cup U!Mine(u) /\ entered' = entered \ U!Mine(u)
        /\ unheard \subseteq unheard'
        /\ UNCHANGED <<opening, number, required, erasing, orphans>>
    BY DEF U!Commit, U!CommitUnheard, U!CleanUp, U!Goto, U!fileVars, U!fateVars
  <1>2. PICK files \in {{"final"}, {}}, status \in {202, 500} :
          /\ names' = [names EXCEPT ![u] = files] /\ reply' = [reply EXCEPT ![u] = status]
          /\ (files = {"final"} /\ status = 202) \/ (status = 500 /\ u \in unheard')
    <2>1. CASE U!Commit(u)
      <3>1. names[u] = {"final"}
        BY <1>1 DEF UploadsInv, BytesPlaced, Placing
      <3>2. names = [names EXCEPT ![u] = {"final"}]
        BY <3>1 DEF UploadsInv, UploadsTyped
      <3>3. names' = [names EXCEPT ![u] = {"final"}] /\ reply' = [reply EXCEPT ![u] = 202]
        BY <2>1, <3>2 DEF U!Commit, U!fileVars
      <3>4. QED
        BY <3>3
    <2>2. CASE U!CommitUnheard(u)
      <3>1. names' = [names EXCEPT ![u] = {}] /\ reply' = [reply EXCEPT ![u] = 500] /\ u \in unheard'
        BY <2>2 DEF U!CommitUnheard, U!CleanUp
      <3>2. QED
        BY <3>1
    <2>3. QED
      BY <2>1, <2>2
  <1>3. U!Mine(u) = {new}
    <2>1. ASSUME NEW row \in U!Mine(u) PROVE row = new
      BY <2>1 DEF U!Mine, UploadsInv, UploadsTyped, RowsKept, EvidenceRows
    <2>2. U!Mine(u) # {}
      BY <1>1 DEF UploadsInv, RowsKept, U!Mine
    <2>3. QED
      BY <2>1, <2>2
  <1>4. new \in EvidenceRows /\ new.by = u /\ new.version = number[u]
    BY DEF UploadsInv, UploadsTyped, EvidenceRows
  <1> HIDE DEF new
  <1>5. /\ step'[u] = "over" /\ names'[u] = files /\ reply'[u] = status
        /\ \A w \in Uploads : w # u => step'[w] = step[w] /\ names'[w] = names[w] /\ reply'[w] = reply[w]
    BY <1>1, <1>2 DEF UploadsInv, UploadsTyped
  <1>6. UploadsTyped'
    BY <1>1, <1>2, <1>3, <1>4 DEF UploadsInv, UploadsTyped, UploadSteps
  <1>7. /\ \A row \in versions : row.by # u /\ row.by \in Uploads
        /\ \A row \in entered' : row.by # u /\ row.by \in Uploads /\ row \in entered
        /\ u \notin erasing /\ u \notin opening /\ required
    <2>1. u \notin erasing /\ u \notin opening
      BY <1>1 DEF UploadsInv, BytesPlaced, Placing
    <2>2. required
      BY <1>1 DEF UploadsInv, RowsKept, RequirementKept
    <2>3. \A row \in versions : row.by # u /\ row.by \in Uploads
      BY <1>1 DEF UploadsInv, UploadsTyped, RowsKept, EvidenceRows
    <2>4. \A row \in entered' : row.by # u /\ row.by \in Uploads /\ row \in entered
      BY <1>1 DEF UploadsInv, UploadsTyped, U!Mine, EvidenceRows
    <2>5. QED
      BY <2>1, <2>2, <2>3, <2>4
  <1>8. new \in versions' /\ versions \subseteq versions'
    BY <1>1, <1>3
  <1>9. BytesPlaced'
    <2>1. ASSUME NEW w \in Uploads
          PROVE  /\ step'[w] \in Placing => names'[w] = {"final"} /\ w \notin opening'
                 /\ step'[w] = "idle" => names'[w] = {} /\ w \notin opening'
      BY <1>1, <1>5 DEF UploadsInv, BytesPlaced, Placing
    <2>2. ASSUME NEW w \in erasing' PROVE step'[w] = "over" /\ w \notin opening' /\ names'[w] \subseteq {"final"}
      BY <1>1, <1>5, <1>7, <2>2 DEF UploadsInv, UploadsTyped, BytesPlaced
    <2>3. ASSUME NEW w \in Uploads, step'[w] = "over", names'[w] # {}, \A row \in versions' : row.by # w
          PROVE  w \in erasing' \cup orphans'
      BY <1>1, <1>4, <1>5, <1>8, <2>3 DEF UploadsInv, BytesPlaced
    <2>4. QED
      BY <2>1, <2>2, <2>3 DEF BytesPlaced
  <1>10. RowsKept'
    <2>1. ASSUME NEW row \in versions'
          PROVE  /\ step'[row.by] = "over" /\ row.by \notin opening' /\ names'[row.by] \subseteq {"final"}
                 /\ (names'[row.by] = {"final"} /\ reply'[row.by] = 202) \/ row.by \in unheard'
      <3>1. CASE row \in versions
        BY <1>1, <1>5, <1>7, <3>1, SMTT(30) DEF UploadsInv, RowsKept
      <3>2. CASE row = new
        BY <1>1, <1>2, <1>4, <1>5, <1>7, <3>2
      <3>3. QED
        BY <1>1, <1>3, <2>1, <3>1, <3>2
    <2>2. ASSUME NEW row \in entered' PROVE step'[row.by] = "inserted" /\ row.version = number'[row.by]
      BY <1>1, <1>5, <1>7, <2>2 DEF UploadsInv, RowsKept
    <2>3. ASSUME NEW w \in Uploads, step'[w] = "inserted" PROVE \E row \in entered' : row.by = w
      <3>1. w # u /\ step[w] = "inserted"
        BY <1>5, <2>3
      <3>2. PICK row \in entered : row.by = w
        BY <3>1 DEF UploadsInv, RowsKept
      <3>3. QED
        BY <1>1, <3>1, <3>2 DEF U!Mine
    <2>4. ASSUME NEW w \in Uploads, reply'[w] = 202
          PROVE  step'[w] = "over" /\ (required' => \E row \in versions' : row.by = w)
      <3>1. CASE w = u
        BY <1>4, <1>5, <1>8, <3>1
      <3>2. CASE w # u
        BY <1>1, <1>5, <1>8, <2>4, <3>2 DEF UploadsInv, RowsKept
      <3>3. QED
        BY <3>1, <3>2
    <2>5. QED
      BY <2>1, <2>2, <2>3, <2>4 DEF RowsKept
  <1>11. RequirementKept'
    BY <1>1, <1>7 DEF UploadsInv, RequirementKept
  <1>12. PICK n \in Nat : NumberedUpTo(n)
    BY DEF UploadsInv
  <1>13. number[u] \in 1 .. (n + 1)
    BY <1>1, <1>7, <1>12 DEF NumberedUpTo
  <1>14. PICK k \in Nat : k >= n /\ (1 .. n) \cup {number[u]} = 1 .. k
    <2>1. PICK v : v = number[u]
      OBVIOUS
    <2>2. v \in 1 .. (n + 1)
      BY <1>13, <2>1
    <2>3. \E k \in Nat : k >= n /\ (1 .. n) \cup {v} = 1 .. k
      BY <2>2, NoneLeftOut, Zenon
    <2>4. QED
      BY <2>1, <2>3
  <1>15. NumberedUpTo(k)'
    <2>1. U!Versions(versions') = U!Versions(versions) \cup {number[u]}
      BY <1>1, <1>3, <1>4 DEF U!Versions
    <2>2. ASSUME NEW w \in Uploads, required', step'[w] \in {"numbered", "inserted"} PROVE number'[w] \in 1 .. (k + 1)
      <3>1. number[w] \in 1 .. (n + 1)
        BY <1>1, <1>5, <1>7, <1>12, <2>2 DEF NumberedUpTo
      <3>2. QED
        BY <1>1, <1>14, <3>1
    <2>3. QED
      BY <1>12, <1>14, <2>1, <2>2 DEF NumberedUpTo
  <1>16. QED
    BY <1>6, <1>9, <1>10, <1>11, <1>15 DEF UploadsInv

LEMMA UploadsCrash ==
    ASSUME UploadsInv, U!Crash
    PROVE  UploadsInv'
  <1>1. /\ step' = [u \in Uploads |-> IF step[u] = "idle" THEN "idle" ELSE "over"]
        /\ entered' = {} /\ opening' = {} /\ erasing' = {}
        /\ orphans' = orphans \cup {u \in Uploads : step[u] \notin {"idle", "over"} /\ names[u] # {}} \cup erasing
        /\ UNCHANGED <<names, number, versions, required, reply, unheard>>
    BY DEF U!Crash
  <1>2. UploadsTyped'
    BY <1>1 DEF UploadsInv, UploadsTyped, UploadSteps
  <1>3. BytesPlaced'
    <2>1. ASSUME NEW u \in Uploads
          PROVE  /\ step'[u] \in Placing => names'[u] = {"final"} /\ u \notin opening'
                 /\ step'[u] = "idle" => names'[u] = {} /\ u \notin opening'
      BY <1>1 DEF UploadsInv, BytesPlaced, Placing
    <2>2. ASSUME NEW u \in Uploads, step'[u] = "over", names'[u] # {}, \A row \in versions' : row.by # u
          PROVE  u \in erasing' \cup orphans'
      <3>1. CASE step[u] = "over"
        BY <1>1, <2>2, <3>1 DEF UploadsInv, BytesPlaced
      <3>2. CASE step[u] # "over"
        BY <1>1, <2>2, <3>2
      <3>3. QED
        BY <3>1, <3>2
    <2>3. QED
      BY <1>1, <2>1, <2>2 DEF BytesPlaced
  <1>4. RowsKept'
    <2>1. ASSUME NEW row \in versions'
          PROVE  /\ step'[row.by] = "over" /\ row.by \notin opening' /\ names'[row.by] \subseteq {"final"}
                 /\ (names'[row.by] = {"final"} /\ reply'[row.by] = 202) \/ row.by \in unheard'
      <3>1. row.by \in Uploads
        BY <1>1, <2>1 DEF UploadsInv, UploadsTyped, EvidenceRows
      <3>2. QED
        BY <1>1, <2>1, <3>1 DEF UploadsInv, RowsKept
    <2>2. ASSUME NEW u \in Uploads PROVE step'[u] # "inserted"
      BY <1>1
    <2>3. ASSUME NEW u \in Uploads, reply'[u] = 202
          PROVE  step'[u] = "over" /\ (required' => \E row \in versions' : row.by = u)
      BY <1>1, <2>3 DEF UploadsInv, RowsKept
    <2>4. QED
      BY <1>1, <2>1, <2>2, <2>3 DEF RowsKept
  <1>5. RequirementKept'
    BY <1>1 DEF UploadsInv, RequirementKept
  <1>6. \A n \in Nat : NumberedUpTo(n) => NumberedUpTo(n)'
    BY <1>1 DEF NumberedUpTo, U!Versions
  <1>7. QED
    BY <1>2, <1>3, <1>4, <1>5, <1>6 DEF UploadsInv

LEMMA EvidenceReset ==
    ASSUME UploadsInv, U!Reset
    PROVE  UploadsInv'
  <1>1. /\ required /\ entered = {} /\ versions' = {} /\ required' = FALSE
        /\ erasing' = {row.by : row \in versions}
        /\ UNCHANGED <<step, names, opening, number, entered, reply, unheard, orphans>>
    BY DEF U!Reset, U!fileVars
  <1>2. erasing = {}
    BY <1>1 DEF UploadsInv, RequirementKept
  <1>3. UploadsTyped'
    BY <1>1 DEF UploadsInv, UploadsTyped, EvidenceRows
  <1>4. BytesPlaced'
    <2>1. ASSUME NEW u \in erasing' PROVE step'[u] = "over" /\ u \notin opening' /\ names'[u] \subseteq {"final"}
      BY <1>1, <2>1 DEF UploadsInv, RowsKept
    <2>2. ASSUME NEW u \in Uploads, step'[u] = "over", names'[u] # {}
          PROVE  u \in erasing' \cup orphans'
      <3>1. CASE \E row \in versions : row.by = u
        BY <1>1, <3>1
      <3>2. CASE \A row \in versions : row.by # u
        BY <1>1, <1>2, <2>2, <3>2 DEF UploadsInv, BytesPlaced
      <3>3. QED
        BY <3>1, <3>2
    <2>3. QED
      BY <1>1, <2>1, <2>2 DEF UploadsInv, BytesPlaced
  <1>5. RowsKept' /\ RequirementKept'
    BY <1>1 DEF UploadsInv, RowsKept, RequirementKept
  <1>6. NumberedUpTo(0)'
    BY <1>1 DEF NumberedUpTo, U!Versions
  <1>7. QED
    BY <1>3, <1>4, <1>5, <1>6 DEF UploadsInv

LEMMA KeysRemoved ==
    ASSUME UploadsInv, NEW u \in Uploads, U!RemoveKey(u)
    PROVE  UploadsInv'
  <1>1. /\ u \in erasing /\ erasing' = erasing \ {u}
        /\ UNCHANGED <<step, opening, number, versions, entered, required, reply, unheard>>
    BY DEF U!RemoveKey, U!rowVars
  <1>2. /\ orphans \subseteq orphans'
        /\ names'[u] = {} \/ (u \in orphans' /\ names'[u] = names[u])
        /\ \A w \in Uploads : w # u => names'[w] = names[w]
        /\ names' \in [Uploads -> SUBSET {"temporary", "final"}]
    <2>1. names[u] \ {"final"} = {}
      BY <1>1 DEF UploadsInv, BytesPlaced
    <2>2. CASE names' = [names EXCEPT ![u] = @ \ {"final"}] /\ UNCHANGED orphans
      BY <2>1, <2>2 DEF UploadsInv, UploadsTyped
    <2>3. CASE orphans' = orphans \cup {u} /\ UNCHANGED names
      BY <2>3 DEF UploadsInv, UploadsTyped
    <2>4. QED
      BY <2>2, <2>3 DEF U!RemoveKey
  <1>3. versions = {} /\ entered = {} /\ ~required /\ step[u] = "over"
    BY <1>1 DEF UploadsInv, UploadsTyped, BytesPlaced, RequirementKept
  <1>4. UploadsTyped'
    BY <1>1, <1>2 DEF UploadsInv, UploadsTyped
  <1>5. BytesPlaced'
    <2>1. ASSUME NEW w \in Uploads
          PROVE  /\ step'[w] \in Placing => names'[w] = {"final"} /\ w \notin opening'
                 /\ step'[w] = "idle" => names'[w] = {} /\ w \notin opening'
      BY <1>1, <1>2, <1>3 DEF UploadsInv, BytesPlaced, Placing
    <2>2. ASSUME NEW w \in erasing' PROVE step'[w] = "over" /\ w \notin opening' /\ names'[w] \subseteq {"final"}
      BY <1>1, <1>2, <2>2 DEF UploadsInv, UploadsTyped, BytesPlaced
    <2>3. ASSUME NEW w \in Uploads, step'[w] = "over", names'[w] # {}
          PROVE  w \in erasing' \cup orphans'
      BY <1>1, <1>2, <1>3, <2>3 DEF UploadsInv, BytesPlaced
    <2>4. QED
      BY <2>1, <2>2, <2>3 DEF BytesPlaced
  <1>6. RowsKept' /\ RequirementKept'
    BY <1>1, <1>3 DEF UploadsInv, RowsKept, RequirementKept
  <1>7. \A n \in Nat : NumberedUpTo(n) => NumberedUpTo(n)'
    BY <1>1 DEF NumberedUpTo, U!Versions
  <1>8. QED
    BY <1>4, <1>5, <1>6, <1>7 DEF UploadsInv

LEMMA UploadsHold == U!Init /\ [][U!Next]_(U!uploadVars) => []UploadsInv
  <1>1. UploadsInv /\ UNCHANGED U!uploadVars => UploadsInv'
    BY DEF U!uploadVars, UploadsInv, UploadsTyped, BytesPlaced, RowsKept, RequirementKept, NumberedUpTo, U!Versions
  <1>2. ASSUME UploadsInv, NEW u \in Uploads,
               \/ U!Begin(u) \/ U!FileArrives(u) \/ U!OutputOpens(u) \/ U!ParserRefuses(u) \/ U!BodyRefused(u)
               \/ U!Rename(u) \/ U!CallerLeaves(u) \/ U!ReadRequirement(u) \/ U!ReadVersion(u) \/ U!Insert(u)
               \/ U!Commit(u) \/ U!Rollback(u) \/ U!CommitUnheard(u) \/ U!RemoveKey(u)
        PROVE  UploadsInv'
    BY <1>2, BodiesHandled, OutputsOpen, TransactionsFail, VersionsRead, RowsEntered, TransactionsCommit, KeysRemoved
  <1>3. UploadsInv /\ [U!Next]_(U!uploadVars) => UploadsInv'
    BY <1>1, <1>2, UploadsCrash, EvidenceReset DEF U!Next
  <1>4. QED
    BY <1>3, UploadsStart, PTL

LEMMA UploadsWithin == [Next]_vars => [U!Next]_(U!uploadVars)
  <1> SUFFICES ASSUME [Next]_vars PROVE [U!Next]_(U!uploadVars)
    OBVIOUS
  <1>1. ASSUME UNCHANGED uploads PROVE UNCHANGED U!uploadVars
    BY <1>1 DEF uploads, U!uploadVars
  <1>2. CASE UNCHANGED vars
    BY <1>1, <1>2 DEF vars
  <1>3. CASE Next
    BY <1>1, <1>3 DEF Next, CsvStep, TenancyStep, ProvisioningStep, RecoveryStep, EdgeStep, WorkbenchStep, GatesStep
  <1>4. QED
    BY <1>2, <1>3

LEMMA UploadsMean == UploadsInv => U!UploadsAreWhole
  <1> SUFFICES ASSUME UploadsInv PROVE U!UploadsAreWhole
    OBVIOUS
  <1>1. U!Versions(versions) = 1 .. U!Cardinality(U!Versions(versions))
    <2>1. PICK n \in Nat : U!Versions(versions) = 1 .. n
      BY DEF UploadsInv, NumberedUpTo
    <2>2. Cardinality(1 .. n) = n
      BY <2>1, FS_Interval
    <2>3. U!Cardinality(1 .. n) = Cardinality(1 .. n)
      BY DEF U!Cardinality, Cardinality
    <2>4. QED
      BY <2>1, <2>2, <2>3
  <1>2. \A row \in versions : (U!Downloadable(row.by) /\ reply[row.by] = 202) \/ row.by \in unheard
    BY DEF UploadsInv, RowsKept, U!Downloadable
  <1>3. QED
    BY <1>1, <1>2 DEF UploadsInv, BytesPlaced, RowsKept, U!UploadsAreWhole

(* Whatever uploads, callers who leave, lost commits, crashes and the      *)
(* reset interleave, row and bytes of an upload stay together              *)
(* (receiveEvidenceUpload): an acknowledged upload has both until a reset, *)
(* the versions of a requirement leave no number out, and bytes without a  *)
(* row are accounted for.                                                  *)
THEOREM UploadsStayWhole == Spec => []UploadsAreWhole
  <1>1. Init => U!Init
    BY DEF Init
  <1>2. Spec => []UploadsInv
    BY <1>1, UploadsWithin, UploadsHold, PTL DEF Spec
  <1>3. UploadsInv => UploadsAreWhole
    BY UploadsMean DEF UploadsAreWhole
  <1>4. QED
    BY <1>2, <1>3, PTL

-----------------------------------------------------------------------------
(* The workbench: the rows a role may see.                                 *)

Seen(role) == {i \in DOMAIN rows : role = "manager" \/ rows[i].own}
UpTo(S, i) == W!Cardinality({j \in S : j <= i})
Nth(S, k) == CHOOSE i \in S : UpTo(S, i) = k
RowsKnown == rows \in Seq([own : BOOLEAN, requirement : Nat, version : Nat])

LEMMA VisibleIs ==
    ASSUME NEW role
    PROVE  W!Visible(role) = [k \in 1 .. W!Cardinality(Seen(role)) |-> Nth(Seen(role), k)]
  BY DEF W!Visible, Seen, Nth, UpTo

LEMMA SameCardinality == \A X : W!Cardinality(X) = Cardinality(X)
  BY DEF W!Cardinality, Cardinality

LEMMA LeastNatural ==
    ASSUME NEW good \in SUBSET Nat, good # {}
    PROVE  \E n \in good : \A m \in good : n <= m
  <1>1. PICK n \in good : \A m \in good : <<m, n>> \notin OpToRel(<, Nat)
    BY WFMin, NatLessThanWellFounded, Zenon
  <1>2. ASSUME NEW m \in good
        PROVE  n <= m
    <2>1. ~(m < n)
      BY <1>1, Zenon DEF OpToRel
    <2>2. QED
      BY <2>1
  <1>3. QED
    BY <1>2

(* The ranks of a finite set of numbers are those up to its cardinality.   *)
LEMMA Ranked ==
    ASSUME NEW n \in Nat, NEW X \in SUBSET (1 .. n)
    PROVE  /\ IsFiniteSet(X) /\ W!Cardinality(X) \in Nat
           /\ \A k \in 1 .. W!Cardinality(X) : Nth(X, k) \in X
  <1>0. \A j \in X : j \in Nat /\ 0 < j /\ j <= n
    OBVIOUS
  <1>1. IsFiniteSet(X)
    <2>1. IsFiniteSet(1 .. n)
      BY FS_Interval
    <2>2. QED
      BY <2>1, FS_Subset
  <1>2. W!Cardinality(X) \in Nat
    BY <1>1, FS_CardinalityType, SameCardinality
  <1>3. \A i : IsFiniteSet({j \in X : j <= i}) /\ UpTo(X, i) \in Nat
    <2>1. ASSUME NEW i PROVE IsFiniteSet({j \in X : j <= i}) /\ UpTo(X, i) \in Nat
      <3>1. PICK low : low = {j \in X : j <= i}
        OBVIOUS
      <3>2. IsFiniteSet(low)
        BY <1>1, <3>1, FS_Subset
      <3>3. W!Cardinality(low) \in Nat
        BY <3>2, FS_CardinalityType, SameCardinality
      <3>4. QED
        BY <3>1, <3>2, <3>3 DEF UpTo
    <2>2. QED
      BY <2>1
  <1>4. ASSUME NEW k \in 1 .. W!Cardinality(X) PROVE Nth(X, k) \in X
    <2>1. PICK good : good = {i \in Nat : k <= UpTo(X, i)}
      OBVIOUS
    <2>2. n \in good
      <3>1. {j \in X : j <= n} = X
        BY <1>0
      <3>2. UpTo(X, n) = W!Cardinality(X)
        BY <3>1 DEF UpTo
      <3>3. QED
        BY <1>2, <2>1, <3>2
    <2>3. PICK i \in good : \A m \in good : i <= m
      <3>1. good \in SUBSET Nat /\ good # {}
        BY <2>1, <2>2
      <3>2. QED
        BY <3>1, LeastNatural
    <2>4. i \in Nat /\ k <= UpTo(X, i)
      BY <2>1, <2>3
    <2>5. i # 0
      <3>0. \A j \in X : ~(j <= 0)
        BY <1>0
      <3>1. {j \in X : j <= 0} = {}
        BY <3>0, Zenon
      <3>2. UpTo(X, 0) = 0
        BY <3>1, FS_EmptySet, SameCardinality DEF UpTo
      <3>3. QED
        BY <1>2, <2>4, <3>2
    <2>6. PICK u, v \in Nat : u = UpTo(X, i) /\ v = UpTo(X, i - 1)
      BY <1>3
    <2>7. v < k /\ k <= u /\ k \in Nat
      <3>1. i - 1 \in Nat /\ ~(i <= i - 1)
        BY <2>4, <2>5
      <3>2. i - 1 \notin good
        BY <2>3, <3>1
      <3>3. ~(k <= v)
        BY <2>1, <2>6, <3>1, <3>2
      <3>4. k \in Nat
        BY <1>2
      <3>5. QED
        BY <2>4, <2>6, <3>3, <3>4
    <2>8. PICK low : low = {j \in X : j <= i - 1}
      OBVIOUS
    <2>9. IsFiniteSet(low) /\ Cardinality(low) = v
      BY <1>3, <2>6, <2>8, SameCardinality DEF UpTo
    <2>10. i \in X
      <3>1. ASSUME i \notin X PROVE FALSE
        <4>1. \A j \in X : j <= i <=> j <= i - 1
          <5>1. ASSUME NEW j \in X PROVE j <= i <=> j <= i - 1
            <6>1. j \in Nat /\ j # i
              BY <1>0, <3>1
            <6>2. QED
              BY <2>4, <6>1
          <5>2. QED
            BY <5>1
        <4>2. {j \in X : j <= i} = low
          BY <2>8, <4>1
        <4>3. u = v
          BY <2>6, <2>9, <4>2, SameCardinality DEF UpTo
        <4>4. QED
          BY <2>7, <4>3
      <3>2. QED
        BY <3>1
    <2>11. u = v + 1
      <3>1. \A j \in X : j <= i <=> (j <= i - 1 \/ j = i)
        <4>1. ASSUME NEW j \in X PROVE j <= i <=> (j <= i - 1 \/ j = i)
          BY <1>0, <2>4
        <4>2. QED
          BY <4>1
      <3>2. {j \in X : j <= i} = low \cup {i}
        BY <2>4, <2>8, <2>10, <3>1
      <3>3. i \notin low
        BY <2>4, <2>8
      <3>4. Cardinality(low \cup {i}) = v + 1
        BY <2>9, <3>3, FS_AddElement
      <3>5. u = Cardinality(low \cup {i})
        BY <2>6, <3>2, SameCardinality DEF UpTo
      <3>6. QED
        BY <3>4, <3>5
    <2>12. UpTo(X, i) = k
      BY <2>6, <2>7, <2>11
    <2>13. QED
      BY <2>10, <2>12, Zenon DEF Nth
  <1>5. QED
    BY <1>1, <1>2, <1>4

LEMMA VisibleRows ==
    ASSUME RowsKnown, NEW role
    PROVE  /\ W!Visible(role) \in Seq(Nat)
           /\ \A k \in 1 .. Len(W!Visible(role)) : W!Visible(role)[k] \in 1 .. Len(rows)
  <1>1. Len(rows) \in Nat /\ DOMAIN rows = 1 .. Len(rows)
    BY DEF RowsKnown
  <1>2. PICK X : X = Seen(role)
    OBVIOUS
  <1>3. X \in SUBSET (1 .. Len(rows))
    BY <1>1, <1>2 DEF Seen
  <1>4. W!Cardinality(X) \in Nat /\ \A k \in 1 .. W!Cardinality(X) : Nth(X, k) \in X
    BY <1>1, <1>3, Ranked
  <1>5. PICK n \in Nat : n = W!Cardinality(X)
    BY <1>4
  <1>6. W!Visible(role) = [k \in 1 .. n |-> Nth(X, k)]
    BY <1>2, <1>5, VisibleIs
  <1>7. \A k \in 1 .. n : Nth(X, k) \in 1 .. Len(rows)
    BY <1>3, <1>4, <1>5
  <1>8. W!Visible(role) \in Seq(1 .. Len(rows)) /\ Len(W!Visible(role)) = n
    BY <1>6, <1>7
  <1>9. QED
    BY <1>1, <1>6, <1>7, <1>8

(* What a role may see grows at the end as rows are added.                 *)
LEMMA VisibleGrows ==
    ASSUME RowsKnown, NEW row, rows' = Append(rows, row), NEW role
    PROVE  /\ Len(W!Visible(role)) \in Nat /\ Len(W!Visible(role)') \in Nat
           /\ Len(W!Visible(role)) <= Len(W!Visible(role)')
           /\ \A k \in 1 .. Len(W!Visible(role)) : W!Visible(role)'[k] = W!Visible(role)[k]
  <1>1. PICK n \in Nat : n = Len(rows) /\ DOMAIN rows = 1 .. n
    BY DEF RowsKnown
  <1>2. DOMAIN rows' = 1 .. n + 1 /\ \A i \in 1 .. n : rows'[i] = rows[i]
    BY <1>1 DEF RowsKnown
  <1>3. PICK X, Y : X = Seen(role) /\ Y = Seen(role)'
    OBVIOUS
  <1>4. X \in SUBSET (1 .. n) /\ Y \in SUBSET (1 .. n + 1) /\ (Y = X \/ Y = X \cup {n + 1})
    BY <1>1, <1>2, <1>3 DEF Seen
  <1>5. PICK c, d : c = W!Cardinality(X) /\ d = W!Cardinality(Y)
    OBVIOUS
  <1>6. /\ c \in Nat /\ IsFiniteSet(X) /\ d \in Nat
        /\ \A i \in X : i \in Nat /\ i <= n
    <2>1. c \in Nat /\ IsFiniteSet(X)
      BY <1>4, <1>5, Ranked
    <2>2. d \in Nat
      <3>1. n + 1 \in Nat
        OBVIOUS
      <3>2. QED
        BY <1>4, <1>5, <3>1, Ranked
    <2>3. QED
      BY <1>4, <2>1, <2>2
  <1>7. W!Visible(role) = [k \in 1 .. c |-> Nth(X, k)]
    BY <1>3, <1>5, VisibleIs
  <1>8. W!Visible(role)' = [k \in 1 .. d |-> Nth(Y, k)]
    <2>1. W!Visible(role)' = [k \in 1 .. W!Cardinality(Seen(role)') |-> Nth(Seen(role)', k)]
      BY DEF W!Visible, Seen, Nth, UpTo
    <2>2. QED
      BY <1>3, <1>5, <2>1
  <1>9. CASE Y = X
    BY <1>5, <1>6, <1>7, <1>8, <1>9
  <1>10. CASE Y # X
    <2>1. Y = X \cup {n + 1} /\ n + 1 \notin X
      BY <1>4, <1>10
    <2>2. Cardinality(Y) = Cardinality(X) + 1
      BY <1>6, <2>1, FS_AddElement
    <2>3. d = c + 1
      BY <1>5, <2>2, SameCardinality
    <2>4. \A i \in X : UpTo(Y, i) = UpTo(X, i)
      <3>1. ASSUME NEW i \in X PROVE {j \in Y : j <= i} = {j \in X : j <= i}
        BY <1>4, <2>1
      <3>2. QED
        BY <3>1 DEF UpTo
    <2>5. UpTo(Y, n + 1) = c + 1
      <3>1. \A j \in Y : j <= n + 1
        BY <1>6, <2>1
      <3>2. {j \in Y : j <= n + 1} = Y
        BY <3>1
      <3>3. QED
        BY <1>5, <2>3, <3>2 DEF UpTo
    <2>6. ASSUME NEW k \in 1 .. c PROVE Nth(Y, k) = Nth(X, k)
      <3>0. c + 1 # k
        BY <1>6
      <3>1. \A i : (i \in Y /\ UpTo(Y, i) = k) <=> (i \in X /\ UpTo(X, i) = k)
        BY <2>1, <2>4, <2>5, <3>0
      <3>2. (CHOOSE i : i \in Y /\ UpTo(Y, i) = k) = (CHOOSE i : i \in X /\ UpTo(X, i) = k)
        BY <3>1
      <3>3. QED
        BY <3>2 DEF Nth
    <2>7. QED
      BY <1>6, <1>7, <1>8, <2>3, <2>6
  <1>11. QED
    BY <1>9, <1>10

(* The workbench: the tab.  Unless an operation beside it unlocked the     *)
(* controls, one operation on the rows held runs at a time, and while one  *)
(* asks for more, the rows it continues stay as they are.                  *)

Operations == {"evidence", "more", "upload", "other", "reset"}
Entries == {"session", "login", "logout"}
People == [role : {"manager", "supplier", "none"}, n : Nat]
AnswerKinds == [status : {"none", "ok", "401", "unreachable"}, ids : Seq(Nat), more : BOOLEAN, total : Nat]
RequestKinds == [op : Operations \cup Entries, by : People, offset : Nat, answer : AnswerKinds]

TabTyped ==
    /\ RowsKnown /\ flight \in SUBSET RequestKinds /\ token \in People /\ minted \in Nat
    /\ evidence \in Seq([id : Nat, by : People, current : BOOLEAN])
    /\ evidenceMore \in BOOLEAN /\ outOf \in [by : People, total : Nat]
    /\ others \in BOOLEAN /\ overtaken \in BOOLEAN /\ signedOut \in BOOLEAN /\ unlocked \in BOOLEAN

OneRuns ==
    ~unlocked =>
        /\ \A r, q \in flight : r.op \in W!Locking /\ q.op \in W!Locking => r = q
        /\ \A r \in flight : r.op \in W!Locking => busy

(* The answer to a request for rows is a page of what the role may see.    *)
PageOf(a, view, offset) ==
    /\ a.total \in Nat /\ a.total <= Len(view)
    /\ Len(a.ids) = IF a.total <= offset THEN 0 ELSE IF a.total <= offset + PageSize THEN a.total - offset ELSE PageSize
    /\ \A i \in 1 .. Len(a.ids) : a.ids[i] = view[offset + i]
    /\ a.more = (offset + PageSize < a.total)

(* All rows held were loaded under one credential, the one that counted.   *)
Alone(held, count) == \A i \in 1 .. Len(held) : held[i].by = count.by
Continues(r, held, more, count) ==
    /\ r.offset = Len(held) /\ Len(held) > 0 /\ more
    /\ Alone(held, count) /\ count.by = r.by /\ r.answer.status = "ok" => r.offset <= r.answer.total
RequestSound(r, held, more, count) ==
    /\ r.op \in {"evidence", "more"} /\ r.answer.status = "ok" => PageOf(r.answer, W!Visible(r.by.role), r.offset)
    /\ r.op = "evidence" => r.offset = 0
    /\ r.op = "more" => Continues(r, held, more, count)
Answers == \A r \in flight : RequestSound(r, evidence, evidenceMore, outOf)

HeldSound(held, more, count) ==
    /\ \A i \in 1 .. Len(held) : held[i].id \in 1 .. Len(rows) /\ held[i].current = W!Newest(held, i)
    /\ Alone(held, count) =>
          /\ Len(held) <= count.total /\ count.total <= Len(W!Visible(count.by.role))
          /\ more = (Len(held) < count.total)
          /\ \A i \in 1 .. Len(held) : held[i].id = W!Visible(count.by.role)[i]
    /\ Len(held) > 0 /\ more => held[Len(held)].by = count.by
Gone == signedOut => flight = {} /\ identity = W!Nobody /\ token = W!Nobody /\ evidence = <<>> /\ ~others

TabInv ==
    /\ TabTyped /\ OneRuns /\ (~overtaken => Gone)
    /\ ~overtaken /\ ~unlocked => HeldSound(evidence, evidenceMore, outOf) /\ Answers

LEMMA NobodyIsSomeone == W!Nobody \in People /\ W!NoCount \in [by : People, total : Nat] /\ W!NoAnswer \in AnswerKinds
  BY DEF W!Nobody, W!NoCount, W!NoAnswer, People, AnswerKinds

LEMMA PagesLast ==
    ASSUME NEW a \in AnswerKinds, NEW offset \in Nat, NEW view, NEW next, PageOf(a, view, offset),
           Len(view) \in Nat, Len(next) \in Nat, Len(view) <= Len(next),
           \A k \in 1 .. Len(view) : next[k] = view[k]
    PROVE  PageOf(a, next, offset)
  <1>1. PICK total, n \in Nat : total = a.total /\ n = Len(a.ids)
    BY DEF AnswerKinds
  <1>2. PageSize \in Nat \ {0}
    BY DeploymentAssumption DEF W!WorkbenchAssumption
  <1>3. \A i \in 1 .. n : offset + i \in 1 .. Len(view)
    <2>1. n = IF total <= offset THEN 0 ELSE IF total <= offset + PageSize THEN total - offset ELSE PageSize
      BY <1>1 DEF PageOf
    <2>2. total <= Len(view)
      BY <1>1 DEF PageOf
    <2>3. QED
      BY <1>1, <1>2, <2>1, <2>2
  <1>4. total <= Len(next) /\ \A i \in 1 .. n : a.ids[i] = next[offset + i]
    BY <1>1, <1>3 DEF PageOf
  <1>5. QED
    BY <1>1, <1>4 DEF PageOf

(* Nothing that is held or answered depends on rows that are added.        *)
LEMMA RowsGrow ==
    ASSUME RowsKnown, NEW row \in [own : BOOLEAN, requirement : Nat, version : Nat], rows' = Append(rows, row)
    PROVE  /\ RowsKnown'
           /\ \A held, more, count : /\ held \in Seq([id : Nat, by : People, current : BOOLEAN])
                                     /\ count.total \in Nat /\ HeldSound(held, more, count)
                                     => HeldSound(held, more, count)'
           /\ \A r, held, more, count : r \in RequestKinds /\ RequestSound(r, held, more, count)
                                        => RequestSound(r, held, more, count)'
  <1>1. RowsKnown'
    BY DEF RowsKnown
  <1>2. Len(rows) \in Nat /\ Len(rows') = Len(rows) + 1 /\ \A i \in 1 .. Len(rows) : rows'[i] = rows[i]
    BY DEF RowsKnown
  <1>3. \A role : /\ Len(W!Visible(role)) \in Nat /\ Len(W!Visible(role)') \in Nat
                  /\ Len(W!Visible(role)) <= Len(W!Visible(role)')
                  /\ \A k \in 1 .. Len(W!Visible(role)) : W!Visible(role)'[k] = W!Visible(role)[k]
    BY VisibleGrows
  <1>4. ASSUME NEW held \in Seq([id : Nat, by : People, current : BOOLEAN]), NEW more, NEW count,
               count.total \in Nat, HeldSound(held, more, count)
        PROVE  HeldSound(held, more, count)'
    <2>1. PICK n \in Nat : n = Len(held)
      OBVIOUS
    <2>2. \A i \in 1 .. n : held[i].id \in 1 .. Len(rows) /\ held[i].current = W!Newest(held, i)
      BY <1>4, <2>1 DEF HeldSound
    <2>3. \A i \in 1 .. n : rows'[held[i].id] = rows[held[i].id] /\ held[i].id \in 1 .. Len(rows')
      BY <1>2, <2>2
    <2>4. ASSUME NEW i \in 1 .. n PROVE W!Newest(held, i)' <=> W!Newest(held, i)
      BY <2>1, <2>3 DEF W!Newest
    <2>5. \A i \in 1 .. n : held[i].current = W!Newest(held, i)'
      BY <2>2, <2>4 DEF W!Newest
    <2>6. PICK view, next : view = W!Visible(count.by.role) /\ next = W!Visible(count.by.role)'
      OBVIOUS
    <2>7. /\ Len(view) \in Nat /\ Len(next) \in Nat /\ Len(view) <= Len(next)
          /\ \A k \in 1 .. Len(view) : next[k] = view[k]
      BY <1>3, <2>6
    <2>8. Alone(held, count) =>
             /\ n <= count.total /\ count.total <= Len(view) /\ more = (n < count.total)
             /\ \A i \in 1 .. n : held[i].id = view[i]
      BY <1>4, <2>1, <2>6 DEF HeldSound
    <2>9. Alone(held, count) =>
             /\ n <= count.total /\ count.total <= Len(next) /\ more = (n < count.total)
             /\ \A i \in 1 .. n : held[i].id = next[i]
      BY <1>4, <2>7, <2>8
    <2>10. n > 0 /\ more => held[n].by = count.by
      BY <1>4, <2>1 DEF HeldSound
    <2>11. QED
      BY <2>1, <2>3, <2>5, <2>6, <2>9, <2>10 DEF HeldSound
  <1>5. ASSUME NEW r \in RequestKinds, NEW held, NEW more, NEW count, RequestSound(r, held, more, count)
        PROVE  RequestSound(r, held, more, count)'
    <2>1. PICK view, next : view = W!Visible(r.by.role) /\ next = W!Visible(r.by.role)'
      OBVIOUS
    <2>2. /\ Len(view) \in Nat /\ Len(next) \in Nat /\ Len(view) <= Len(next)
          /\ \A k \in 1 .. Len(view) : next[k] = view[k]
      BY <1>3, <2>1
    <2>3. ASSUME PageOf(r.answer, view, r.offset) PROVE PageOf(r.answer, next, r.offset)
      <3>1. r.answer \in AnswerKinds /\ r.offset \in Nat
        BY DEF RequestKinds
      <3>2. QED
        BY <2>2, <2>3, <3>1, PagesLast
    <2>4. QED
      BY <1>5, <2>1, <2>3 DEF RequestSound
  <1>6. QED
    BY <1>1, <1>4, <1>5

(* What is true of the tab while the screen stands still: the requests     *)
(* under way are some of those there were and new ones that are sound.     *)
LEMMA ScreenStands ==
    ASSUME TabInv, RowsKnown', token' \in People, minted' \in Nat, flight' \in SUBSET RequestKinds,
           UNCHANGED <<evidence, evidenceMore, outOf>>, others' \in BOOLEAN, signedOut' \in BOOLEAN,
           overtaken' = overtaken, unlocked' \in BOOLEAN, unlocked => unlocked', OneRuns',
           \/ UNCHANGED rows
           \/ \E row \in [own : BOOLEAN, requirement : Nat, version : Nat] : rows' = Append(rows, row),
           ~overtaken => Gone',
           ~overtaken /\ ~unlocked => \A r \in flight' \ flight : RequestSound(r, evidence, evidenceMore, outOf)'
    PROVE  TabInv'
  <1>1. PICK held, more, count : held = evidence /\ more = evidenceMore /\ count = outOf
    OBVIOUS
  <1>2. held = evidence' /\ more = evidenceMore' /\ count = outOf'
    BY <1>1
  <1>3. TabTyped'
    BY DEF TabInv, TabTyped
  <1>4. held \in Seq([id : Nat, by : People, current : BOOLEAN]) /\ count.total \in Nat
    BY <1>1 DEF TabInv, TabTyped
  <1>5. /\ HeldSound(held, more, count) => HeldSound(held, more, count)'
        /\ \A r \in RequestKinds : RequestSound(r, held, more, count) => RequestSound(r, held, more, count)'
    <2>1. CASE UNCHANGED rows
      <3>1. \A role : W!Visible(role)' = W!Visible(role)
        BY <2>1 DEF W!Visible
      <3>2. \A i : W!Newest(held, i)' = W!Newest(held, i)
        BY <2>1 DEF W!Newest
      <3>3. HeldSound(held, more, count) => HeldSound(held, more, count)'
        BY <2>1, <3>1, <3>2 DEF HeldSound
      <3>4. \A r : RequestSound(r, held, more, count) => RequestSound(r, held, more, count)'
        BY <3>1 DEF RequestSound
      <3>5. QED
        BY <3>3, <3>4
    <2>2. CASE ~UNCHANGED rows
      <3>1. PICK row \in [own : BOOLEAN, requirement : Nat, version : Nat] : rows' = Append(rows, row)
        BY <2>2
      <3>2. RowsKnown
        BY DEF TabInv, TabTyped
      <3>3. QED
        BY <1>4, <3>1, <3>2, RowsGrow
    <2>3. QED
      BY <2>1, <2>2
  <1>6. ASSUME ~overtaken, ~unlocked PROVE HeldSound(evidence, evidenceMore, outOf)' /\ Answers'
    <2>1. HeldSound(held, more, count) /\ \A r \in flight : RequestSound(r, held, more, count)
      BY <1>1, <1>6 DEF TabInv, Answers
    <2>2. HeldSound(held, more, count)'
      BY <1>5, <2>1
    <2>3. ASSUME NEW r \in flight' PROVE RequestSound(r, held, more, count)'
      <3>1. CASE r \in flight
        <4>1. r \in RequestKinds
          BY <3>1 DEF TabInv, TabTyped
        <4>2. QED
          BY <1>5, <2>1, <3>1, <4>1
      <3>2. CASE r \notin flight
        BY <1>2, <1>6, <3>2
      <3>3. QED
        BY <3>1, <3>2
    <2>4. QED
      BY <1>2, <2>2, <2>3 DEF Answers
  <1>7. QED
    BY <1>3, <1>6 DEF TabInv

LEMMA NewRequest ==
    ASSUME NEW op \in Operations \cup Entries, NEW by \in People, NEW offset \in Nat
    PROVE  /\ W!Request(op, by, offset) \in RequestKinds
           /\ W!Request(op, by, offset).op = op /\ W!Request(op, by, offset).by = by
           /\ W!Request(op, by, offset).offset = offset /\ W!Request(op, by, offset).answer = W!NoAnswer
           /\ W!Request(op, by, offset).answer.status = "none"
  <1>1. W!NoAnswer \in AnswerKinds /\ W!NoAnswer.status = "none"
    BY NobodyIsSomeone DEF W!NoAnswer
  <1>2. QED
    BY <1>1 DEF W!Request, RequestKinds

LEMMA OperationStarts ==
    ASSUME TabInv, NEW op \in Operations, NEW offset \in Nat, W!Starts(op, offset),
           op \in W!Locking => ~busy, ~overtaken => ~signedOut,
           op = "evidence" => offset = 0,
           op = "more" => offset = Len(evidence) /\ Len(evidence) > 0 /\ evidenceMore
    PROVE  TabInv'
  <1>1. PICK q : q = W!Request(op, token, offset)
    OBVIOUS
  <1>2. /\ busy' = TRUE /\ flight' = flight \cup {q}
        /\ UNCHANGED <<rows, token, minted, identity, signedOut, overtaken, unlocked>>
        /\ UNCHANGED <<evidence, evidenceMore, outOf, others>>
    BY <1>1 DEF W!Starts, W!Sent, W!Unchanged, W!Screen
  <1>3. /\ TabTyped /\ OneRuns
    BY DEF TabInv
  <1>4. q \in RequestKinds /\ q.op = op /\ q.offset = offset /\ q.answer.status = "none"
    BY <1>1, <1>3, NewRequest DEF TabTyped
  <1>5. /\ RowsKnown' /\ token' \in People /\ minted' \in Nat /\ flight' \in SUBSET RequestKinds
        /\ others' \in BOOLEAN /\ signedOut' \in BOOLEAN /\ unlocked' \in BOOLEAN
    BY <1>2, <1>3, <1>4 DEF TabTyped, RowsKnown
  <1>6. OneRuns'
    BY <1>2, <1>3, <1>4 DEF OneRuns
  <1>7. RequestSound(q, evidence, evidenceMore, outOf)'
    BY <1>2, <1>4 DEF RequestSound, Continues
  <1>8. ~overtaken => Gone'
    BY <1>2 DEF Gone
  <1>9. \A r \in flight' \ flight : r = q
    BY <1>2
  <1>10. QED
    BY <1>2, <1>5, <1>6, <1>7, <1>8, <1>9, ScreenStands

LEMMA OperationsStart ==
    ASSUME TabInv,
           \/ W!LoadEvidence \/ W!LoadMoreEvidence \/ W!SubmitEvidence \/ W!LoadOther \/ W!LoadCatalogResource
           \/ W!ResetEnvironment
    PROVE  TabInv'
  <1>1. ~overtaken /\ signedOut => identity = W!Nobody /\ ~others /\ evidence = <<>>
    BY DEF TabInv, Gone
  <1>2. ASSUME NEW op, NEW offset, W!Act(op, offset)
        PROVE  ~busy /\ (~overtaken => ~signedOut) /\ W!Starts(op, offset)
    BY <1>1, <1>2 DEF W!Act, W!Locked, TabInv, TabTyped
  <1>3. ASSUME NEW op \in {"evidence", "upload", "other", "reset"}, W!Act(op, 0) PROVE TabInv'
    BY <1>2, <1>3, OperationStarts DEF Operations
  <1>4. CASE W!LoadMoreEvidence
    <2>1. evidence # <<>> /\ evidenceMore /\ ~busy /\ W!Starts("more", Len(evidence))
      BY <1>4 DEF W!LoadMoreEvidence, W!PagePath
    <2>2. Len(evidence) \in Nat /\ Len(evidence) > 0
      BY <2>1 DEF TabInv, TabTyped
    <2>3. QED
      BY <1>1, <2>1, <2>2, OperationStarts DEF Operations
  <1>5. CASE W!LoadCatalogResource
    <2>1. others /\ W!Starts("other", 0)
      BY <1>5 DEF W!LoadCatalogResource
    <2>2. "other" \in Operations /\ "other" \notin W!Locking
      BY DEF Operations, W!Locking
    <2>3. QED
      BY <1>1, <2>1, <2>2, OperationStarts
  <1>6. QED
    BY <1>3, <1>4, <1>5 DEF W!LoadEvidence, W!SubmitEvidence, W!LoadOther, W!ResetEnvironment

(* Signing in and out, and what others do.                                 *)
LEMMA EntriesStart ==
    ASSUME TabInv, W!EditToken \/ W!SignIn \/ W!SignInWithPassword \/ W!SignOut
    PROVE  TabInv'
  <1>1. TabTyped /\ OneRuns /\ (~overtaken => Gone) /\ unlocked \in BOOLEAN
    BY DEF TabInv, TabTyped
  <1>2. ASSUME NEW op \in Entries, NEW by \in People, W!Sent(W!Request(op, by, 0)),
               UNCHANGED <<rows, busy, token, overtaken, unlocked, evidence, evidenceMore, outOf, others>>,
               minted' \in Nat, signedOut' \in BOOLEAN, ~overtaken => ~signedOut'
        PROVE  TabInv'
    <2>1. PICK q : q = W!Request(op, by, 0)
      OBVIOUS
    <2>2. flight' = flight \cup {q} /\ q \in RequestKinds /\ q.op = op
      BY <1>2, <2>1, NewRequest DEF W!Sent
    <2>3. RowsKnown' /\ token' \in People /\ minted' \in Nat /\ flight' \in SUBSET RequestKinds /\ others' \in BOOLEAN
      BY <1>1, <1>2, <2>2 DEF TabTyped, RowsKnown
    <2>4. q.op \notin W!Locking
      BY <2>2 DEF Entries, W!Locking
    <2>5. OneRuns'
      BY <1>1, <1>2, <2>2, <2>4 DEF OneRuns
    <2>6. \A r \in flight' \ flight : RequestSound(r, evidence, evidenceMore, outOf)'
      BY <2>2, <2>4 DEF RequestSound, W!Locking
    <2>7. ~overtaken => Gone'
      BY <1>2 DEF Gone
    <2>8. QED
      BY <1>1, <1>2, <2>3, <2>5, <2>6, <2>7, ScreenStands
  <1>3. CASE W!EditToken
    <2>1. /\ UNCHANGED <<rows, minted, busy, flight, overtaken, unlocked, evidence, evidenceMore, outOf, others>>
          /\ signedOut' = FALSE /\ token' \in W!Static \cup {W!Nobody}
      BY <1>3 DEF W!EditToken, W!Unchanged, W!Screen
    <2>2. token' \in People
      BY <2>1, NobodyIsSomeone, DeploymentAssumption DEF W!Static, People, W!WorkbenchAssumption
    <2>3. RowsKnown' /\ minted' \in Nat /\ flight' \in SUBSET RequestKinds /\ others' \in BOOLEAN /\ OneRuns'
      BY <1>1, <2>1 DEF TabTyped, RowsKnown, OneRuns
    <2>4. ~overtaken => Gone'
      BY <2>1 DEF Gone
    <2>5. QED
      BY <1>1, <2>1, <2>2, <2>3, <2>4, ScreenStands
  <1>4. CASE W!SignIn
    <2>1. /\ token # W!Nobody /\ W!Sent(W!Request("session", token, 0))
          /\ UNCHANGED <<rows, minted, busy, token, signedOut, overtaken, unlocked, evidence, evidenceMore, outOf, others>>
      BY <1>4 DEF W!SignIn, W!Unchanged, W!Screen
    <2>2. ~overtaken => ~signedOut
      BY <1>1, <2>1 DEF Gone
    <2>3. QED
      BY <1>1, <1>2, <2>1, <2>2 DEF TabTyped, Entries
  <1>5. CASE W!SignInWithPassword
    <2>1. PICK role \in Accounts : W!Sent(W!Request("login", [role |-> role, n |-> minted'], 0))
      BY <1>5 DEF W!SignInWithPassword
    <2>2. /\ UNCHANGED <<rows, busy, token, overtaken, unlocked, evidence, evidenceMore, outOf, others>>
          /\ signedOut' = FALSE /\ minted' = minted + 1
      BY <1>5 DEF W!SignInWithPassword, W!Screen
    <2>3. [role |-> role, n |-> minted'] \in People
      BY <1>1, <2>2, DeploymentAssumption DEF TabTyped, People, W!WorkbenchAssumption
    <2>4. minted' \in Nat
      BY <1>1, <2>2 DEF TabTyped
    <2>5. QED
      BY <1>2, <2>1, <2>2, <2>3, <2>4 DEF Entries
  <1>6. CASE W!SignOut
    <2>1. /\ identity # W!Nobody /\ W!Sent(W!Request("logout", token, 0))
          /\ UNCHANGED <<rows, minted, busy, token, signedOut, overtaken, unlocked, evidence, evidenceMore, outOf, others>>
      BY <1>6 DEF W!SignOut, W!Locked, W!Unchanged, W!Screen
    <2>2. ~overtaken => ~signedOut
      BY <1>1, <2>1 DEF Gone
    <2>3. QED
      BY <1>1, <1>2, <2>1, <2>2 DEF TabTyped, Entries
  <1>7. QED
    BY <1>3, <1>4, <1>5, <1>6

LEMMA OthersAct ==
    ASSUME TabInv, W!Arrives \/ W!Expires
    PROVE  TabInv'
  <1>1. TabTyped /\ OneRuns /\ (~overtaken => Gone)
    BY DEF TabInv
  <1>2. /\ UNCHANGED <<minted, token, identity, busy, flight, signedOut, overtaken, unlocked>>
        /\ UNCHANGED <<evidence, evidenceMore, outOf, others>>
    BY DEF W!Arrives, W!Expires, W!Screen
  <1>3. /\ RowsKnown'
        /\ \/ UNCHANGED rows
           \/ \E row \in [own : BOOLEAN, requirement : Nat, version : Nat] : rows' = Append(rows, row)
    <2>1. CASE W!Expires
      BY <1>1, <2>1 DEF W!Expires, TabTyped, RowsKnown
    <2>2. CASE W!Arrives
      <3>1. PICK own \in BOOLEAN : rows' = Append(rows, [own |-> own, requirement |-> 1, version |-> Len(rows) + 1])
        BY <2>2 DEF W!Arrives
      <3>2. [own |-> own, requirement |-> 1, version |-> Len(rows) + 1] \in [own : BOOLEAN, requirement : Nat, version : Nat]
        BY <1>1 DEF TabTyped, RowsKnown
      <3>3. RowsKnown'
        BY <1>1, <3>1, <3>2 DEF TabTyped, RowsKnown
      <3>4. QED
        BY <3>1, <3>2, <3>3
    <2>3. QED
      BY <2>1, <2>2
  <1>4. /\ flight' \in SUBSET RequestKinds /\ token' \in People /\ minted' \in Nat
        /\ others' \in BOOLEAN /\ signedOut' \in BOOLEAN /\ unlocked' \in BOOLEAN
    BY <1>1, <1>2 DEF TabTyped
  <1>5. OneRuns' /\ (~overtaken => Gone')
    BY <1>1, <1>2 DEF OneRuns, Gone
  <1>6. flight' \ flight = {}
    BY <1>2
  <1>7. QED
    BY <1>2, <1>3, <1>4, <1>5, <1>6, ScreenStands

(* The server answers.                                                     *)
LEMMA PageGiven ==
    ASSUME NEW view \in Seq(Nat), NEW offset \in Nat, NEW a,
           a = [status |-> "ok", ids |-> W!Page(view, offset), more |-> Len(view) > offset + PageSize,
                total |-> Len(view)]
    PROVE  a \in AnswerKinds /\ PageOf(a, view, offset)
  <1>1. PageSize \in Nat \ {0}
    BY DeploymentAssumption DEF W!WorkbenchAssumption
  <1>2. PICK n \in Nat : n = Len(view)
    OBVIOUS
  <1>3. PICK end \in Nat : end = IF offset + PageSize < n THEN offset + PageSize ELSE n
    BY <1>1
  <1>4. W!Page(view, offset) = [i \in 1 .. end - offset |-> view[offset + i]]
    <2>1. W!Page(view, offset) = SubSeq(view, offset + 1, end)
      BY <1>2, <1>3 DEF W!Page
    <2>2. SubSeq(view, offset + 1, end) = [i \in 1 .. (1 + end) - (offset + 1) |-> view[(i + (offset + 1)) - 1]]
      OBVIOUS
    <2>3. (1 + end) - (offset + 1) = end - offset
      OBVIOUS
    <2>4. \A i \in 1 .. end - offset : (i + (offset + 1)) - 1 = offset + i
      OBVIOUS
    <2>5. QED
      BY <2>1, <2>2, <2>3, <2>4
  <1>5. \A i \in 1 .. end - offset : offset + i \in 1 .. n
    BY <1>1, <1>2, <1>3
  <1>6. PICK ids : ids = W!Page(view, offset)
    OBVIOUS
  <1>7. ids \in Seq(Nat) /\ Len(ids) = (IF end <= offset THEN 0 ELSE end - offset)
        /\ \A i \in 1 .. Len(ids) : ids[i] = view[offset + i]
    <2>1. CASE end <= offset
      <3>1. 1 .. end - offset = {}
        BY <2>1
      <3>2. ids = [i \in {} |-> view[offset + i]]
        BY <1>4, <1>6, <3>1
      <3>3. ids \in [{} -> Nat]
        BY <3>2
      <3>4. ids = <<>>
        BY <3>3
      <3>5. QED
        BY <2>1, <3>4
    <2>2. CASE ~(end <= offset)
      <3>1. end - offset \in Nat
        BY <2>2
      <3>2. ASSUME NEW i \in 1 .. end - offset PROVE view[offset + i] \in Nat
        <4>1. offset + i \in 1 .. Len(view)
          BY <1>2, <1>5
        <4>2. QED
          BY <4>1
      <3>3. ids \in Seq(Nat) /\ Len(ids) = end - offset /\ \A i \in 1 .. end - offset : ids[i] = view[offset + i]
        BY <1>4, <1>6, <3>1, <3>2
      <3>4. QED
        BY <2>2, <3>3
    <2>3. QED
      BY <2>1, <2>2
  <1>8. a = [status |-> "ok", ids |-> ids, more |-> n > offset + PageSize, total |-> n]
    BY <1>2, <1>6
  <1>9. a \in AnswerKinds
    BY <1>7, <1>8 DEF AnswerKinds
  <1>10. Len(ids) = IF n <= offset THEN 0 ELSE IF n <= offset + PageSize THEN n - offset ELSE PageSize
    BY <1>1, <1>3, <1>7
  <1>11. a.more = (offset + PageSize < n)
    BY <1>1, <1>8
  <1>12. QED
    BY <1>2, <1>7, <1>8, <1>9, <1>10, <1>11 DEF PageOf

LEMMA AnswerGiven ==
    ASSUME TabInv, NEW r \in flight, W!Answer(r)
    PROVE  TabInv'
  <1>1. TabTyped /\ OneRuns /\ RowsKnown
    BY DEF TabInv, TabTyped
  <1>2. r \in RequestKinds /\ r.offset \in Nat
    BY <1>1 DEF TabTyped, RequestKinds
  <1>3. PICK view \in Seq(Nat) : view = W!Visible(r.by.role)
    BY <1>1, VisibleRows
  <1>4. UNCHANGED <<minted, token, identity, busy, signedOut, overtaken, unlocked, evidence, evidenceMore, outOf, others>>
    BY DEF W!Answer, W!Screen
  <1>5. \A a \in {[W!NoAnswer EXCEPT !.status = "401"], [W!NoAnswer EXCEPT !.status = "ok"],
                  [W!NoAnswer EXCEPT !.status = "unreachable"]} : a \in AnswerKinds
    BY NobodyIsSomeone DEF AnswerKinds
  <1>6. PICK p : p = [status |-> "ok", ids |-> W!Page(view, r.offset), more |-> Len(view) > r.offset + PageSize,
                      total |-> Len(view)]
    OBVIOUS
  <1>7. p \in AnswerKinds /\ PageOf(p, view, r.offset) /\ p.total = Len(view)
    BY <1>2, <1>6, PageGiven
  <1>8. PICK refused \in BOOLEAN : refused = (~W!Honoured(r.by) /\ r.op # "login")
    OBVIOUS
  <1>9. PICK a \in AnswerKinds :
           /\ flight' = (flight \ {r}) \cup {[r EXCEPT !.answer = a]}
           /\ r.op \in {"evidence", "more"} /\ a.status = "ok" => a = p
           /\ \/ UNCHANGED rows
              \/ r.op = "upload" /\ rows' = Append(rows, [own |-> r.by.role = "supplier", requirement |-> 1,
                                                          version |-> Len(rows) + 1])
    <2>1. CASE /\ flight' = (flight \ {r}) \cup {[r EXCEPT !.answer = [W!NoAnswer EXCEPT !.status = "unreachable"]]}
               /\ UNCHANGED rows
      <3>1. PICK a \in AnswerKinds : a = [W!NoAnswer EXCEPT !.status = "unreachable"]
        BY <1>5
      <3>2. a.status # "ok"
        BY <3>1 DEF W!NoAnswer
      <3>3. QED
        BY <2>1, <3>1, <3>2
    <2>2. PICK a : a = CASE refused -> [W!NoAnswer EXCEPT !.status = "401"]
                         [] ~refused /\ r.op \notin {"evidence", "more"} -> [W!NoAnswer EXCEPT !.status = "ok"]
                         [] OTHER -> p
      OBVIOUS
    <2>3. a \in AnswerKinds /\ (r.op \in {"evidence", "more"} /\ a.status = "ok" => a = p)
      <3>1. [W!NoAnswer EXCEPT !.status = "401"].status # "ok"
        BY DEF W!NoAnswer
      <3>2. CASE refused
        BY <1>5, <2>2, <3>1, <3>2
      <3>3. CASE ~refused /\ r.op \notin {"evidence", "more"}
        BY <1>5, <2>2, <3>3
      <3>4. CASE ~refused /\ r.op \in {"evidence", "more"}
        BY <1>7, <2>2, <3>4
      <3>5. QED
        BY <3>2, <3>3, <3>4
    <2>4. CASE /\ flight' = (flight \ {r}) \cup {[r EXCEPT !.answer = a]}
               /\ rows' = IF r.op = "upload" /\ ~refused /\ Len(rows) < MaxRows
                          THEN Append(rows, [own |-> r.by.role = "supplier", requirement |-> 1,
                                             version |-> Len(rows) + 1])
                          ELSE rows
      BY <2>3, <2>4
    <2>5. QED
      BY <1>3, <1>6, <1>8, <2>1, <2>2, <2>4 DEF W!Answer
  <1>10. PICK q : q = [r EXCEPT !.answer = a]
    OBVIOUS
  <1>11. /\ q \in RequestKinds /\ q.op = r.op /\ q.by = r.by /\ q.offset = r.offset /\ q.answer = a
         /\ flight' = (flight \ {r}) \cup {q}
    BY <1>2, <1>9, <1>10 DEF RequestKinds
  <1>12. /\ RowsKnown'
         /\ \/ UNCHANGED rows
            \/ /\ r.op = "upload"
               /\ \E row \in [own : BOOLEAN, requirement : Nat, version : Nat] : rows' = Append(rows, row)
    <2>1. [own |-> r.by.role = "supplier", requirement |-> 1, version |-> Len(rows) + 1]
             \in [own : BOOLEAN, requirement : Nat, version : Nat]
      BY <1>1 DEF RowsKnown
    <2>2. CASE UNCHANGED rows
      BY <1>1, <2>2 DEF RowsKnown
    <2>3. CASE ~UNCHANGED rows
      <3>1. PICK row \in [own : BOOLEAN, requirement : Nat, version : Nat] :
               r.op = "upload" /\ rows' = Append(rows, row)
        BY <1>9, <2>1, <2>3
      <3>2. RowsKnown'
        BY <1>1, <3>1 DEF RowsKnown
      <3>3. QED
        BY <3>1, <3>2
    <2>4. QED
      BY <2>2, <2>3
  <1>13. /\ token' \in People /\ minted' \in Nat /\ flight' \in SUBSET RequestKinds
         /\ others' \in BOOLEAN /\ signedOut' \in BOOLEAN /\ unlocked' \in BOOLEAN
    BY <1>1, <1>4, <1>11 DEF TabTyped
  <1>14. OneRuns'
    BY <1>1, <1>4, <1>11 DEF OneRuns
  <1>15. ~overtaken => Gone'
    BY <1>4 DEF TabInv, Gone
  <1>16. ASSUME ~overtaken, ~unlocked PROVE RequestSound(q, evidence, evidenceMore, outOf)'
    <2>1. RequestSound(r, evidence, evidenceMore, outOf) /\ HeldSound(evidence, evidenceMore, outOf)
      BY <1>16 DEF TabInv, Answers
    <2>2. q.op \in {"evidence", "more"} /\ q.answer.status = "ok"
              => PageOf(q.answer, W!Visible(q.by.role), q.offset)' /\ q.answer.total = Len(view)
      <3>1. SUFFICES ASSUME q.op \in {"evidence", "more"}, q.answer.status = "ok"
                     PROVE  PageOf(q.answer, W!Visible(q.by.role), q.offset)' /\ q.answer.total = Len(view)
        OBVIOUS
      <3>2. q.answer = p /\ UNCHANGED rows
        BY <1>9, <1>11, <3>1
      <3>3. W!Visible(q.by.role)' = view
        BY <1>3, <1>11, <3>2 DEF W!Visible
      <3>4. QED
        BY <1>7, <1>11, <3>2, <3>3
    <2>3. q.op = "evidence" => q.offset = 0
      BY <1>11, <2>1 DEF RequestSound
    <2>4. q.op = "more" => Continues(q, evidence, evidenceMore, outOf)
      <3>1. SUFFICES ASSUME q.op = "more" PROVE Continues(q, evidence, evidenceMore, outOf)
        OBVIOUS
      <3>2. r.offset = Len(evidence) /\ Len(evidence) > 0 /\ evidenceMore
        BY <1>11, <2>1, <3>1 DEF RequestSound, Continues
      <3>3. ASSUME Alone(evidence, outOf), outOf.by = q.by, q.answer.status = "ok" PROVE q.offset <= q.answer.total
        <4>1. PICK n, c, m : n = Len(evidence) /\ c = outOf.total /\ m = Len(view)
          OBVIOUS
        <4>2. n <= c /\ c <= m
          BY <1>3, <1>11, <2>1, <3>3, <4>1 DEF HeldSound
        <4>3. n \in Nat /\ c \in Nat /\ m \in Nat
          BY <1>1, <4>1 DEF TabTyped
        <4>4. q.answer.total = m /\ q.offset = n
          BY <1>11, <2>2, <3>1, <3>2, <3>3, <4>1
        <4>5. QED
          BY <4>2, <4>3, <4>4
      <3>4. QED
        BY <1>11, <3>2, <3>3 DEF Continues
    <2>5. Continues(q, evidence, evidenceMore, outOf)' <=> Continues(q, evidence, evidenceMore, outOf)
      BY <1>4 DEF Continues, Alone
    <2>6. QED
      BY <2>2, <2>3, <2>4, <2>5 DEF RequestSound
  <1>17. \A s \in flight' \ flight : s = q
    BY <1>11
  <1>18. QED
    BY <1>4, <1>12, <1>13, <1>14, <1>15, <1>16, <1>17, ScreenStands

(* An answer lands: a page that continues the rows held, or starts anew.   *)
Held == [id : Nat, by : People, current : BOOLEAN]

LEMMA CurrencyTold ==
    ASSUME NEW joined \in Seq(Held)
    PROVE  /\ W!WithCurrency(joined) \in Seq(Held) /\ Len(W!WithCurrency(joined)) = Len(joined)
           /\ \A i \in 1 .. Len(joined) : /\ W!WithCurrency(joined)[i].id = joined[i].id
                                        /\ W!WithCurrency(joined)[i].by = joined[i].by
                                        /\ W!WithCurrency(joined)[i].current = W!Newest(W!WithCurrency(joined), i)
  <1>1. PICK n \in Nat : n = Len(joined)
    OBVIOUS
  <1>2. PICK shown : shown = W!WithCurrency(joined)
    OBVIOUS
  <1>3. shown = [i \in 1 .. n |-> [joined[i] EXCEPT !.current = W!Newest(joined, i)]]
    BY <1>1, <1>2 DEF W!WithCurrency
  <1>4. ASSUME NEW i \in 1 .. n
        PROVE  /\ shown[i] = [joined[i] EXCEPT !.current = W!Newest(joined, i)]
               /\ joined[i] \in Held /\ W!Newest(joined, i) \in BOOLEAN
    <2>1. joined[i] \in Held
      BY <1>1
    <2>2. W!Newest(joined, i) \in BOOLEAN
      BY Zenon DEF W!Newest
    <2>3. QED
      BY <1>3, <2>1, <2>2
  <1>5. \A i \in 1 .. n : /\ shown[i] \in Held /\ shown[i].id = joined[i].id /\ shown[i].by = joined[i].by
                          /\ shown[i].current = W!Newest(joined, i)
    BY <1>4 DEF Held
  <1>6. shown \in Seq(Held) /\ Len(shown) = n
    BY <1>3, <1>5
  <1>7. ASSUME NEW i \in 1 .. n PROVE W!Newest(shown, i) <=> W!Newest(joined, i)
    BY <1>1, <1>5, <1>6, <1>7 DEF W!Newest
  <1>8. ASSUME NEW i \in 1 .. n PROVE shown[i].current = W!Newest(shown, i)
    <2>1. W!Newest(shown, i) \in BOOLEAN /\ W!Newest(joined, i) \in BOOLEAN
      BY Zenon DEF W!Newest
    <2>2. QED
      BY <1>5, <1>7, <2>1
  <1>9. QED
    BY <1>1, <1>2, <1>5, <1>6, <1>8

LEMMA PageAppended ==
    ASSUME NEW held \in Seq(Held), NEW ids \in Seq(Nat), NEW by \in People
    PROVE  /\ W!AppendPage(held, ids, by) \in Seq(Held) /\ Len(W!AppendPage(held, ids, by)) = Len(held) + Len(ids)
           /\ \A i \in 1 .. Len(held) : W!AppendPage(held, ids, by)[i] = held[i]
           /\ \A i \in 1 .. Len(ids) : /\ W!AppendPage(held, ids, by)[Len(held) + i].id = ids[i]
                                       /\ W!AppendPage(held, ids, by)[Len(held) + i].by = by
  <1>1. PICK k, m \in Nat : k = Len(held) /\ m = Len(ids)
    OBVIOUS
  <1>2. PICK new : new = [i \in 1 .. m |-> [id |-> ids[i], by |-> by, current |-> TRUE]]
    OBVIOUS
  <1>3. \A i \in 1 .. m : new[i] \in Held /\ new[i].id = ids[i] /\ new[i].by = by
    <2>1. ASSUME NEW i \in 1 .. m PROVE ids[i] \in Nat
      BY <1>1
    <2>2. QED
      BY <1>2, <2>1 DEF Held
  <1>4. new \in Seq(Held) /\ Len(new) = m
    BY <1>2, <1>3
  <1>5. PICK joined : joined = W!AppendPage(held, ids, by)
    OBVIOUS
  <1>6. joined = held \o new
    BY <1>1, <1>2, <1>5 DEF W!AppendPage
  <1>7. joined \in Seq(Held) /\ Len(joined) = k + m /\ \A i \in 1 .. k : joined[i] = held[i]
    <2>1. joined \in Seq(Held) /\ Len(joined) = k + m
      BY <1>1, <1>4, <1>6, ConcatProperties
    <2>2. ASSUME NEW i \in 1 .. k PROVE joined[i] = held[i]
      BY <1>1, <1>4, <1>6
    <2>3. QED
      BY <2>1, <2>2
  <1>8. ASSUME NEW i \in 1 .. m PROVE joined[k + i] = new[i]
    BY <1>1, <1>4, <1>6
  <1>9. QED
    BY <1>1, <1>3, <1>5, <1>7, <1>8

LEMMA PageShown ==
    ASSUME TabTyped, NEW r \in RequestKinds, r.op \in {"evidence", "more"}, r.answer.status = "ok",
           HeldSound(evidence, evidenceMore, outOf), RequestSound(r, evidence, evidenceMore, outOf),
           NEW old, old = IF r.op = "more" THEN evidence ELSE <<>>,
           NEW shown, shown = W!WithCurrency(W!AppendPage(old, r.answer.ids, r.by))
    PROVE  HeldSound(shown, r.answer.more, [by |-> r.by, total |-> r.answer.total])
  <1>1. /\ r.answer.ids \in Seq(Nat) /\ r.answer.total \in Nat /\ r.answer.more \in BOOLEAN
        /\ r.by \in People /\ r.offset \in Nat
    BY DEF RequestKinds, AnswerKinds
  <1>2. PICK k, m, t, f, s \in Nat :
           k = Len(old) /\ m = Len(r.answer.ids) /\ t = r.answer.total /\ f = r.offset /\ s = PageSize
    <2>1. PageSize \in Nat
      BY DeploymentAssumption DEF W!WorkbenchAssumption
    <2>2. old \in Seq(Held)
      BY DEF TabTyped, Held
    <2>3. QED
      BY <1>1, <2>1, <2>2
  <1>3. PICK ids, by, more : ids = r.answer.ids /\ by = r.by /\ more = r.answer.more
    OBVIOUS
  <1>4. PICK joined : joined = W!AppendPage(old, ids, by)
    OBVIOUS
  <1>5. old \in Seq(Held) /\ RowsKnown
    BY DEF TabTyped, Held
  <1>6. /\ joined \in Seq(Held) /\ Len(joined) = k + m /\ \A i \in 1 .. k : joined[i] = old[i]
        /\ \A i \in 1 .. m : joined[k + i].id = ids[i] /\ joined[k + i].by = by
    <2>1. ids \in Seq(Nat) /\ by \in People /\ k = Len(old) /\ m = Len(ids)
      BY <1>1, <1>2, <1>3
    <2>2. /\ joined \in Seq(Held) /\ Len(joined) = Len(old) + Len(ids)
          /\ \A i \in 1 .. Len(old) : joined[i] = old[i]
          /\ \A i \in 1 .. Len(ids) : joined[Len(old) + i].id = ids[i] /\ joined[Len(old) + i].by = by
      <3>1. /\ W!AppendPage(old, ids, by) \in Seq(Held)
            /\ Len(W!AppendPage(old, ids, by)) = Len(old) + Len(ids)
            /\ \A i \in 1 .. Len(old) : W!AppendPage(old, ids, by)[i] = old[i]
            /\ \A i \in 1 .. Len(ids) : /\ W!AppendPage(old, ids, by)[Len(old) + i].id = ids[i]
                                         /\ W!AppendPage(old, ids, by)[Len(old) + i].by = by
        <4>1. old \in Seq(Held) /\ ids \in Seq(Nat) /\ by \in People
          BY <1>5, <2>1
        <4>2. QED
          BY ONLY <4>1, PageAppended, Zenon
      <3>2. QED
        BY <1>4, <3>1, Zenon
    <2>3. QED
      BY <2>1, <2>2
  <1>7. /\ shown \in Seq(Held) /\ Len(shown) = k + m
        /\ \A i \in 1 .. k + m : /\ shown[i].id = joined[i].id /\ shown[i].by = joined[i].by
                                 /\ shown[i].current = W!Newest(shown, i)
    BY <1>3, <1>4, <1>6, CurrencyTold
  <1>8. PICK view \in Seq(Nat) : view = W!Visible(by.role)
    BY <1>5, VisibleRows
  <1>9. Len(view) \in Nat /\ \A i \in 1 .. Len(view) : view[i] \in 1 .. Len(rows)
    BY <1>5, <1>8, VisibleRows
  <1>10. s > 0
    BY <1>2, DeploymentAssumption DEF W!WorkbenchAssumption
  <1>11. /\ t <= Len(view)
         /\ m = IF t <= f THEN 0 ELSE IF t <= f + s THEN t - f ELSE s
         /\ \A i \in 1 .. m : ids[i] = view[f + i]
         /\ more = (f + s < t)
    BY <1>2, <1>3, <1>8 DEF RequestSound, PageOf
  <1>12. \A i \in 1 .. m : f + i \in 1 .. Len(view)
    BY <1>9, <1>10, <1>11
  <1>13. f = k
    BY <1>2 DEF RequestSound, Continues
  <1>14. \A i \in 1 .. k : /\ old[i].id \in 1 .. Len(rows)
    <2>1. CASE r.op = "more"
      BY <1>2, <2>1 DEF HeldSound
    <2>2. CASE r.op # "more"
      BY <1>2, <2>2
    <2>3. QED
      BY <2>1, <2>2
  <1>15. \A i \in 1 .. k + m : i \in 1 .. k \/ \E j \in 1 .. m : i = k + j
    <2>1. ASSUME NEW i \in 1 .. k + m, i \notin 1 .. k PROVE i - k \in 1 .. m /\ i = k + (i - k)
      BY <2>1
    <2>2. QED
      BY <2>1
  <1>16. ASSUME NEW i \in 1 .. k + m PROVE shown[i].id \in 1 .. Len(rows)
    <2>1. CASE i \in 1 .. k
      BY <1>6, <1>7, <1>14, <2>1
    <2>2. CASE i \notin 1 .. k
      <3>1. PICK j \in 1 .. m : i = k + j
        BY <1>15, <2>2
      <3>2. shown[i].id = view[f + j] /\ f + j \in 1 .. Len(view)
        BY <1>6, <1>7, <1>11, <1>12, <3>1
      <3>3. QED
        BY <1>9, <3>2
    <2>3. QED
      BY <2>1, <2>2
  <1>17. ASSUME \A i \in 1 .. k + m : shown[i].by = by
         PROVE  k <= t /\ \A i \in 1 .. k : old[i].id = view[i]
    <2>1. CASE r.op # "more"
      BY <1>2, <2>1
    <2>2. CASE r.op = "more"
      <3>1. old = evidence /\ k > 0 /\ evidenceMore
        BY <1>2, <1>13, <2>2 DEF RequestSound, Continues
      <3>2. ASSUME NEW i \in 1 .. k PROVE old[i].by = by
        <4>1. i \in 1 .. k + m
          OBVIOUS
        <4>2. QED
          BY <1>6, <1>7, <1>17, <4>1
      <3>3. old[k].by = outOf.by
        BY <1>2, <3>1 DEF HeldSound
      <3>4. outOf.by = by
        BY <3>1, <3>2, <3>3
      <3>5. Alone(evidence, outOf)
        BY <1>2, <3>1, <3>2, <3>4 DEF Alone
      <3>6. f <= t
        BY <1>2, <1>3, <2>2, <3>4, <3>5 DEF RequestSound, Continues
      <3>7. \A i \in 1 .. k : old[i].id = view[i]
        BY <1>2, <1>8, <3>1, <3>4, <3>5 DEF HeldSound
      <3>8. QED
        BY <1>13, <3>6, <3>7
    <2>3. QED
      BY <2>1, <2>2
  <1>18. ASSUME \A i \in 1 .. k + m : shown[i].by = by
         PROVE  k + m <= t /\ more = (k + m < t) /\ \A i \in 1 .. k + m : shown[i].id = view[i]
    <2>1. k <= t /\ \A i \in 1 .. k : old[i].id = view[i]
      BY <1>17, <1>18
    <2>2. k + m <= t /\ (k + m < t <=> k + s < t)
      BY <1>10, <1>11, <1>13, <2>1
    <2>3. more = (k + m < t)
      BY <1>11, <1>13, <2>2
    <2>4. ASSUME NEW i \in 1 .. k + m PROVE shown[i].id = view[i]
      <3>1. CASE i \in 1 .. k
        BY <1>6, <1>7, <2>1, <3>1
      <3>2. CASE i \notin 1 .. k
        <4>1. PICK j \in 1 .. m : i = k + j
          BY <1>15, <3>2
        <4>2. QED
          BY <1>6, <1>7, <1>11, <1>13, <4>1
      <3>3. QED
        BY <3>1, <3>2
    <2>5. QED
      BY <2>2, <2>3, <2>4
  <1>19. ASSUME k + m > 0, more PROVE shown[k + m].by = by
    <2>1. f + s < t
      BY <1>11, <1>19
    <2>2. m = s
      BY <1>10, <1>11, <2>1
    <2>3. m \in 1 .. m /\ k + m \in 1 .. k + m
      BY <1>10, <2>2
    <2>4. QED
      BY <1>6, <1>7, <2>3
  <1>20. PICK count : count = [by |-> by, total |-> t]
    OBVIOUS
  <1>21. HeldSound(shown, more, count)
    BY <1>7, <1>8, <1>11, <1>16, <1>18, <1>19, <1>20 DEF HeldSound, Alone
  <1>22. QED
    BY <1>2, <1>3, <1>20, <1>21

(* The screen is drawn anew, and no request for rows is under way.         *)
LEMMA ScreenDrawn ==
    ASSUME TabInv, UNCHANGED <<rows, minted>>, token' \in People, flight' \in SUBSET flight, OneRuns',
           evidence' \in Seq(Held), evidenceMore' \in BOOLEAN, outOf' \in [by : People, total : Nat],
           others' \in BOOLEAN, signedOut' \in BOOLEAN, overtaken' \in BOOLEAN, unlocked' \in BOOLEAN,
           ~overtaken' => Gone',
           ~overtaken' /\ ~unlocked' => /\ HeldSound(evidence', evidenceMore', outOf')
                                        /\ \A r \in flight' : r.op \notin W!Locking
    PROVE  TabInv'
  <1>1. PICK held, more, count : held = evidence' /\ more = evidenceMore' /\ count = outOf'
    OBVIOUS
  <1>2. TabTyped'
    BY DEF TabInv, TabTyped, RowsKnown, Held
  <1>3. \A role : W!Visible(role)' = W!Visible(role)
    BY DEF W!Visible
  <1>4. \A i : W!Newest(held, i)' = W!Newest(held, i)
    BY DEF W!Newest
  <1>5. HeldSound(held, more, count) => HeldSound(held, more, count)'
    BY <1>3, <1>4 DEF HeldSound
  <1>6. ASSUME ~overtaken', ~unlocked' PROVE HeldSound(evidence, evidenceMore, outOf)' /\ Answers'
    <2>1. HeldSound(held, more, count)'
      BY <1>1, <1>5, <1>6
    <2>2. Answers'
      BY <1>6 DEF Answers, RequestSound, W!Locking
    <2>3. QED
      BY <1>1, <1>6, <2>1, <2>2
  <1>7. QED
    BY <1>2, <1>6 DEF TabInv

LEMMA BlankScreen == RowsKnown => HeldSound(<<>>, FALSE, W!NoCount)
  <1> SUFFICES ASSUME RowsKnown PROVE HeldSound(<<>>, FALSE, W!NoCount)
    OBVIOUS
  <1>1. PICK n \in Nat : n = Len(W!Visible(W!NoCount.by.role))
    BY VisibleRows
  <1>2. W!NoCount.total = 0
    BY DEF W!NoCount
  <1>3. QED
    BY <1>1, <1>2 DEF HeldSound

LEMMA RequestLands ==
    ASSUME TabInv, W!Lands
    PROVE  TabInv'
  <1>1. TabTyped /\ OneRuns /\ RowsKnown /\ (~overtaken => Gone)
    BY DEF TabInv, TabTyped
  <1>2. PICK r \in flight :
           /\ r.op \in {"evidence", "more", "upload", "other", "reset"}
           /\ LET again == r.op = "upload" /\ r.answer.status = "ok"
              IN /\ W!Landed(r, IF again THEN {W!Request("evidence", r.by, 0)} ELSE {})
                 /\ busy' = again
           /\ IF r.answer.status = "ok" THEN W!Shows(r) /\ UNCHANGED <<identity, signInState>>
              ELSE W!Failed(r)
           /\ unlocked' = (unlocked \/ (r.op = "other" /\ \E q \in flight' : q.op \in W!Locking))
           /\ W!Unchanged /\ UNCHANGED <<token, signedOut, overtaken>>
    BY Zenon DEF W!Lands
  <1>3. r \in RequestKinds /\ r.answer \in AnswerKinds /\ r.by \in People
    BY <1>1 DEF TabTyped, RequestKinds
  <1>4. UNCHANGED <<rows, minted, token, signedOut, overtaken>> /\ RowsKnown'
    BY <1>1, <1>2 DEF W!Unchanged, RowsKnown
  <1>5. ~overtaken => ~signedOut
    BY <1>1 DEF Gone
  <1>6. ~overtaken => Gone'
    BY <1>4, <1>5 DEF Gone
  <1>7. /\ token' \in People /\ minted' \in Nat /\ signedOut' \in BOOLEAN /\ overtaken' \in BOOLEAN
        /\ unlocked' \in BOOLEAN /\ (unlocked => unlocked')
    <2>1. unlocked \in BOOLEAN
      BY <1>1 DEF TabTyped
    <2>2. unlocked' \in BOOLEAN /\ (unlocked => unlocked')
      BY <1>2, <2>1
    <2>3. QED
      BY <1>1, <1>4, <2>2 DEF TabTyped
  <1>8. ~unlocked' => \A q \in flight \ {r} : q.op \notin W!Locking
    <2>1. CASE r.op \in W!Locking
      BY <1>1, <1>7, <2>1 DEF OneRuns
    <2>2. CASE r.op \notin W!Locking
      <3>1. r.op = "other"
        BY <1>2, <2>2 DEF W!Locking
      <3>2. flight' = flight \ {r}
        BY <1>2, <3>1 DEF W!Landed
      <3>3. QED
        BY <1>2, <3>1, <3>2
    <2>3. QED
      BY <2>1, <2>2
  <1>9. CASE r.op = "upload" /\ r.answer.status = "ok"
    <2>1. PICK q : q = W!Request("evidence", r.by, 0)
      OBVIOUS
    <2>2. flight' = (flight \ {r}) \cup {q} /\ busy' = TRUE /\ W!Shows(r)
      BY <1>2, <1>9, <2>1 DEF W!Landed
    <2>3. UNCHANGED <<evidence, evidenceMore, outOf, others>>
      BY <1>9, <2>2 DEF W!Shows, W!Screen
    <2>4. q \in RequestKinds /\ q.op = "evidence" /\ q.offset = 0 /\ q.answer.status = "none"
      BY <1>3, <2>1, NewRequest DEF Operations
    <2>5. flight' \in SUBSET RequestKinds /\ others' \in BOOLEAN
      BY <1>1, <2>2, <2>3, <2>4 DEF TabTyped
    <2>6. OneRuns'
      BY <1>8, <2>2 DEF OneRuns
    <2>7. RequestSound(q, evidence, evidenceMore, outOf)'
      BY <2>4 DEF RequestSound
    <2>8. \A s \in flight' \ flight : s = q
      BY <2>2
    <2>9. QED
      BY <1>4, <1>6, <1>7, <2>3, <2>5, <2>6, <2>7, <2>8, ScreenStands
  <1>10. ASSUME ~(r.op = "upload" /\ r.answer.status = "ok")
         PROVE  flight' = flight \ {r} /\ flight' \in SUBSET RequestKinds /\ OneRuns'
    <2>1. flight' = flight \ {r}
      BY <1>2, <1>10 DEF W!Landed
    <2>2. QED
      BY <1>1, <1>8, <2>1 DEF OneRuns, TabTyped
  <1>11. ASSUME ~(r.op = "upload" /\ r.answer.status = "ok"), UNCHANGED <<evidence, evidenceMore, outOf>>,
                others' \in BOOLEAN
         PROVE  TabInv'
    <2>1. flight' = flight \ {r} /\ flight' \in SUBSET RequestKinds /\ OneRuns'
      BY <1>10, <1>11
    <2>2. flight' \ flight = {}
      BY <2>1
    <2>3. QED
      BY <1>4, <1>6, <1>7, <1>11, <2>1, <2>2, ScreenStands
  <1>12. CASE r.answer.status # "ok"
    <2>1. UNCHANGED <<evidence, evidenceMore, outOf, others>>
      BY <1>2, <1>12 DEF W!Failed, W!Screen
    <2>2. others' \in BOOLEAN
      BY <1>1, <2>1 DEF TabTyped
    <2>3. QED
      BY <1>11, <1>12, <2>1, <2>2
  <1>13. CASE r.answer.status = "ok" /\ r.op = "other"
    <2>1. others' = TRUE /\ UNCHANGED <<evidence, evidenceMore, outOf>>
      BY <1>2, <1>13 DEF W!Shows
    <2>2. QED
      BY <1>11, <1>13, <2>1
  <1>14. CASE r.answer.status = "ok" /\ r.op = "reset"
    <2>1. evidence' = <<>> /\ evidenceMore' = FALSE /\ outOf' = W!NoCount /\ others' = FALSE
      BY <1>2, <1>14 DEF W!Shows
    <2>2. HeldSound(evidence', evidenceMore', outOf')
      BY <1>1, <2>1, BlankScreen
    <2>3. flight' = flight \ {r} /\ OneRuns'
      BY <1>10, <1>14
    <2>4. evidence' \in Seq(Held) /\ outOf' \in [by : People, total : Nat]
      BY <2>1, NobodyIsSomeone
    <2>5. QED
      BY <1>4, <1>6, <1>7, <1>8, <2>1, <2>2, <2>3, <2>4, ScreenDrawn
  <1>15. CASE r.answer.status = "ok" /\ r.op \in {"evidence", "more"}
    <2>1. PICK old : old = IF r.op = "more" THEN evidence ELSE <<>>
      OBVIOUS
    <2>2. PICK shown : shown = W!WithCurrency(W!AppendPage(old, r.answer.ids, r.by))
      OBVIOUS
    <2>3. /\ evidence' = shown /\ evidenceMore' = r.answer.more
          /\ outOf' = [by |-> r.by, total |-> r.answer.total] /\ UNCHANGED others
      BY <1>2, <1>15, <2>1, <2>2 DEF W!Shows
    <2>4. shown \in Seq(Held)
      <3>1. old \in Seq(Held)
        BY <1>1, <2>1 DEF TabTyped, Held
      <3>2. r.answer.ids \in Seq(Nat)
        BY <1>3 DEF AnswerKinds
      <3>3. W!AppendPage(old, r.answer.ids, r.by) \in Seq(Held)
        BY ONLY <1>3, <3>1, <3>2, PageAppended, Zenon
      <3>4. QED
        BY ONLY <2>2, <3>3, CurrencyTold, Zenon
    <2>5. ~overtaken /\ ~unlocked
              => HeldSound(shown, r.answer.more, [by |-> r.by, total |-> r.answer.total])
      <3>1. ~overtaken /\ ~unlocked => HeldSound(evidence, evidenceMore, outOf) /\ RequestSound(r, evidence, evidenceMore, outOf)
        BY DEF TabInv, Answers
      <3>2. QED
        BY <1>1, <1>3, <1>15, <2>1, <2>2, <3>1, PageShown
    <2>6. flight' = flight \ {r} /\ OneRuns'
      BY <1>10, <1>15
    <2>7. evidenceMore' \in BOOLEAN /\ outOf' \in [by : People, total : Nat] /\ others' \in BOOLEAN
      BY <1>1, <1>3, <2>3 DEF TabTyped, AnswerKinds
    <2>8. ~overtaken' /\ ~unlocked' => HeldSound(evidence', evidenceMore', outOf')
      BY <1>4, <1>7, <2>3, <2>5
    <2>9. QED
      BY <1>4, <1>6, <1>7, <1>8, <2>3, <2>4, <2>6, <2>7, <2>8, ScreenDrawn
  <1>16. QED
    BY <1>2, <1>9, <1>11, <1>12, <1>13, <1>14, <1>15 DEF W!Shows, W!Screen

LEMMA EntriesLand ==
    ASSUME TabInv, W!SignInLands \/ W!SignOutLands
    PROVE  TabInv'
  <1>1. TabTyped /\ OneRuns /\ RowsKnown /\ (~overtaken => Gone) /\ unlocked \in BOOLEAN
    BY DEF TabInv, TabTyped
  <1>2. CASE W!SignInLands
    <2>1. PICK r \in flight :
             /\ r.op \in {"session", "login"}
             /\ IF r.answer.status # "ok"
                THEN /\ W!Landed(r, {})
                     /\ identity' = W!Nobody /\ signInState' = "error" /\ UNCHANGED token
                ELSE IF r.op = "login"
                     THEN /\ W!Landed(r, {W!Request("session", r.by, 0)})
                          /\ token' = r.by /\ UNCHANGED <<identity, signInState>>
                     ELSE W!Landed(r, {}) /\ W!AdoptIdentity(r)
             /\ W!Unchanged /\ UNCHANGED <<busy, evidence, evidenceMore, outOf, others, signedOut, overtaken, unlocked>>
      BY <1>2, Zenon DEF W!SignInLands, W!Screen
    <2>2. r.by \in People
      BY <1>1 DEF TabTyped, RequestKinds
    <2>3. PICK q : q = W!Request("session", r.by, 0)
      OBVIOUS
    <2>4. q \in RequestKinds /\ q.op = "session"
      BY <2>2, <2>3, NewRequest DEF Entries
    <2>5. /\ flight' = flight \ {r} \/ flight' = (flight \ {r}) \cup {q}
          /\ token' = token \/ token' = r.by
      <3>1. CASE r.answer.status # "ok"
        BY <2>1, <3>1 DEF W!Landed
      <3>2. CASE r.answer.status = "ok" /\ r.op = "login"
        BY <2>1, <2>3, <3>2 DEF W!Landed
      <3>3. CASE r.answer.status = "ok" /\ r.op # "login"
        BY <2>1, <3>3 DEF W!Landed, W!AdoptIdentity
      <3>4. QED
        BY <3>1, <3>2, <3>3
    <2>6. /\ RowsKnown' /\ token' \in People /\ minted' \in Nat /\ flight' \in SUBSET RequestKinds
          /\ others' \in BOOLEAN /\ signedOut' \in BOOLEAN /\ UNCHANGED rows
      BY <1>1, <2>1, <2>2, <2>4, <2>5 DEF W!Unchanged, TabTyped, RowsKnown
    <2>7. q.op \notin W!Locking
      BY <2>4 DEF W!Locking
    <2>8. OneRuns'
      BY <1>1, <2>1, <2>5, <2>7 DEF OneRuns
    <2>9. ~overtaken => Gone'
      BY <1>1, <2>1 DEF Gone
    <2>10. \A s \in flight' \ flight : s = q
      BY <2>5
    <2>11. RequestSound(q, evidence, evidenceMore, outOf)'
      BY <2>7 DEF RequestSound, W!Locking
    <2>12. QED
      BY <1>1, <2>1, <2>6, <2>8, <2>9, <2>10, <2>11, ScreenStands
  <1>3. CASE W!SignOutLands
    <2>1. PICK r \in flight :
             /\ W!Landed(r, {})
             /\ token' = W!Nobody /\ identity' = W!Nobody
             /\ evidence' = <<>> /\ evidenceMore' = FALSE /\ outOf' = W!NoCount /\ others' = FALSE
             /\ signedOut' = TRUE /\ overtaken' = (overtaken \/ flight # {r})
             /\ UNCHANGED <<rows, minted, busy, unlocked>>
      BY <1>3, Zenon DEF W!SignOutLands, W!ClearWorkspace, W!Unchanged
    <2>2. flight' = flight \ {r}
      BY <2>1 DEF W!Landed
    <2>3. OneRuns'
      BY <1>1, <2>1, <2>2 DEF OneRuns
    <2>4. HeldSound(evidence', evidenceMore', outOf')
      BY <1>1, <2>1, BlankScreen
    <2>5. /\ token' \in People /\ evidence' \in Seq(Held) /\ outOf' \in [by : People, total : Nat]
          /\ overtaken' \in BOOLEAN /\ unlocked' \in BOOLEAN
      <3>1. overtaken \in BOOLEAN
        BY <1>1 DEF TabTyped
      <3>2. QED
        BY <1>1, <2>1, <3>1, NobodyIsSomeone
    <2>6. ~overtaken' => flight' = {}
      BY <2>1, <2>2
    <2>7. ~overtaken' => Gone' /\ \A s \in flight' : s.op \notin W!Locking
      BY <2>1, <2>6 DEF Gone
    <2>8. QED
      BY <2>1, <2>2, <2>3, <2>4, <2>5, <2>7, ScreenDrawn
  <1>4. QED
    BY <1>2, <1>3

LEMMA TabStarts == W!Init => TabInv
  <1> SUFFICES ASSUME W!Init PROVE TabInv
    OBVIOUS
  <1>1. RowsKnown /\ flight = {} /\ evidence = <<>> /\ evidenceMore = FALSE /\ outOf = W!NoCount
    BY DEF W!Init, RowsKnown
  <1>2. TabTyped
    <2>1. /\ token \in People /\ minted \in Nat /\ others \in BOOLEAN /\ overtaken \in BOOLEAN
          /\ signedOut \in BOOLEAN /\ unlocked \in BOOLEAN
      BY NobodyIsSomeone DEF W!Init
    <2>2. evidence \in Seq([id : Nat, by : People, current : BOOLEAN]) /\ flight \in SUBSET RequestKinds
      BY <1>1
    <2>3. outOf \in [by : People, total : Nat]
      BY <1>1, NobodyIsSomeone
    <2>4. QED
      BY <1>1, <2>1, <2>2, <2>3 DEF TabTyped
  <1>3. HeldSound(evidence, evidenceMore, outOf)
    BY <1>1, BlankScreen
  <1>4. OneRuns /\ Answers
    BY <1>1 DEF OneRuns, Answers
  <1>5. Gone
    BY DEF W!Init, Gone
  <1>6. QED
    BY <1>2, <1>3, <1>4, <1>5 DEF TabInv

LEMMA TabHolds == TabInv /\ [W!Next]_(W!workbenchVars) => TabInv'
  <1>1. ASSUME TabInv, UNCHANGED W!workbenchVars PROVE TabInv'
    <2>1. /\ UNCHANGED <<rows, minted, token, busy, flight, evidence, evidenceMore, outOf, others>>
          /\ UNCHANGED <<identity, signedOut, overtaken, unlocked>>
      BY <1>1 DEF W!workbenchVars
    <2>2. TabTyped /\ OneRuns /\ (~overtaken => Gone)
      BY <1>1 DEF TabInv
    <2>3. /\ RowsKnown' /\ token' \in People /\ minted' \in Nat /\ flight' \in SUBSET RequestKinds
          /\ others' \in BOOLEAN /\ signedOut' \in BOOLEAN /\ unlocked' \in BOOLEAN
      BY <2>1, <2>2 DEF TabTyped, RowsKnown
    <2>4. OneRuns' /\ (~overtaken => Gone')
      BY <2>1, <2>2 DEF OneRuns, Gone
    <2>5. flight' \ flight = {}
      BY <2>1
    <2>6. QED
      BY <1>1, <2>1, <2>3, <2>4, <2>5, ScreenStands
  <1>2. ASSUME TabInv, W!Next PROVE TabInv'
    <2>1. CASE \E r \in flight : W!Answer(r)
      BY <1>2, <2>1, AnswerGiven
    <2>2. CASE W!Arrives \/ W!Expires
      BY <1>2, <2>2, OthersAct
    <2>3. CASE \/ W!LoadEvidence \/ W!LoadMoreEvidence \/ W!SubmitEvidence \/ W!LoadOther \/ W!LoadCatalogResource
               \/ W!ResetEnvironment
      BY <1>2, <2>3, OperationsStart
    <2>4. CASE W!EditToken \/ W!SignIn \/ W!SignInWithPassword \/ W!SignOut
      BY <1>2, <2>4, EntriesStart
    <2>5. CASE W!Lands
      BY <1>2, <2>5, RequestLands
    <2>6. CASE W!SignInLands \/ W!SignOutLands
      BY <1>2, <2>6, EntriesLand
    <2>7. QED
      BY <1>2, <2>1, <2>2, <2>3, <2>4, <2>5, <2>6 DEF W!Next
  <1>3. QED
    BY <1>1, <1>2

LEMMA WorkbenchWithin == [Next]_vars => [W!Next]_(W!workbenchVars)
  <1> SUFFICES ASSUME [Next]_vars PROVE [W!Next]_(W!workbenchVars)
    OBVIOUS
  <1>1. ASSUME UNCHANGED workbench PROVE UNCHANGED W!workbenchVars
    BY <1>1 DEF workbench, W!workbenchVars
  <1>2. CASE UNCHANGED vars
    BY <1>1, <1>2 DEF vars
  <1>3. CASE Next
    BY <1>1, <1>3 DEF Next, UploadsStep, CsvStep, TenancyStep, ProvisioningStep, RecoveryStep, EdgeStep, GatesStep
  <1>4. QED
    BY <1>2, <1>3

LEMMA ScreenMeans == TabInv => W!ScreenIsTrue
  <1>1. ASSUME TabInv, ~overtaken PROVE W!NothingStays
    BY <1>1 DEF TabInv, Gone, W!NothingStays
  <1>2. ASSUME TabInv, ~overtaken, ~unlocked PROVE W!PagesJoin
    <2>1. TabTyped /\ HeldSound(evidence, evidenceMore, outOf)
      BY <1>2 DEF TabInv
    <2>2. ASSUME Alone(evidence, outOf), NEW i \in 1 .. Len(evidence)
          PROVE  /\ i \in DOMAIN W!Visible(evidence[i].by.role)
                 /\ evidence[i].id = W!Visible(evidence[i].by.role)[i]
                 /\ evidence[i].current = W!Newest(evidence, i)
                 /\ evidenceMore = (Len(evidence) < outOf.total)
      <3>1. evidence[i].by = outOf.by
        BY <2>2 DEF Alone
      <3>2. PICK view \in Seq(Nat) : view = W!Visible(outOf.by.role)
        BY <2>1, VisibleRows DEF TabTyped
      <3>3. Len(evidence) <= outOf.total /\ outOf.total <= Len(view) /\ outOf.total \in Nat /\ Len(evidence) \in Nat
        BY <2>1, <2>2, <3>2 DEF HeldSound, TabTyped
      <3>4. i \in DOMAIN view
        BY <3>2, <3>3
      <3>5. QED
        BY <2>1, <2>2, <3>1, <3>2, <3>4 DEF HeldSound
    <2>3. QED
      BY <2>2 DEF W!PagesJoin, Alone
  <1>3. QED
    BY <1>1, <1>2 DEF W!ScreenIsTrue

(* Whatever the server answers and in whatever order the answers land      *)
(* (WorkbenchApp, appendPage, withCurrency), the rows held under one       *)
(* credential are the first rows it may see, none missing and none twice,  *)
(* each as current as the rows held make it, and rows are said to remain   *)
(* exactly if some did, until a catalogue button's answer has unlocked the *)
(* controls while rows were asked for (unlocked); and nothing stays after  *)
(* a sign-out, unless one ended with an operation under way (overtaken).   *)
THEOREM ScreenStaysTrue == Spec => []ScreenIsTrue
  <1>1. Init => TabInv
    BY TabStarts DEF Init
  <1>2. TabInv /\ [Next]_vars => TabInv'
    BY WorkbenchWithin, TabHolds
  <1>3. TabInv => ScreenIsTrue
    BY ScreenMeans DEF ScreenIsTrue
  <1>4. QED
    BY <1>1, <1>2, <1>3, PTL DEF Spec
=============================================================================

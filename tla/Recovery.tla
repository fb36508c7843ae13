------------------------------- MODULE Recovery -------------------------------
(***************************************************************************)
(* The rehearsal of backup, restore, forward smoke and rollback with two   *)
(* tenants.  A deployment is its database and its evidence directory.      *)
(* Any step may damage what it copies or starts; the rehearsal knows a     *)
(* deployment only by what it asks of it, and what matters is whether what *)
(* it reports can be believed.                                             *)
(***************************************************************************)
EXTENDS Naturals, FiniteSets

CONSTANTS
    A, B,          \* the tenants, of unequal size
    MaxDamages     \* how much may go wrong

VARIABLES
    at,            \* the step the rehearsal has come to
    live,          \* the deployment that runs
    backup,        \* the snapshot
    before,        \* the state taken before the backup
    damages,       \* what went wrong: [step, kind]
    up,            \* what runs: "cluster", "app"
    report         \* NONE until the end, then PASS or FAIL

recoveryVars == <<at, live, backup, before, damages, up, report>>

T == {A, B}
NoState == [rows |-> {}, jobs |-> {}, audited |-> {}]
Nothing == [rows |-> [t \in T |-> 0], files |-> [t \in T |-> "none"], jobs |-> [t \in T |-> "none"],
            genesis |-> [t \in T |-> TRUE], valid |-> [t \in T |-> TRUE], sessions |-> FALSE,
            hidden |-> TRUE, candidate |-> FALSE, values |-> "intact"]
RecoveryAssumption == A # B /\ MaxDamages \in Nat

Goto(step) == at' = step
(* What a step turns a deployment into: what it should, or, damaged, any   *)
(* of these.  `values` is what the rows say beyond what the questions ask: *)
(* the fields of a row that is only counted, the rows of a table that      *)
(* nobody counts.                                                          *)
DataDamages(d) ==
    [merged |-> [d EXCEPT !.rows = [t \in T |-> IF t = A THEN d.rows[A] + d.rows[B] ELSE 0]],
     swapped |-> [d EXCEPT !.rows = [t \in T |-> IF t = A THEN d.rows[B] ELSE d.rows[A]]],
     lostRows |-> [d EXCEPT !.rows[B] = 0],
     lostJob |-> [d EXCEPT !.jobs[B] = "none"],
     chain |-> [d EXCEPT !.valid[B] = FALSE],
     sessions |-> [d EXCEPT !.sessions = FALSE],
     unhidden |-> [d EXCEPT !.hidden = FALSE],
     values |-> [d EXCEPT !.values = "altered"]]
FileDamages(d) ==
    [lostFile |-> [d EXCEPT !.files[B] = "none"],
     altered |-> [d EXCEPT !.files[B] = "altered"]]

(* What a step makes of a deployment: it and the damages so far.           *)
Made(step, d, kinds) ==
    {[of |-> d, damages |-> damages]}
    \cup (IF Cardinality(damages) = MaxDamages THEN {}
          ELSE {[of |-> kinds[k], damages |-> damages \cup {[step |-> step, kind |-> k]}] :
                    k \in {k \in DOMAIN kinds : kinds[k] # d}})
Copied(step, d) == Made(step, d, DataDamages(d)) \cup Made(step, d, FileDamages(d))

-----------------------------------------------------------------------------
(* What can be asked of a deployment.  The state breaks its counts down by *)
(* tenant: totals cannot tell two tenants from one.                        *)

StateInTotals(d) == [rows |-> {<<A, d.rows[A] + d.rows[B]>>},
                     jobs |-> {t \in T : d.jobs[t] # "none"}, audited |-> {}]
State(d) == [rows |-> {<<t, d.rows[t]>> : t \in T},
             jobs |-> {t \in T : d.jobs[t] # "none"},
             audited |-> IF d.candidate THEN T ELSE {}]      \* the events of the forward smoke
Hidden(d) == d.hidden                                        \* without a tenant nothing is visible
Verifies(d, t) == d.valid[t] /\ (t = B => d.sessions)        \* with a session from before the backup
Pending(d) == {t \in T : d.jobs[t] = "pending"}
Stored(d) == \A t \in T : d.files[t] # "none"
Scannable(d, t) == d.jobs[t] = "pending" /\ d.files[t] = "intact"

Source == [Nothing EXCEPT !.rows = [t \in T |-> IF t = A THEN 2 ELSE 1], !.jobs = [t \in T |-> "pending"]]
Expected == State(Source)

-----------------------------------------------------------------------------
(* The source.                                                             *)

StartSource ==
    /\ at = "start"
    /\ up' = {"cluster", "app"}
    /\ live' = [Nothing EXCEPT !.rows[A] = 2, !.files[A] = "intact", !.jobs[A] = "pending"]
    /\ Goto("one tenant")
    /\ UNCHANGED <<backup, before, damages, report>>

SecondTenant ==
    /\ at = "one tenant"
    /\ LET both == [live EXCEPT !.rows[B] = 1, !.files[B] = "intact", !.jobs[B] = "pending", !.sessions = TRUE]
       IN \E made \in Made("second tenant", both, [linked |-> [both EXCEPT !.genesis[B] = FALSE]]) :
              live' = made.of /\ damages' = made.damages
    /\ Goto("two tenants")
    /\ UNCHANGED <<backup, before, up, report>>

AuditRecord ==
    /\ at = "two tenants"
    /\ live.genesis[B] /\ Verifies(live, A) /\ Verifies(live, B)
    /\ Goto("audited")
    /\ UNCHANGED <<live, backup, before, damages, up, report>>

StateBefore ==
    /\ at = "audited"
    /\ Hidden(live) /\ State(live) = Expected
    /\ before' = State(live)
    /\ Goto("measured")
    /\ UNCHANGED <<live, backup, damages, up, report>>

StopSource ==
    /\ at = "measured"
    /\ up' = {} /\ Goto("stopped")
    /\ UNCHANGED <<live, backup, before, damages, report>>

Backup ==
    /\ at = "stopped"
    /\ \E made \in Copied("backup", live) : backup' = made.of /\ damages' = made.damages
    /\ Goto("backed up")
    /\ UNCHANGED <<live, before, up, report>>

-----------------------------------------------------------------------------
(* Restore.  The manifests compare the copy with the snapshot; only what   *)
(* is asked of it afterwards compares it with the source.                  *)

Restore ==
    /\ at = "backed up"
    /\ \E made \in Copied("restore", backup) : live' = made.of /\ damages' = made.damages
    /\ Goto("copied")
    /\ UNCHANGED <<backup, before, up, report>>

Manifests ==
    /\ at = "copied" /\ live = backup
    /\ up' = {"cluster", "app"}
    /\ Goto("restored")
    /\ UNCHANGED <<live, backup, before, damages, report>>

CheckRestore ==
    /\ at = "restored"
    /\ Verifies(live, A) /\ Hidden(live) /\ State(live) = before
    /\ Goto("tenants")
    /\ UNCHANGED <<live, backup, before, damages, up, report>>

(* Each tenant sees its rows and none of the other's, its record verifies  *)
(* as before, and its file is filed under it.  One tenant's credential     *)
(* asks for a row of the other's at an address that no route answers: that *)
(* it is not found says nothing, whatever a request could reach.           *)
CheckTenants ==
    /\ at = "tenants"
    /\ \/ UNCHANGED damages
       \/ /\ Cardinality(damages) < MaxDamages
          /\ damages' = damages \cup {[step |-> "request", kind |-> "across"]}
    /\ IF ~Verifies(live, B) \/ ~Stored(live)
       THEN Goto("failed") ELSE Goto("guard")
    /\ UNCHANGED <<live, backup, before, up, report>>

CheckGuard ==            \* a worker must refuse to start here
    /\ at = "guard"
    /\ \/ Goto("queues") /\ UNCHANGED damages
       \/ /\ Cardinality(damages) < MaxDamages
          /\ damages' = damages \cup {[step |-> "guard", kind |-> "started"]}
          /\ Goto("failed")
    /\ UNCHANGED <<live, backup, before, up, report>>

(* The worker of a tenant may take the job of the other: then it, or the   *)
(* other, finds too many jobs or none.                                     *)
Claimable(d, t) == {t} \cap Pending(d)
WorkerOfA ==
    /\ at = "queues" /\ Pending(live) = T
    /\ \E taken \in {Claimable(live, A), Pending(live)} :
         /\ taken = Claimable(live, A) \/ Cardinality(damages) < MaxDamages
         /\ damages' = IF taken = Claimable(live, A) THEN damages
                       ELSE damages \cup {[step |-> "worker", kind |-> "reached across"]}
         /\ IF \A t \in taken : Scannable(live, t)
            THEN /\ live' = [live EXCEPT !.jobs = [t \in T |-> IF t \in taken THEN "completed" ELSE @[t]]]
                 /\ Goto("worker of B")
            ELSE Goto("failed") /\ UNCHANGED live
    /\ UNCHANGED <<backup, before, up, report>>
WorkerOfB ==
    /\ at = "worker of B" /\ Pending(live) = {B} /\ Scannable(live, B)
    /\ live' = [live EXCEPT !.jobs[B] = "completed"]
    /\ Goto("smoke")
    /\ UNCHANGED <<backup, before, damages, up, report>>

ForwardSmoke ==          \* migrations again, then an assessment
    /\ at = "smoke"
    /\ live' = [live EXCEPT !.candidate = TRUE]
    /\ \/ Goto("smoked") /\ UNCHANGED damages
       \/ /\ Cardinality(damages) < MaxDamages
          /\ damages' = damages \cup {[step |-> "migrate", kind |-> "not idempotent"]}
          /\ Goto("failed")
    /\ UNCHANGED <<backup, before, up, report>>

StopCandidate ==
    /\ at = "smoked"
    /\ up' = {} /\ Goto("candidate stopped")
    /\ UNCHANGED <<live, backup, before, damages, report>>

-----------------------------------------------------------------------------
(* Rollback: what the candidate did is gone.                               *)

RollbackInPlace ==
    /\ at = "candidate stopped"
    /\ UNCHANGED <<live, damages>>
    /\ up' = {"cluster", "app"} /\ Goto("rolled back")
    /\ UNCHANGED <<backup, before, report>>
Rollback ==
    /\ at = "candidate stopped"
    /\ \E made \in Copied("rollback", backup) : live' = made.of /\ damages' = made.damages
    /\ up' = {"cluster", "app"} /\ Goto("rolled back")
    /\ UNCHANGED <<backup, before, report>>

CheckRollback ==
    /\ at = "rolled back"
    /\ Verifies(live, A) /\ Verifies(live, B) /\ Hidden(live)
    /\ State(live) = before /\ Pending(live) = T
    /\ Goto("passed")
    /\ UNCHANGED <<live, backup, before, damages, up, report>>

(* Whatever an assertion or a call throws ends in the report of a failure, *)
(* a start or a stop half done; what still runs is asked to stop, and a    *)
(* stop that fails is passed over.                                         *)
Throws ==
    /\ at \notin {"failed", "passed", "over"}
    /\ up' \in IF at \in {"start", "measured", "copied", "smoked", "candidate stopped"}
              THEN SUBSET {"cluster", "app"} ELSE {up}
    /\ Goto("failed")
    /\ UNCHANGED <<live, backup, before, damages, report>>
Finally ==
    /\ at \in {"failed", "passed"}
    /\ report' = IF at = "passed" THEN "PASS" ELSE "FAIL"
    /\ up' \in SUBSET up /\ Goto("over")
    /\ UNCHANGED <<live, backup, before, damages>>

-----------------------------------------------------------------------------
Init ==
    /\ at = "start" /\ live = Nothing /\ backup = Nothing /\ before = NoState
    /\ damages = {} /\ up = {} /\ report = "NONE"

Next ==
    \/ StartSource \/ SecondTenant \/ AuditRecord \/ StateBefore \/ StopSource \/ Backup \/ Restore
    \/ Manifests \/ CheckRestore \/ CheckTenants \/ CheckGuard \/ WorkerOfA \/ WorkerOfB
    \/ ForwardSmoke \/ StopCandidate \/ Rollback \/ CheckRollback \/ Throws \/ Finally

Spec == Init /\ [][Next]_recoveryVars

-----------------------------------------------------------------------------
(* A PASS can be believed as far as the rehearsal looks: of what was       *)
(* damaged on the way it has noticed all but four things.  Values that no  *)
(* count shows may have been altered in the snapshot, which is compared    *)
(* with nothing but its own copies, or in the rolled-back copy, whose      *)
(* manifest is not taken; so may the files of that copy; and a request     *)
(* may reach across tenants, which nothing asks.  Nothing is refused that  *)
(* is sound: undamaged, the rehearsal can take its next step wherever it   *)
(* is.  And each copy is made, and compared, while neither the cluster nor *)
(* the application runs, whatever was started and stopped before.          *)
Unnoticed == {[step |-> "backup", kind |-> "values"], [step |-> "request", kind |-> "across"]}
             \cup {[step |-> "rollback", kind |-> k] : k \in {"values", "lostFile", "altered"}}
AtRest == at \in {"stopped", "backed up", "copied", "candidate stopped"}
Checks == CASE at = "two tenants" -> live.genesis[B] /\ Verifies(live, A) /\ Verifies(live, B)
            [] at = "audited" -> Hidden(live) /\ State(live) = Expected
            [] at = "copied" -> live = backup
            [] at = "restored" -> Verifies(live, A) /\ Hidden(live) /\ State(live) = before
            [] at = "queues" -> Pending(live) = T
            [] at = "worker of B" -> Pending(live) = {B} /\ Scannable(live, B)
            [] at = "rolled back" -> /\ Verifies(live, A) /\ Verifies(live, B) /\ Hidden(live)
                                     /\ State(live) = before /\ Pending(live) = T
            [] OTHER -> TRUE
PassIsEarned ==
    /\ report = "PASS" => damages \subseteq Unnoticed
    /\ damages = {} => Checks
    /\ AtRest => up = {}
=============================================================================

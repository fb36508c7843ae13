---------------------------- MODULE ReviewFreeze ----------------------------
(***************************************************************************)
(* What a frozen review says, and who may write while it is being frozen:  *)
(* the assessment runs and the gaps of assessment-service.mjs, the freeze  *)
(* of dossier-service.mjs, and the imports and evidence reviews that do    *)
(* not take the review lock.                                               *)
(*                                                                         *)
(* Every transaction is READ COMMITTED: each statement of a long one sees  *)
(* what is committed when it runs, so the run and the freeze are a step    *)
(* per statement.  Their writes appear at their commit.  Assigning and     *)
(* remediating a gap read and write one row each under the lock: one step. *)
(*                                                                         *)
(* One rule is in force.  It requires one type of evidence, which the      *)
(* packagings' supplier provides, and makes one check of the content; a    *)
(* check that is not evaluated for want of evidence is not reported.       *)
(***************************************************************************)
EXTENDS FiniteSets

CONSTANT Packaging

Checks == {"evidence", "content"}
Statuses == {"absent", "open", "assigned", "remediated", "reopened", "closed"}

VARIABLES
    imported,    \* packaging rows
    sound,       \* the packagings whose content satisfies the rule
    accepted,    \* whether there is clean, accepted evidence
    assessed,    \* its completed assessment, of a packaging that has one
    gaps, owned, \* per packaging and check, the gap's status and owner
    lock,        \* who holds review-freeze:<tenant>
    run,         \* the assessment run in progress
    freeze       \* the freeze in progress and what it read so far

live == <<imported, sound, accepted>>
review == <<assessed, gaps, owned>>
vars == <<live, review, lock, run, freeze>>

NoRun == [todo |-> {}, sound |-> {}, made |-> <<>>]
Fresh(at) == [at |-> at, assessed |-> <<>>, accepted |-> FALSE, gaps |-> <<>>,
              imported |-> {}, sound |-> {}]

(* An assessment is what it saw; the outcome and the failures follow.      *)
Passes(a) == a.accepted /\ a.sound
Failures(a) == IF ~a.accepted THEN {"evidence"}
               ELSE IF ~a.sound THEN {"content"} ELSE {}

Over(f, g) == [x \in DOMAIN f \cup DOMAIN g |-> IF x \in DOMAIN f THEN f[x] ELSE g[x]]

Blocking(g) == {x \in Packaging \X Checks : g[x[1]][x[2]] \notin {"absent", "closed"}}

-----------------------------------------------------------------------------
(* Mutated form of Synchronize: a closed gap that fails again stays closed.*)
SynchronizeOnce(gap, a) ==
    [c \in Checks |->
        IF c \in Failures(a)
        THEN CASE gap[c] = "absent" -> "open"
               [] gap[c] = "remediated" -> "reopened"
               [] OTHER -> gap[c]
        ELSE IF gap[c] = "absent" THEN "absent" ELSE "closed"]

(* synchronizeGaps: what fails has a gap that is not closed, what does not *)
(* fail has none that is not.                                              *)
Synchronize(gap, a) ==
    [c \in Checks |->
        IF c \in Failures(a)
        THEN CASE gap[c] = "absent" -> "open"
               [] gap[c] \in {"closed", "remediated"} -> "reopened"
               [] OTHER -> gap[c]
        ELSE IF gap[c] = "absent" THEN "absent" ELSE "closed"]

(* runAssessments takes the lock and reads the packagings it was asked for.*)
RunStart ==
    /\ lock = "free" /\ run = NoRun
    /\ lock' = "run"
    /\ \E asked \in (SUBSET imported) \ {{}} :
           run' = [todo |-> asked, sound |-> sound, made |-> <<>>]
    /\ UNCHANGED <<live, review, freeze>>

(* One packaging: its evidence as it is now, its content as it was read.   *)
Evaluate(p) ==
    /\ p \in run.todo
    /\ LET made == [q \in {p} |-> [accepted |-> accepted, sound |-> p \in run.sound]]
       IN run' = [run EXCEPT !.todo = @ \ {p}, !.made = Over(made, @)]
    /\ UNCHANGED <<live, review, lock, freeze>>

RunCommit ==
    /\ run.todo = {} /\ run # NoRun
    /\ assessed' = Over(run.made, assessed)
    /\ gaps' = [p \in Packaging |-> IF p \in DOMAIN run.made THEN Synchronize(gaps[p], run.made[p])
                                                            ELSE gaps[p]]
    /\ run' = NoRun
    /\ lock' = IF lock = "run" THEN "free" ELSE lock
    /\ UNCHANGED <<live, owned, freeze>>

(* Its deadline, its connection or the process ends it.                    *)
RunAbort ==
    /\ run # NoRun
    /\ run' = NoRun
    /\ lock' = "free"
    /\ UNCHANGED <<live, review, freeze>>

-----------------------------------------------------------------------------
(* Mutated form of Assign: without the lock.                               *)
AssignUnlocked(p, c) ==
    /\ gaps[p][c] # "absent"
    /\ gaps' = [gaps EXCEPT ![p][c] = "assigned"]
    /\ owned' = owned \cup {<<p, c>>}
    /\ UNCHANGED <<live, assessed, lock, run, freeze>>

(* assignGap: any gap, a closed one too, gets an owner and is outstanding. *)
Assign(p, c) ==
    /\ lock = "free"
    /\ gaps[p][c] # "absent"
    /\ gaps' = [gaps EXCEPT ![p][c] = "assigned"]
    /\ owned' = owned \cup {<<p, c>>}
    /\ UNCHANGED <<live, assessed, lock, run, freeze>>

(* Mutated form of Remediate: the status of a closed gap is left alone.    *)
RemediateClosed(p, c) ==
    /\ lock = "free"
    /\ <<p, c>> \in owned
    /\ sound' \in {sound, sound \cup {p}, sound \ {p}}
    /\ gaps' = [gaps EXCEPT ![p][c] = IF @ = "closed" THEN @ ELSE "remediated"]
    /\ UNCHANGED <<imported, accepted, assessed, owned, lock, run, freeze>>

(* remediateGap: the patch may change the content either way.              *)
Remediate(p, c) ==
    /\ lock = "free"
    /\ <<p, c>> \in owned
    /\ sound' \in {sound, sound \cup {p}, sound \ {p}}
    /\ gaps' = [gaps EXCEPT ![p][c] = "remediated"]
    /\ UNCHANGED <<imported, accepted, assessed, owned, lock, run, freeze>>

(* executeImport inserts a packaging that is not there; no lock.           *)
Import(p) ==
    /\ p \notin imported
    /\ imported' = imported \cup {p}
    /\ UNCHANGED <<sound, accepted, review, lock, run, freeze>>

(* reviewEvidence; no lock.                                                *)
Review ==
    /\ accepted' = ~accepted
    /\ UNCHANGED <<imported, sound, review, lock, run, freeze>>

-----------------------------------------------------------------------------
(* Mutated form of FreezeStart: the freeze takes no lock.                  *)
FreezeStartUnlocked ==
    /\ freeze.at = "idle"
    /\ Blocking(gaps) = {}
    /\ freeze' = Fresh("readiness")
    /\ UNCHANGED <<live, review, lock, run>>

(* freezeReviewSnapshot takes the lock and finds no outstanding gap.       *)
FreezeStart ==
    /\ lock = "free" /\ freeze.at = "idle"
    /\ Blocking(gaps) = {}
    /\ lock' = "freeze"
    /\ freeze' = Fresh("readiness")
    /\ UNCHANGED <<live, review, run>>

(* The counts agree and nothing current fails.                             *)
CheckReadiness ==
    /\ freeze.at = "readiness"
    /\ imported # {}
    /\ Cardinality(DOMAIN assessed) = Cardinality(imported)
    /\ \A p \in DOMAIN assessed : Passes(assessed[p])
    /\ freeze' = [freeze EXCEPT !.at = "assessments"]
    /\ UNCHANGED <<live, review, lock, run>>

ReadAssessments ==
    /\ freeze.at = "assessments"
    /\ freeze' = [freeze EXCEPT !.at = "evidence", !.assessed = assessed]
    /\ UNCHANGED <<live, review, lock, run>>

ReadEvidence ==
    /\ freeze.at = "evidence"
    /\ freeze' = [freeze EXCEPT !.at = "gaps", !.accepted = accepted]
    /\ UNCHANGED <<live, review, lock, run>>

ReadGaps ==
    /\ freeze.at = "gaps"
    /\ freeze' = [freeze EXCEPT !.at = "packaging", !.gaps = gaps]
    /\ UNCHANGED <<live, review, lock, run>>

(* packagingSnapshot, which runs after the audit chain was verified.       *)
ReadPackaging ==
    /\ freeze.at = "packaging"
    /\ freeze' = [freeze EXCEPT !.at = "recheck", !.imported = imported, !.sound = sound]
    /\ UNCHANGED <<live, review, lock, run>>

Recheck ==
    /\ freeze.at = "recheck"
    /\ Blocking(gaps) = {}
    /\ freeze' = [freeze EXCEPT !.at = "commit"]
    /\ UNCHANGED <<live, review, lock, run>>

(* The snapshot is immutable from here on; the model lets go of it.        *)
FreezeCommit ==
    /\ freeze.at = "commit"
    /\ freeze' = Fresh("idle")
    /\ lock' = IF lock = "freeze" THEN "free" ELSE lock
    /\ UNCHANGED <<live, review, run>>

(* A check refuses the freeze, or its transaction dies.                    *)
FreezeAbort ==
    /\ freeze.at # "idle"
    /\ freeze' = Fresh("idle")
    /\ lock' = IF lock = "freeze" THEN "free" ELSE lock
    /\ UNCHANGED <<live, review, run>>

-----------------------------------------------------------------------------
Init ==
    /\ imported \in SUBSET Packaging
    /\ sound \in SUBSET Packaging
    /\ accepted \in BOOLEAN
    /\ assessed = <<>>
    /\ gaps = [p \in Packaging |-> [c \in Checks |-> "absent"]]
    /\ owned = {}
    /\ lock = "free"
    /\ run = NoRun
    /\ freeze = Fresh("idle")

Next ==
    \/ RunStart \/ RunCommit \/ RunAbort
    \/ \E p \in Packaging : Evaluate(p) \/ Import(p)
    \/ \E p \in Packaging, c \in Checks : Assign(p, c) \/ Remediate(p, c)
    \/ Review
    \/ FreezeStart \/ CheckReadiness \/ ReadAssessments \/ ReadEvidence \/ ReadGaps
    \/ ReadPackaging \/ Recheck \/ FreezeCommit \/ FreezeAbort

Spec == Init /\ [][Next]_vars

-----------------------------------------------------------------------------
(* Every variable has its type, and the lock has one holder at most.       *)
TypeOK ==
    /\ imported \subseteq Packaging /\ sound \subseteq Packaging
    /\ accepted \in BOOLEAN
    /\ DOMAIN assessed \subseteq imported
    /\ \A p \in DOMAIN assessed : assessed[p] \in [accepted : BOOLEAN, sound : BOOLEAN]
    /\ gaps \in [Packaging -> [Checks -> Statuses]]
    /\ owned \subseteq Packaging \X Checks
    /\ lock = "run" <=> run # NoRun
    /\ lock = "freeze" <=> freeze.at # "idle"
    /\ run.todo \subseteq imported /\ DOMAIN run.made \subseteq imported

(* What the snapshot row says when it is inserted is what it says for ever.*)
Frozen == freeze.at = "commit"

(* A frozen review is complete: every gap it shows is closed and every     *)
(* assessment it shows passes, although its statements each saw another    *)
(* committed state.                                                        *)
FrozenIsComplete ==
    Frozen => /\ Blocking(freeze.gaps) = {}
              /\ \A p \in DOMAIN freeze.assessed : Passes(freeze.assessed[p])

(* Nothing lands "after the freeze's final check and before its commit":   *)
(* what the snapshot says of gaps and assessments is what the database     *)
(* says when the snapshot commits.                                         *)
CurrentAtCommit ==
    Frozen => freeze.gaps = gaps /\ freeze.assessed = assessed

(* The frozen content of a packaging is the content its frozen assessment  *)
(* judged: no remediation gets between an assessment and its review.       *)
FrozenContentWasAssessed ==
    Frozen => \A p \in freeze.imported \cap DOMAIN freeze.assessed :
                  freeze.assessed[p].sound <=> p \in freeze.sound

(* Every check that the current assessment of a packaging failed has a gap *)
(* that is not closed, through any history of remediations and reruns.     *)
FailuresHaveGaps ==
    \A p \in DOMAIN assessed :
        \A c \in Failures(assessed[p]) : gaps[p][c] \notin {"absent", "closed"}

(* "Every packaging record needs a non-blocking current assessment": the   *)
(* packagings a snapshot lists are the ones it shows an assessment of.     *)
SnapshotCoversPackaging ==
    Frozen => freeze.imported \subseteq DOMAIN freeze.assessed
=============================================================================

---------------------------- MODULE ReviewProofs ----------------------------
(***************************************************************************)
(* Theorems about what a frozen review rests on: the evidence, its scan,   *)
(* its review and its deletion (EvidenceLifecycle), for every number of    *)
(* workers and stops, and the assessments, gaps and the freeze itself      *)
(* (ReviewFreeze), for every set of packagings.                            *)
(***************************************************************************)
EXTENDS MCRecords, TLAPS

-----------------------------------------------------------------------------
(* One piece of evidence.                                                  *)

Deleting == {"renew", "move", "remove", "inherited", "finish", "record"}
Scanning == {"scanning", "unreadable"}

(* Until its row exists, the file is where the upload has brought it, and  *)
(* nobody else does anything with it.                                      *)
UploadHasFile ==
    scan = "absent" =>
        /\ upload = "idle" => place = "nowhere"
        /\ upload = "streamed" => place = "temporary"
        /\ upload = "placed" => place = "quarantine"
        /\ upload = "failed" => place \in {"temporary", "quarantine"}
        /\ upload = "done" => place = "nowhere"
        /\ retention = "retained"
RowEndsUpload == scan # "absent" => upload = "done"

(* One worker at a time scans, and only a job that is to be scanned; the   *)
(* row shows a verdict exactly when the job is completed.                  *)
ScansOpenJob ==
    \A v, w \in Workers :
        /\ pc[w] \in Scanning => job \in {"pending", "failed"}
        /\ pc[v] \in Scanning /\ pc[w] \in Scanning => v = w
JobShowsScan ==
    /\ job \in {"pending", "failed", "dead"} => scan \in {"pending", "error"}
    /\ job \in {"absent", "pending", "failed"} => failures < Budget
    /\ scan = "clean" => ~malware

(* A row that says retained has no sweep at work, not even one that lost   *)
(* its claim; and the sweep that could put the file back and say so is the *)
(* only one, for a claim that was inherited is never given up.             *)
SweepIsAlone ==
    \A v, w \in Workers :
        /\ pc[w] \in Deleting => retention # "retained"
        /\ pc[w] \in {"renew", "move", "remove"} /\ owner = w /\ pc[v] \in Deleting => v = w

EvidenceInv ==
    /\ E!TypeOK /\ E!AcceptedIsClean /\ E!RowAndFileAgree
    /\ UploadHasFile /\ RowEndsUpload
    /\ ScansOpenJob /\ JobShowsScan
    /\ SweepIsAlone

LEMMA UploadStep ==
    ASSUME EvidenceInv, E!Uploading
    PROVE  EvidenceInv'
  <1> USE DEF EvidenceInv, E!TypeOK, E!AcceptedIsClean, E!RowAndFileAgree, UploadHasFile,
      RowEndsUpload, ScansOpenJob, JobShowsScan, SweepIsAlone, E!rowVars, E!jobVars, Scanning, Deleting
  <1>1. CASE E!Stream
    BY <1>1 DEF E!Stream
  <1>2. CASE E!Place
    BY <1>2 DEF E!Place
  <1>3. CASE E!Insert
    BY <1>3 DEF E!Insert, E!Recorded
  <1>4. CASE E!UploadFails
    BY <1>4 DEF E!UploadFails
  <1>5. CASE E!UploadCleans
    BY <1>5 DEF E!UploadCleans
  <1>6. QED
    BY <1>1, <1>2, <1>3, <1>4, <1>5 DEF E!Uploading

(* What a worker is about at most, unless it is w that moves.              *)
LEMMA OthersStand ==
    ASSUME E!TypeOK, NEW w \in Workers, NEW where, E!Goto(w, where)
    PROVE  pc' = [pc EXCEPT ![w] = where] /\ pc'[w] = where
           /\ \A v \in Workers \ {w} : pc'[v] = pc[v]
  BY DEF E!TypeOK, E!Goto

LEMMA ScanStep ==
    ASSUME EvidenceInv, NEW w \in Workers, E!Scanning(w)
    PROVE  EvidenceInv'
  <1> USE DEF EvidenceInv, E!TypeOK, E!AcceptedIsClean, E!RowAndFileAgree, UploadHasFile,
      RowEndsUpload, ScansOpenJob, JobShowsScan, SweepIsAlone, E!rowVars, E!jobVars, Scanning, Deleting
  <1>1. CASE E!StartScan(w)
    <2>1. E!Goto(w, IF place = "quarantine" THEN "scanning" ELSE "unreadable")
      BY <1>1 DEF E!StartScan
    <2>2. QED
      BY <1>1, <2>1, OthersStand DEF E!StartScan, E!Goto
  <1>2. CASE E!Verdict(w)
    BY <1>2, OthersStand DEF E!Verdict, E!Goto
  <1>3. CASE E!ScanFails(w)
    <2>1. failures' = failures + 1 /\ failures' \in 0 .. Budget
      BY <1>3, RecordsAssumption DEF E!ScanFails, E!LifecycleAssumption
    <2>2. /\ job \in {"pending", "failed"} /\ scan \in {"pending", "error"} /\ scan' = "error"
          /\ job' = "dead" \/ (job' = "failed" /\ failures' < Budget)
          /\ pc' = [pc EXCEPT ![w] = "poll"]
          /\ UNCHANGED <<upload, place, malware, aged, review, retention, owner, live, stops>>
      <3>1. pc[w] \in Scanning
        BY <1>3 DEF E!ScanFails
      <3>2. job \in {"pending", "failed"} /\ scan \in {"pending", "error"}
        BY <3>1
      <3>3. job' = "dead" \/ (job' = "failed" /\ failures' < Budget)
        <4>1. Budget \in Nat /\ failures' \in Nat
          BY <2>1, RecordsAssumption DEF E!LifecycleAssumption
        <4>2. CASE failures' >= Budget
          BY <1>3, <4>2 DEF E!ScanFails
        <4>3. CASE ~(failures' >= Budget)
          BY <1>3, <4>1, <4>3 DEF E!ScanFails
        <4>4. QED
          BY <4>2, <4>3
      <3>4. QED
        BY <1>3, <3>2, <3>3 DEF E!ScanFails, E!Goto
    <2>3. E!TypeOK'
      BY <2>1, <2>2
    <2>4. (ScansOpenJob /\ JobShowsScan /\ SweepIsAlone)'
      <3>1. \A v \in Workers : pc'[v] \in Scanning => pc[v] \in Scanning /\ v # w
        BY <2>2
      <3>2. ~ \E v \in Workers : pc'[v] \in Scanning
        BY <1>3, <3>1 DEF E!ScanFails
      <3>3. QED
        BY <2>2, <3>2
    <2>5. QED
      BY <2>2, <2>3, <2>4
  <1>4. QED
    BY <1>1, <1>2, <1>3 DEF E!Scanning

LEMMA ReviewStep ==
    ASSUME EvidenceInv, E!Requeue \/ E!Accept \/ E!Reject \/ E!Age
    PROVE  EvidenceInv'
  <1> USE DEF EvidenceInv, E!TypeOK, E!AcceptedIsClean, E!RowAndFileAgree, UploadHasFile,
      RowEndsUpload, ScansOpenJob, JobShowsScan, SweepIsAlone, E!rowVars, E!jobVars, Scanning, Deleting
  <1>1. CASE E!Requeue
    BY <1>1, RecordsAssumption DEF E!Requeue, E!LifecycleAssumption
  <1>2. CASE E!Accept
    BY <1>2 DEF E!Accept
  <1>3. CASE E!Reject
    BY <1>3 DEF E!Reject
  <1>4. CASE E!Age
    BY <1>4 DEF E!Age
  <1>5. QED
    BY <1>1, <1>2, <1>3, <1>4

LEMMA SweepStep ==
    ASSUME EvidenceInv, NEW w \in Workers, E!Sweeping(w)
    PROVE  EvidenceInv'
  <1> USE DEF EvidenceInv, E!TypeOK, E!AcceptedIsClean, E!RowAndFileAgree, UploadHasFile,
      RowEndsUpload, ScansOpenJob, JobShowsScan, SweepIsAlone, E!rowVars, E!jobVars, Scanning, Deleting
  <1>0. E!Nobody \notin Workers
    BY RecordsAssumption DEF E!LifecycleAssumption
  <1>1. CASE E!ClaimOld(w)
    BY <1>0, <1>1, OthersStand DEF E!ClaimOld, E!Goto
  <1>2. CASE E!Reclaim(w)
    BY <1>0, <1>2, OthersStand DEF E!Reclaim, E!Goto
  <1>3. CASE E!Renew(w)
    <2>1. E!Goto(w, IF E!Fenced(w) THEN "move" ELSE "poll")
      BY <1>3 DEF E!Renew
    <2>2. QED
      BY <1>3, <2>1, OthersStand DEF E!Renew, E!Goto
  <1>4. CASE E!Move(w)
    <2>1. E!Goto(w, IF pc[w] = "move" THEN "remove" ELSE "finish")
      BY <1>4 DEF E!Move
    <2>2. QED
      BY <1>4, <2>1, OthersStand DEF E!Move, E!Goto
  <1>5. CASE E!Remove(w)
    BY <1>5, OthersStand DEF E!Remove, E!Goto
  <1>6. CASE E!Record(w)
    <2>1. CASE E!Fenced(w)
      <3>1. /\ pc' = [pc EXCEPT ![w] = "poll"] /\ pc[w] = "record"
            /\ retention = "deleting" /\ retention' = "deleted"
            /\ owner' = E!Nobody /\ live' = FALSE
            /\ UNCHANGED <<upload, place, malware, aged, scan, review, job, failures, stops>>
        BY <1>6, <2>1 DEF E!Record, E!Unclaimed, E!Fenced, E!Goto
      <3>2. \A v \in Workers : pc'[v] = IF v = w THEN "poll" ELSE pc[v]
        BY <3>1
      <3>3. scan # "absent"
        BY <3>1
      <3>4. E!TypeOK'
        BY <1>0, <3>1
      <3>5. QED
        BY <1>0, <3>1, <3>2, <3>3, <3>4
    <2>2. CASE ~E!Fenced(w)
      BY <1>6, <2>2, OthersStand DEF E!Record, E!Goto
    <2>3. QED
      BY <2>1, <2>2
  <1>7. CASE E!SweepFails(w)
    <2>1. PICK restored \in {place} \cup {"quarantine"} :
             /\ restored = place \/ E!Restorable(w)
             /\ place' = restored
             /\ IF E!Fenced(w)
                THEN /\ retention' = IF E!Restorable(w) /\ restored = "quarantine"
                                     THEN "retained" ELSE "integrity_unknown"
                     /\ E!Unclaimed(w)
                ELSE E!Goto(w, "poll") /\ UNCHANGED <<retention, owner, live>>
      BY <1>7 DEF E!SweepFails
    <2>2. /\ pc' = [pc EXCEPT ![w] = "poll"] /\ pc[w] \in Deleting /\ retention # "retained"
          /\ UNCHANGED <<upload, malware, aged, scan, review, job, failures, stops>>
          /\ place' \in {place, "quarantine"}
      BY <1>7, <2>1, OthersStand DEF E!SweepFails, E!Unclaimed, E!Goto
    <2>3. \A v \in Workers : pc'[v] = IF v = w THEN "poll" ELSE pc[v]
      BY <2>2
    <2>4. scan # "absent"
      BY <2>2
    <2>5. CASE E!Fenced(w) /\ retention' = "retained"
      <3>1. /\ place' = "quarantine" /\ pc[w] \in {"move", "remove"} /\ owner = w
            /\ owner' = E!Nobody /\ live' = FALSE
        BY <2>1, <2>5 DEF E!Restorable, E!Unclaimed, E!Fenced
      <3>2. \A v \in Workers : pc'[v] \notin Deleting
        BY <2>3, <3>1
      <3>3. QED
        BY <1>0, <2>2, <2>3, <2>4, <2>5, <3>1, <3>2, ZenonT(60)
    <2>6. CASE E!Fenced(w) /\ retention' # "retained"
      <3>1. retention' = "integrity_unknown" /\ owner' = E!Nobody /\ live' = FALSE
        BY <2>1, <2>6 DEF E!Unclaimed
      <3>2. QED
        BY <1>0, <2>2, <2>3, <2>4, <3>1, ZenonT(60)
    <2>7. CASE ~E!Fenced(w)
      <3>1. UNCHANGED <<retention, owner, live>>
        BY <2>1, <2>7
      <3>2. QED
        BY <2>2, <2>3, <2>4, <3>1
    <2>8. QED
      BY <2>5, <2>6, <2>7
  <1>8. QED
    BY <1>1, <1>2, <1>3, <1>4, <1>5, <1>6, <1>7 DEF E!Sweeping

LEMMA StopStep ==
    ASSUME EvidenceInv, E!LeaseExpires \/ \E w \in Workers : E!Stop(w)
    PROVE  EvidenceInv'
  <1> USE DEF EvidenceInv, E!TypeOK, E!AcceptedIsClean, E!RowAndFileAgree, UploadHasFile,
      RowEndsUpload, ScansOpenJob, JobShowsScan, SweepIsAlone, E!rowVars, E!jobVars, Scanning, Deleting
  <1>0. MaxStops \in Nat
    BY RecordsAssumption DEF E!LifecycleAssumption
  <1>1. CASE E!LeaseExpires
    <2>1. live' = FALSE /\ stops' \in 0 .. MaxStops
      BY <1>0, <1>1 DEF E!LeaseExpires
    <2>2. UNCHANGED <<upload, place, malware, aged, scan, review, retention, owner, job, failures, pc>>
      BY <1>1 DEF E!LeaseExpires
    <2>3. E!TypeOK'
      BY <2>1, <2>2, ZenonT(60)
    <2>4. (UploadHasFile /\ RowEndsUpload /\ E!AcceptedIsClean /\ E!RowAndFileAgree)'
      BY <2>2
    <2>5. (ScansOpenJob /\ JobShowsScan)'
      BY <2>2
    <2>6. SweepIsAlone'
      BY <2>2
    <2>7. QED
      BY <2>3, <2>4, <2>5, <2>6
  <1>2. ASSUME NEW w \in Workers, E!Stop(w)
        PROVE  EvidenceInv'
    BY <1>0, <1>2, OthersStand DEF E!Stop, E!Goto
  <1>3. QED
    BY <1>1, <1>2

LEMMA EvidenceStep ==
    ASSUME EvidenceInv, [E!Next]_(E!vars)
    PROVE  EvidenceInv'
  <1>1. CASE UNCHANGED E!vars
    BY <1>1 DEF EvidenceInv, E!vars, E!rowVars, E!jobVars, E!TypeOK, E!AcceptedIsClean,
        E!RowAndFileAgree, UploadHasFile, RowEndsUpload, ScansOpenJob, JobShowsScan, SweepIsAlone
  <1>2. CASE E!Next
    BY <1>2, UploadStep, ScanStep, ReviewStep, SweepStep, StopStep DEF E!Next
  <1>3. QED
    BY <1>1, <1>2

LEMMA LifecycleWithin == [Next]_vars => [E!Next]_(E!vars)
  <1> SUFFICES ASSUME [Next]_vars PROVE [E!Next]_(E!vars)
    OBVIOUS
  <1>1. ASSUME UNCHANGED lifecycle PROVE UNCHANGED E!vars
    BY <1>1 DEF lifecycle, E!vars, E!rowVars, E!jobVars
  <1>2. CASE UNCHANGED vars
    BY <1>1, <1>2 DEF vars
  <1>3. CASE Next
    BY <1>1, <1>3 DEF Next, FreezingStep, TransactionsStep, DossierStep
  <1>4. QED
    BY <1>2, <1>3

LEMMA LifecycleRuns == Spec => E!Spec
  <1>1. Init => E!Init
    BY DEF Init
  <1>2. QED
    BY <1>1, LifecycleWithin, PTL DEF Spec, E!Spec

(* EvidenceLifecycle: whatever uploads, scans, requeues, reviews and       *)
(* sweeps do to a piece of evidence, in any order and with any number of   *)
(* workers that die or stall, accepted evidence was scanned and is clean,  *)
(* and a row that says retained has its file in the quarantine.            *)
THEOREM EvidenceStaysSound == Spec => []EvidenceIsSound
  <1>0. 0 \in 0 .. Budget /\ 0 \in 0 .. MaxStops
    BY RecordsAssumption DEF E!LifecycleAssumption
  <1>1. ASSUME E!Init
        PROVE  EvidenceInv
    <2>1. \A w \in Workers : pc[w] = "poll"
      BY <1>1 DEF E!Init
    <2>2. E!TypeOK
      BY <1>0, <1>1, RecordsAssumption DEF E!Init, E!TypeOK, E!LifecycleAssumption
    <2>3. failures < Budget
      BY <1>1, RecordsAssumption DEF E!Init, E!LifecycleAssumption
    <2>4. QED
      BY <1>1, <2>1, <2>2, <2>3 DEF E!Init, EvidenceInv, E!AcceptedIsClean, E!RowAndFileAgree,
          UploadHasFile, RowEndsUpload, ScansOpenJob, JobShowsScan, SweepIsAlone, Scanning, Deleting
  <1>2. EvidenceInv /\ [E!Next]_(E!vars) => EvidenceInv'
    BY EvidenceStep
  <1>3. EvidenceInv => EvidenceIsSound
    BY DEF EvidenceInv, EvidenceIsSound
  <1>4. QED
    BY <1>1, <1>2, <1>3, LifecycleRuns, PTL DEF E!Spec

-----------------------------------------------------------------------------
(* Assessments, gaps and the freeze.                                       *)

Judgement == [accepted : BOOLEAN, sound : BOOLEAN]
Closed(p) == \A c \in F!Checks : gaps[p][c] \in {"absent", "closed"}

(* The run in progress judged what it read, and what it read is what there *)
(* is, for nobody remediates while it has the lock.                        *)
RunTyped ==
    /\ run = [todo |-> run.todo, sound |-> run.sound, made |-> run.made]
    /\ \A p \in DOMAIN run.made : run.made[p] \in Judgement
RunJudges ==
    /\ run # F!NoRun => run.sound = sound /\ (run.todo # {} \/ DOMAIN run.made # {})
    /\ \A p \in DOMAIN run.made : run.made[p].sound <=> p \in sound

(* A remediation leaves a gap that is not closed: a packaging without one  *)
(* is as its assessment judged it.                                         *)
ClosedIsJudged ==
    \A p \in DOMAIN assessed : Closed(p) => (assessed[p].sound <=> p \in sound)

(* What the freeze has read is still so: all that it reads but the         *)
(* evidence and the packagings is written under the lock that it holds.    *)
FreezeTyped ==
    /\ freeze = [at |-> freeze.at, assessed |-> freeze.assessed, accepted |-> freeze.accepted,
                 gaps |-> freeze.gaps, imported |-> freeze.imported, sound |-> freeze.sound]
    /\ freeze.at \in {"idle", "readiness", "assessments", "evidence", "gaps", "packaging", "recheck",
                      "commit"}
FreezeIsCurrent ==
    /\ freeze.at # "idle" => F!Blocking(gaps) = {}
    /\ freeze.at \notin {"idle", "readiness"} =>
           \A p \in DOMAIN assessed : F!Passes(assessed[p])
    /\ freeze.at \notin {"idle", "readiness", "assessments"} => freeze.assessed = assessed
    /\ freeze.at \in {"packaging", "recheck", "commit"} => freeze.gaps = gaps
    /\ freeze.at \in {"recheck", "commit"} => freeze.sound = sound

FreezeInv ==
    /\ F!TypeOK /\ F!FailuresHaveGaps
    /\ RunTyped /\ RunJudges
    /\ ClosedIsJudged
    /\ FreezeTyped /\ FreezeIsCurrent

(* A gap status is known by its name, and one that blocks is not closed.   *)
LEMMA NoGapIsClosed ==
    ASSUME F!Blocking(gaps) = {}
    PROVE  \A p \in Packaging : Closed(p)
  <1> SUFFICES ASSUME NEW p \in Packaging, NEW c \in F!Checks
               PROVE  gaps[p][c] \in {"absent", "closed"}
    BY DEF Closed
  <1>1. <<p, c>> \in Packaging \X F!Checks /\ <<p, c>>[1] = p /\ <<p, c>>[2] = c
    OBVIOUS
  <1>2. QED
    BY <1>1 DEF F!Blocking

(* After a commit every check that failed is outstanding.                  *)
LEMMA SynchronizeOpens ==
    ASSUME NEW gap \in [F!Checks -> F!Statuses], NEW a
    PROVE  /\ F!Synchronize(gap, a) \in [F!Checks -> F!Statuses]
           /\ \A c \in F!Failures(a) : c \in F!Checks /\ F!Synchronize(gap, a)[c] \notin {"absent", "closed"}
  <1>1. F!Failures(a) \subseteq F!Checks
    BY DEF F!Failures, F!Checks
  <1>2. QED
    BY <1>1 DEF F!Synchronize, F!Statuses

LEMMA RunStep ==
    ASSUME FreezeInv, F!RunStart \/ F!RunAbort \/ \E p \in Packaging : F!Evaluate(p)
    PROVE  FreezeInv'
  <1> USE DEF FreezeInv, F!TypeOK, F!FailuresHaveGaps, RunTyped, RunJudges, ClosedIsJudged, Closed,
      FreezeTyped, FreezeIsCurrent, F!live, F!review, F!NoRun
  <1>0. DOMAIN <<>> = {}
    OBVIOUS
  <1>1. CASE F!RunStart
    BY <1>0, <1>1 DEF F!RunStart
  <1>2. CASE F!RunAbort
    BY <1>0, <1>2 DEF F!RunAbort
  <1>3. ASSUME NEW p \in Packaging, F!Evaluate(p)
        PROVE  FreezeInv'
    <2> DEFINE one == [q \in {p} |-> [accepted |-> accepted, sound |-> p \in run.sound]]
               made == F!Over(one, run.made)
    <2>1. /\ p \in run.todo
          /\ run' = [todo |-> run.todo \ {p}, sound |-> run.sound, made |-> made]
          /\ UNCHANGED <<imported, sound, accepted, assessed, gaps, owned, lock, freeze>>
      BY <1>3 DEF F!Evaluate
    <2>2. /\ DOMAIN made = DOMAIN run.made \cup {p}
          /\ \A q \in DOMAIN run.made : q # p => made[q] = run.made[q]
          /\ made[p] \in Judgement /\ (made[p].sound <=> p \in run.sound)
      <3>1. one[p] = [accepted |-> accepted, sound |-> p \in run.sound] /\ DOMAIN one = {p}
        OBVIOUS
      <3>2. accepted \in BOOLEAN /\ (p \in run.sound) \in BOOLEAN
        OBVIOUS
      <3>3. one[p] \in Judgement /\ (one[p].sound <=> p \in run.sound)
        BY <3>1, <3>2 DEF Judgement
      <3>4. /\ DOMAIN made = DOMAIN run.made \cup {p}
            /\ \A q \in DOMAIN run.made : q # p => made[q] = run.made[q]
            /\ made[p] = one[p]
        BY <3>1 DEF F!Over
      <3>5. QED
        BY <3>3, <3>4
    <2> HIDE DEF made
    <2>3. run.sound = sound /\ run # F!NoRun
      BY <1>0, <2>1
    <2>8. run'.made = made /\ run'.todo = run.todo \ {p} /\ run' # F!NoRun
      BY <1>0, <2>1, <2>2
    <2>4. (RunTyped /\ RunJudges)'
      BY <2>1, <2>2, <2>3
    <2>5. F!TypeOK'
      BY <2>1, <2>2, <2>3, <2>8
    <2>6. (F!FailuresHaveGaps /\ ClosedIsJudged /\ FreezeTyped /\ FreezeIsCurrent)'
      BY <2>1 DEF F!Blocking, F!Passes
    <2>7. QED
      BY <2>4, <2>5, <2>6
  <1>4. QED
    BY <1>1, <1>2, <1>3

LEMMA RunCommitStep ==
    ASSUME FreezeInv, F!RunCommit
    PROVE  FreezeInv'
  <1> USE DEF FreezeInv, F!TypeOK, RunTyped, RunJudges, FreezeTyped, F!live, F!review
  <1>0. DOMAIN <<>> = {}
    OBVIOUS
  <1>1. /\ run # F!NoRun /\ lock = "run" /\ lock' = "free" /\ run' = F!NoRun
        /\ freeze.at = "idle" /\ freeze' = freeze
        /\ UNCHANGED <<imported, sound, accepted, owned>>
        /\ assessed' = F!Over(run.made, assessed)
        /\ gaps' = [p \in Packaging |-> IF p \in DOMAIN run.made
                                        THEN F!Synchronize(gaps[p], run.made[p]) ELSE gaps[p]]
    BY DEF F!RunCommit
  <1>2. /\ DOMAIN assessed' = DOMAIN run.made \cup DOMAIN assessed
        /\ \A p \in DOMAIN assessed' :
               assessed'[p] = IF p \in DOMAIN run.made THEN run.made[p] ELSE assessed[p]
    BY <1>1 DEF F!Over
  <1>3. \A p \in Packaging : gaps[p] \in [F!Checks -> F!Statuses]
    OBVIOUS
  <1>4. gaps' \in [Packaging -> [F!Checks -> F!Statuses]]
    BY <1>1, <1>3, SynchronizeOpens
  <1>5. F!TypeOK'
    BY <1>0, <1>1, <1>2, <1>4 DEF F!NoRun, Judgement
  <1>6. ASSUME NEW p \in DOMAIN assessed'
        PROVE  /\ \A c \in F!Failures(assessed'[p]) : gaps'[p][c] \notin {"absent", "closed"}
               /\ Closed(p)' => (assessed'[p].sound <=> p \in sound')
    <2>0. p \in Packaging
      BY <1>2, <1>6
    <2>1. CASE p \in DOMAIN run.made
      BY <1>1, <1>2, <1>3, <1>6, <2>0, <2>1, SynchronizeOpens
    <2>2. CASE p \notin DOMAIN run.made
      <3>1. p \in DOMAIN assessed /\ assessed'[p] = assessed[p] /\ gaps'[p] = gaps[p]
        BY <1>1, <1>2, <1>6, <2>0, <2>2
      <3>2. QED
        BY <1>1, <3>1 DEF F!FailuresHaveGaps, ClosedIsJudged, Closed
    <2>3. QED
      BY <2>1, <2>2
  <1>7. (RunTyped /\ RunJudges)'
    BY <1>0, <1>1 DEF F!NoRun
  <1>8. (FreezeTyped /\ FreezeIsCurrent)'
    BY <1>1 DEF FreezeIsCurrent
  <1>9. QED
    BY <1>5, <1>6, <1>7, <1>8 DEF F!FailuresHaveGaps, ClosedIsJudged

(* Assigning and remediating need the lock and open a gap; an import and a *)
(* review of evidence need no lock and touch nothing the freeze rests on.  *)
LEMMA OneRowStep ==
    ASSUME FreezeInv,
           \/ \E p \in Packaging, c \in F!Checks : F!Assign(p, c) \/ F!Remediate(p, c)
           \/ \E p \in Packaging : F!Import(p)
           \/ F!Review
    PROVE  FreezeInv'
  <1> USE DEF FreezeInv, F!TypeOK, F!FailuresHaveGaps, RunTyped, RunJudges, ClosedIsJudged, Closed,
      FreezeTyped, FreezeIsCurrent, F!live, F!review
  <1>0. DOMAIN <<>> = {}
    OBVIOUS
  <1>1. ASSUME NEW p \in Packaging, NEW c \in F!Checks, F!Assign(p, c) \/ F!Remediate(p, c)
        PROVE  FreezeInv'
    <2>1. /\ lock = "free" /\ run = F!NoRun /\ freeze.at = "idle"
          /\ UNCHANGED <<imported, accepted, assessed, lock, run, freeze>>
      BY <1>1 DEF F!Assign, F!Remediate
    <2>2. PICK to \in {"assigned", "remediated"} : gaps' = [gaps EXCEPT ![p][c] = to]
      BY <1>1 DEF F!Assign, F!Remediate
    <2>3. owned' \subseteq Packaging \X F!Checks /\ sound' \subseteq Packaging
          /\ \A q \in Packaging \ {p} : q \in sound' <=> q \in sound
      BY <1>1 DEF F!Assign, F!Remediate
    <2>4. /\ gaps' \in [Packaging -> [F!Checks -> F!Statuses]]
          /\ gaps'[p][c] \notin {"absent", "closed"}
          /\ \A d \in F!Checks : d # c => gaps'[p][d] = gaps[p][d]
          /\ \A q \in Packaging \ {p} : gaps'[q] = gaps[q]
      BY <2>2 DEF F!Statuses
    <2>5. F!TypeOK'
      BY <2>1, <2>3, <2>4
    <2>6. \A q \in DOMAIN assessed : F!Failures(assessed[q]) \subseteq F!Checks
      BY DEF F!Failures, F!Checks
    <2>7. F!FailuresHaveGaps'
      BY <2>1, <2>4, <2>6
    <2>8. ClosedIsJudged'
      BY <2>1, <2>3, <2>4
    <2>9. (RunTyped /\ RunJudges /\ FreezeTyped /\ FreezeIsCurrent)'
      BY <1>0, <2>1 DEF F!NoRun
    <2>10. QED
      BY <2>5, <2>7, <2>8, <2>9
  <1>2. ASSUME NEW p \in Packaging, F!Import(p)
        PROVE  FreezeInv'
    BY <1>2 DEF F!Import, F!Blocking, F!Passes, F!Failures
  <1>3. CASE F!Review
    BY <1>3 DEF F!Review, F!Blocking, F!Passes, F!Failures
  <1>4. QED
    BY <1>1, <1>2, <1>3

LEMMA FreezeStep ==
    ASSUME FreezeInv,
           \/ F!FreezeStart \/ F!CheckReadiness \/ F!ReadAssessments \/ F!ReadEvidence
           \/ F!ReadGaps \/ F!ReadPackaging \/ F!Recheck \/ F!FreezeCommit \/ F!FreezeAbort
    PROVE  FreezeInv'
  <1>1. UNCHANGED <<imported, sound, accepted, assessed, gaps, owned, run>>
    BY DEF F!FreezeStart, F!CheckReadiness, F!ReadAssessments, F!ReadEvidence, F!ReadGaps,
        F!ReadPackaging, F!Recheck, F!FreezeCommit, F!FreezeAbort, F!live, F!review
  <1> DEFINE Reads == /\ FreezeTyped' /\ FreezeIsCurrent'
                      /\ lock' = "run" <=> lock = "run"
                      /\ lock' = "freeze" <=> freeze'.at # "idle"
  <1> USE DEF FreezeTyped, FreezeIsCurrent, F!live, F!review
  <1>a. FreezeTyped /\ FreezeIsCurrent /\ (lock = "freeze" <=> freeze.at # "idle")
    BY DEF FreezeInv, F!TypeOK
  <1>2a. F!FreezeStart => Reads
    BY <1>1, <1>a DEF F!FreezeStart, F!Fresh
  <1>2b. F!CheckReadiness => Reads
    BY <1>1, <1>a DEF F!CheckReadiness
  <1>2c. F!ReadAssessments => Reads
    BY <1>1, <1>a DEF F!ReadAssessments
  <1>2d. F!ReadEvidence => Reads
    BY <1>1, <1>a DEF F!ReadEvidence
  <1>2e. F!ReadGaps => Reads
    BY <1>1, <1>a DEF F!ReadGaps
  <1>2f. F!ReadPackaging => Reads
    BY <1>1, <1>a DEF F!ReadPackaging
  <1>2g. F!Recheck => Reads
    BY <1>1, <1>a DEF F!Recheck
  <1>2h. F!FreezeCommit => Reads
    BY <1>1, <1>a DEF F!FreezeCommit, F!Fresh
  <1>2i. F!FreezeAbort => Reads
    BY <1>1, <1>a DEF F!FreezeAbort, F!Fresh
  <1>3. Reads
    BY <1>2a, <1>2b, <1>2c, <1>2d, <1>2e, <1>2f, <1>2g, <1>2h, <1>2i
  <1>4. (F!TypeOK /\ F!FailuresHaveGaps)'
    BY <1>1, <1>3 DEF FreezeInv, F!TypeOK, F!FailuresHaveGaps
  <1>5. (RunTyped /\ RunJudges /\ ClosedIsJudged)'
    BY <1>1 DEF FreezeInv, RunTyped, RunJudges, ClosedIsJudged, Closed
  <1>6. QED
    BY <1>3, <1>4, <1>5 DEF FreezeInv

LEMMA FreezeInvariant == F!Spec => []FreezeInv
  <1>1. F!Init => FreezeInv
    <2>1. DOMAIN <<>> = {}
      OBVIOUS
    <2>2. QED
      BY <2>1 DEF F!Init, FreezeInv, F!TypeOK, F!FailuresHaveGaps, RunTyped, RunJudges,
          ClosedIsJudged, FreezeTyped, FreezeIsCurrent, F!NoRun, F!Fresh, F!Statuses
  <1>2. FreezeInv /\ [F!Next]_(F!vars) => FreezeInv'
    <2>1. ASSUME FreezeInv, UNCHANGED F!vars
          PROVE  FreezeInv'
      BY <2>1 DEF F!vars, F!live, F!review, FreezeInv, F!TypeOK, F!FailuresHaveGaps, RunTyped,
          RunJudges, ClosedIsJudged, Closed, FreezeTyped, FreezeIsCurrent
    <2>2. ASSUME FreezeInv, F!Next
          PROVE  FreezeInv'
      BY <2>2, RunStep, RunCommitStep, OneRowStep, FreezeStep DEF F!Next
    <2>3. QED
      BY <2>1, <2>2
  <1>3. QED
    BY <1>1, <1>2, PTL DEF F!Spec

LEMMA FreezingWithin == [Next]_vars => [F!Next]_(F!vars)
  <1> SUFFICES ASSUME [Next]_vars PROVE [F!Next]_(F!vars)
    OBVIOUS
  <1>1. ASSUME UNCHANGED freezing PROVE UNCHANGED F!vars
    BY <1>1 DEF freezing, F!vars, F!live, F!review
  <1>2. CASE UNCHANGED vars
    BY <1>1, <1>2 DEF vars
  <1>3. CASE Next
    BY <1>1, <1>3 DEF Next, LifecycleStep, TransactionsStep, DossierStep
  <1>4. QED
    BY <1>2, <1>3

LEMMA FreezingRuns == Spec => F!Spec
  <1>1. Init => F!Init
    BY DEF Init
  <1>2. QED
    BY <1>1, FreezingWithin, PTL DEF Spec, F!Spec

(* ReviewFreeze: no interleaving of assessment runs, gap updates, imports, *)
(* evidence reviews and freezes freezes a review that is not complete, is  *)
(* not what the database says at the commit, or shows content that is not  *)
(* the one its assessment judged.                                          *)
THEOREM FrozenStaysWhole == Spec => []FrozenIsWhole
  <1>1. FreezeInv => FrozenIsWhole
    <2> SUFFICES ASSUME FreezeInv
                 PROVE  FrozenIsWhole
      OBVIOUS
    <2>1. F!TypeOK /\ F!FrozenIsComplete /\ F!CurrentAtCommit
      BY DEF FreezeInv, FreezeIsCurrent, F!FrozenIsComplete, F!CurrentAtCommit, F!Frozen
    <2>2. F!FrozenContentWasAssessed
      BY NoGapIsClosed DEF FreezeInv, FreezeIsCurrent, ClosedIsJudged, F!TypeOK,
          F!FrozenContentWasAssessed, F!Frozen
    <2>3. QED
      BY <2>1, <2>2 DEF FrozenIsWhole
  <1>2. QED
    BY <1>1, FreezingRuns, FreezeInvariant, PTL

(* ReviewFreeze: through any history of runs, assignments and remediations *)
(* a check that the current assessment failed has a gap that is not closed.*)
THEOREM FailuresKeepGaps == Spec => []FailuresHaveGaps
  <1>1. FreezeInv => FailuresHaveGaps
    BY DEF FreezeInv, FailuresHaveGaps
  <1>2. QED
    BY <1>1, FreezingRuns, FreezeInvariant, PTL
=============================================================================

----------------------------- MODULE ScanQueue -----------------------------
(***************************************************************************)
(* The queue of malware scans: processNextScanJob of the worker, the       *)
(* upload that enqueues a job and the operator's requeue.  A worker claims *)
(* a job, scans the file and records the outcome in ONE transaction: until *)
(* it commits, others see the row as it was and skip its lock, and a       *)
(* process that dies takes the claim with it.                              *)
(*                                                                         *)
(* available_at is abstracted to the order in which jobs come due: a job   *)
(* that is rescheduled is due after every job that is due now, so the due  *)
(* jobs form a queue and the others wait, each for as long as its delay.   *)
(***************************************************************************)
EXTENDS Integers, Sequences, FiniteSets, SequencesExt

CONSTANTS
    Workers, Jobs,
    Sound,        \* jobs whose file is neither unreadable nor malformed
    Stranded,     \* rows an older version left running, near the item limit
    ItemLimit,    \* maxAttempts
    InfraLimit,   \* maxInfrastructureAttempts
    MaxCrashes    \* how many transactions die, process or connection

NoJob == "no job"

ScanQueueAssumption ==
    /\ Sound \subseteq Jobs /\ Stranded \subseteq Jobs
    /\ NoJob \notin Jobs
    /\ ItemLimit \in Nat \ {0} /\ InfraLimit \in Nat \ {0}
    /\ MaxCrashes \in Nat

VARIABLES
    status, attempts, infrastructure, reason,   \* columns of scan_jobs
    verdict,     \* evidence_files.scan_status
    line,        \* the jobs that are due, earliest available_at first
    holds,       \* the row each worker's open transaction has locked
    crashes      \* per job, the transactions that died while scanning it

rows == <<status, attempts, infrastructure, reason, verdict>>
vars == <<rows, line, holds, crashes>>

Open == {"pending", "failed", "running"}
Verdicts == {"clean", "infected"}
Reasons == {"none", "content_attempts_exhausted", "infrastructure_attempts_exhausted"}

Locked(j) == \E w \in Workers : holds[w] = j
Due(j) == \E i \in DOMAIN line : line[i] = j

-----------------------------------------------------------------------------
(* The job has both its budgets and is due.                                *)
Afresh(j) ==
    /\ status' = [status EXCEPT ![j] = "pending"]
    /\ attempts' = [attempts EXCEPT ![j] = 0]
    /\ infrastructure' = [infrastructure EXCEPT ![j] = 0]
    /\ reason' = [reason EXCEPT ![j] = "none"]
    /\ verdict' = [verdict EXCEPT ![j] = "pending"]
    /\ line' = Append(line, j)
    /\ UNCHANGED <<holds, crashes>>

(* An upload inserts the evidence row and its job.                         *)
Upload(j) == status[j] = "absent" /\ Afresh(j)

(* The retry delay, or the backoff, passes.                                *)
ComeDue(j) ==
    /\ status[j] \in {"pending", "failed"}
    /\ ~Due(j)
    /\ line' = Append(line, j)
    /\ UNCHANGED <<rows, holds, crashes>>

(* The lease of a row that says running passes; its available_at is older  *)
(* than that of any job that is due.                                       *)
LeaseExpires(j) ==
    /\ status[j] = "running"
    /\ ~Due(j)
    /\ line' = <<j>> \o line
    /\ UNCHANGED <<rows, holds, crashes>>

(* SELECT ... WHERE both budgets last ... ORDER BY available_at ... FOR    *)
(* UPDATE SKIP LOCKED LIMIT 1.                                             *)
Claimable(j) ==
    /\ ~Locked(j)
    /\ attempts[j] < ItemLimit
    /\ infrastructure[j] < InfraLimit

(* Mutated forms of Claim: a locked row is not skipped; the job that came  *)
(* due last goes first.                                                    *)
ClaimLocked(w) ==
    /\ holds[w] = NoJob
    /\ line # <<>>
    /\ holds' = [holds EXCEPT ![w] = Head(line)]
    /\ UNCHANGED <<rows, line, crashes>>

ClaimLast(w) ==
    LET ready == SelectSeq(line, Claimable)
    IN  /\ holds[w] = NoJob
        /\ ready # <<>>
        /\ holds' = [holds EXCEPT ![w] = ready[Len(ready)]]
        /\ UNCHANGED <<rows, line, crashes>>

Claim(w) ==
    /\ holds[w] = NoJob
    /\ \E i \in DOMAIN line :
          /\ Claimable(line[i])
          /\ \A k \in 1 .. i - 1 : ~Claimable(line[k])
          /\ holds' = [holds EXCEPT ![w] = line[i]]
    /\ UNCHANGED <<rows, line, crashes>>

(* The outcomes a scan can have: a verdict, a failure of the file or a     *)
(* failure of scanner or storage.                                          *)
Outcomes(j) == Verdicts \cup {"infrastructure"} \cup (IF j \in Sound THEN {} ELSE {"content"})

(* A job taken over from a row that said running is charged the reclaim.   *)
Attempt(j) == attempts[j] + (IF status[j] = "running" THEN 1 ELSE 0)

(* Mutated forms of Record: every failure is charged to the file; the      *)
(* verdict of the file is left as it was; exhaustion is judged against the *)
(* budget that this failure spends.                                        *)
RecordBlames(w, outcome) ==
    LET j == holds[w]
        tried == Attempt(j) + (IF outcome \in Verdicts THEN 0 ELSE 1)
        dead == tried >= ItemLimit
    IN  /\ status' = [status EXCEPT ![j] = IF outcome \in Verdicts THEN "completed"
                                           ELSE IF dead THEN "dead" ELSE "failed"]
        /\ attempts' = [attempts EXCEPT ![j] = tried]
        /\ reason' = [reason EXCEPT ![j] = IF outcome \notin Verdicts /\ dead
                                           THEN "content_attempts_exhausted" ELSE "none"]
        /\ verdict' = [verdict EXCEPT ![j] = IF outcome \in Verdicts THEN outcome ELSE "error"]
        /\ UNCHANGED infrastructure

RecordJobOnly(w, outcome) ==
    LET j == holds[w]
    IN  /\ status' = [status EXCEPT ![j] = IF outcome \in Verdicts THEN "completed" ELSE "failed"]
        /\ UNCHANGED <<attempts, infrastructure, reason, verdict>>

RecordOwnBudget(w, outcome) ==
    LET j == holds[w]
        tried == Attempt(j) + (IF outcome = "content" THEN 1 ELSE 0)
        out == infrastructure[j] + (IF outcome = "infrastructure" THEN 1 ELSE 0)
        completed == outcome \in Verdicts
        dead == \/ outcome = "content" /\ tried >= ItemLimit
                \/ outcome = "infrastructure" /\ out >= InfraLimit
    IN  /\ status' = [status EXCEPT ![j] = IF completed THEN "completed"
                                           ELSE IF dead THEN "dead" ELSE "failed"]
        /\ attempts' = [attempts EXCEPT ![j] = tried]
        /\ infrastructure' = [infrastructure EXCEPT ![j] = out]
        /\ reason' = [reason EXCEPT ![j] = IF ~dead THEN "none"
                                           ELSE IF tried >= ItemLimit THEN "content_attempts_exhausted"
                                           ELSE "infrastructure_attempts_exhausted"]
        /\ verdict' = [verdict EXCEPT ![j] = IF completed THEN outcome ELSE "error"]

(* The outcome's two UPDATEs.  Exhaustion is judged against both budgets,  *)
(* whichever this failure spends, and the reason names the item's first.   *)
Record(w, outcome) ==
    LET j == holds[w]
        tried == Attempt(j) + (IF outcome = "content" THEN 1 ELSE 0)
        out == infrastructure[j] + (IF outcome = "infrastructure" THEN 1 ELSE 0)
        completed == outcome \in Verdicts
        dead == ~completed /\ (tried >= ItemLimit \/ out >= InfraLimit)
    IN  /\ status' = [status EXCEPT ![j] = IF completed THEN "completed"
                                           ELSE IF dead THEN "dead" ELSE "failed"]
        /\ attempts' = [attempts EXCEPT ![j] = tried]
        /\ infrastructure' = [infrastructure EXCEPT ![j] = out]
        /\ reason' = [reason EXCEPT ![j] = IF ~dead THEN "none"
                                           ELSE IF tried >= ItemLimit THEN "content_attempts_exhausted"
                                           ELSE "infrastructure_attempts_exhausted"]
        /\ verdict' = [verdict EXCEPT ![j] = IF completed THEN outcome ELSE "error"]

(* The transaction commits: the row has its outcome and the lock is gone.  *)
Finish(w) ==
    /\ holds[w] # NoJob
    /\ \E outcome \in Outcomes(holds[w]) : Record(w, outcome)
    /\ line' = RemoveFirst(line, holds[w])
    /\ holds' = [holds EXCEPT ![w] = NoJob]
    /\ UNCHANGED crashes

(* The transaction dies; everything it wrote is rolled back. *)
Die(w) ==
    /\ holds[w] # NoJob
    /\ crashes[holds[w]] < MaxCrashes
    /\ crashes' = [crashes EXCEPT ![holds[w]] = @ + 1]
    /\ holds' = [holds EXCEPT ![w] = NoJob]
    /\ UNCHANGED <<rows, line>>

(* Mutated forms of Requeue: a completed job is requeued as well; a job    *)
(* that is still going to be retried is.                                   *)
RequeueAny(j) == status[j] \in {"dead", "completed"} /\ Afresh(j)

RequeueLive(j) == status[j] \in {"dead", "failed", "pending"} /\ Afresh(j)

(* requeueDeadScanJob looks for a job that requires attention, and the     *)
(* function it calls looks again: only a dead job, and both budgets.       *)
Stopped(j) == status[j] = "dead"

Requeue(j) == Stopped(j) /\ Afresh(j)

-----------------------------------------------------------------------------
Init ==
    /\ status = [j \in Jobs |-> IF j \in Stranded THEN "running" ELSE "absent"]
    /\ attempts = [j \in Jobs |-> IF j \in Stranded THEN ItemLimit - 1 ELSE 0]
    /\ infrastructure = [j \in Jobs |-> 0]
    /\ reason = [j \in Jobs |-> "none"]
    /\ verdict = [j \in Jobs |-> IF j \in Stranded THEN "pending" ELSE "none"]
    /\ line = <<>>
    /\ holds = [w \in Workers |-> NoJob]
    /\ crashes = [j \in Jobs |-> 0]

Next ==
    \/ \E w \in Workers : Claim(w) \/ Finish(w) \/ Die(w)
    \/ \E j \in Jobs : Upload(j) \/ ComeDue(j) \/ LeaseExpires(j) \/ Requeue(j)

Spec == Init /\ [][Next]_vars

(* The poll loop goes on, scans end and time passes.  Nobody has to upload *)
(* or requeue anything.                                                    *)
Fairness ==
    /\ \A w \in Workers : WF_vars(Claim(w)) /\ WF_vars(Finish(w))
    /\ \A j \in Jobs : WF_vars(ComeDue(j)) /\ WF_vars(LeaseExpires(j))

FairSpec == Spec /\ Fairness

-----------------------------------------------------------------------------
(* Every variable has its type, and a due job is in the queue once.        *)
TypeOK ==
    /\ status \in [Jobs -> {"absent", "completed", "dead"} \cup Open]
    /\ attempts \in [Jobs -> 0 .. ItemLimit + 1]
    /\ infrastructure \in [Jobs -> 0 .. InfraLimit]
    /\ reason \in [Jobs -> Reasons]
    /\ verdict \in [Jobs -> {"none", "pending", "error"} \cup Verdicts]
    /\ line \in Seq(Jobs)
    /\ \A i, k \in DOMAIN line : line[i] = line[k] => i = k
    /\ holds \in [Workers -> Jobs \cup {NoJob}]
    /\ crashes \in [Jobs -> 0 .. MaxCrashes]

(* Two workers never scan the same file: of two open transactions, even    *)
(* after crashes, requeues and expired leases, each has a row of its own,  *)
(* and it is a row that still waits for a verdict.                         *)
OwnRow ==
    \A v, w \in Workers :
        holds[w] # NoJob => /\ status[holds[w]] \in Open
                            /\ holds[v] = holds[w] => v = w

(* The job and the evidence row agree: a job is completed exactly when the *)
(* row carries a verdict of the scanner, and a dead job's row shows an     *)
(* error rather than a verdict from before a requeue.                      *)
JobMatchesVerdict ==
    \A j \in Jobs : /\ status[j] = "completed" <=> verdict[j] \in Verdicts
                    /\ status[j] \in {"dead", "failed"} => verdict[j] = "error"

(* No job is in limbo: one that still waits for a verdict can be claimed   *)
(* when its time comes, for it has something left of both budgets, and     *)
(* every other is completed or dead, where an operator can requeue it.  A  *)
(* job reclaimed from a lease is charged the reclaim, and if the scanner   *)
(* then fails it ends here or is dead, whichever budget that failure spent.*)
NoJobInLimbo ==
    \A j \in Jobs : status[j] \in Open => attempts[j] < ItemLimit /\ infrastructure[j] < InfraLimit

(* The queue as it stands is right: its parts have their types, and the    *)
(* three properties above hold of it.                                      *)
QueueIsConsistent == TypeOK /\ OwnRow /\ JobMatchesVerdict /\ NoJobInLimbo

(* An outage delays an item rather than condemning it: a file that never   *)
(* failed on its own merits is never reported as having spent its budget.  *)
OutageSparesItem ==
    \A j \in Sound \ Stranded : reason[j] # "content_attempts_exhausted"

(* A verdict is final: no retry, requeue or late transaction replaces it.  *)
VerdictIsFinal ==
    [][\A j \in Jobs : verdict[j] \in Verdicts => verdict'[j] = verdict[j]]_verdict

(* Every job ends, although others fail, are requeued for ever and come    *)
(* due before it again: nothing starves and nothing is retried for ever.   *)
JobsEnd == \A j \in Jobs : []<>(status[j] \notin Open)
=============================================================================

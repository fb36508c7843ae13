---------------------------- MODULE WorkerHealth ----------------------------
(***************************************************************************)
(* The worker's poll loop (server.mjs) and what it tells the health        *)
(* endpoint (health.mjs).  One poll is several steps, with an await        *)
(* between each two at which the endpoint may be asked: recheck the        *)
(* tenancy, authenticate, process one scan job, probe the scanner, look at *)
(* the queue, sweep for retention.  What a scan or a sweep does to the     *)
(* database is the matter of ScanQueue and Retention; here it has a result.*)
(*                                                                         *)
(* The queue holds at most one job, which is enough for every sequence of  *)
(* results a poll can see.                                                 *)
(***************************************************************************)
EXTENDS Naturals, FiniteSets

CONSTANTS
    Failing,           \* the parts of the world that may fail
    MaxBroken,         \* and how many of them at a time
    SweepsFail,        \* whether a retention sweep may fail
    AllowMultiTenant   \* the opt-out of the verification suites

Parts == {"scanner", "storage", "database", "token", "tenancy"}

WorkerHealthAssumption ==
    /\ Failing \subseteq Parts /\ MaxBroken \in Nat
    /\ {AllowMultiTenant, SweepsFail} \subseteq BOOLEAN
    /\ "database" \in Failing => SweepsFail

VARIABLES
    broken,     \* the parts that do not work now; "tenancy": several tenants
    job,        \* "none", "later" (rescheduled), "due"
    dead,       \* whether a job is parked in the terminal state
    pc,         \* the await the poll loop stands at
    due,        \* the interval checks that are due
    authenticated, enforced, pollFailed,            \* fields of WorkerHealth
    infrastructureFault, itemFault, requiresAttention,
    stale,      \* no poll was recorded for staleAfterMs
    suspect     \* what failed when the scan path last used it

queue == <<job, dead>>
faults == <<infrastructureFault, itemFault>>
access == <<authenticated, enforced>>
heartbeat == <<pollFailed, stale>>
vars == <<broken, queue, pc, due, access, heartbeat, faults, requiresAttention, suspect>>

Checks == {"tenancy", "queue", "sweep"}

(* classifyFailure: faults of the worker's surroundings and faults of one  *)
(* file; what a ping is evidence about.                                    *)
InfrastructureFaults == {"scanner", "storage", "other"}
ScannerReachabilityFaults == {"scanner"}

(* snapshot(): nothing stands in the way of the job.                       *)
Ready ==
    /\ authenticated /\ enforced
    /\ ~pollFailed /\ ~stale
    /\ infrastructureFault = "none"

(* The endpoint: a live process may be unready.                            *)
Answer(path) == IF path = "/health/live" \/ Ready THEN 200 ELSE 503

(* assertSingleTenantDeployment, and authenticateWorker for this role.     *)
Supported == "tenancy" \notin broken \/ AllowMultiTenant
TokenAccepted == "token" \notin broken

(* scanQueueSnapshot: whether anything requires attention.                 *)
QueueSnapshot == dead

-----------------------------------------------------------------------------
(* onError: the poll ends, and the failure is also a sign of life.         *)
PollFails ==
    /\ pc' = "idle"
    /\ pollFailed' = TRUE
    /\ stale' = FALSE

(* Any of the poll's queries may find the database gone.                   *)
DatabaseFails ==
    /\ "database" \in broken
    /\ \/ pc = "idle" /\ "tenancy" \in due /\ UNCHANGED due
       \/ pc \in {"authenticate", "process"} /\ UNCHANGED due
       \/ pc = "queue" /\ "queue" \in due /\ due' = due \ {"queue"}
    /\ PollFails
    /\ UNCHANGED <<broken, queue, access, faults, requiresAttention, suspect>>

(* The recheck found what this worker supports, or the opt-out holds.      *)
Recheck ==
    /\ pc = "idle" /\ "tenancy" \in due /\ "database" \notin broken
    /\ Supported
    /\ enforced' = ("tenancy" \notin broken)
    /\ due' = due \ {"tenancy"}
    /\ pc' = "authenticate"
    /\ suspect' = suspect \ {"tenancy"}
    /\ UNCHANGED <<broken, queue, authenticated, heartbeat, faults, requiresAttention>>

(* Mutated form of RecheckFails: the deadline moves although it threw.     *)
RecheckFailsOnce ==
    /\ pc = "idle" /\ "tenancy" \in due /\ "database" \notin broken
    /\ ~Supported
    /\ enforced' = FALSE
    /\ due' = due \ {"tenancy"}
    /\ PollFails
    /\ suspect' = suspect \cup {"tenancy"}
    /\ UNCHANGED <<broken, queue, authenticated, faults, requiresAttention>>

(* It found several tenants and threw: latched, and still due.             *)
RecheckFails ==
    /\ pc = "idle" /\ "tenancy" \in due /\ "database" \notin broken
    /\ ~Supported
    /\ enforced' = FALSE
    /\ PollFails
    /\ suspect' = suspect \cup {"tenancy"}
    /\ UNCHANGED <<broken, queue, due, authenticated, faults, requiresAttention>>

NoRecheck ==
    /\ pc = "idle" /\ "tenancy" \notin due
    /\ pc' = "authenticate"
    /\ UNCHANGED <<broken, queue, due, access, heartbeat, faults, requiresAttention, suspect>>

Authenticate ==
    /\ pc = "authenticate" /\ "database" \notin broken
    /\ authenticated' = TokenAccepted
    /\ IF TokenAccepted THEN pc' = "process" /\ UNCHANGED heartbeat
                        ELSE PollFails
    /\ UNCHANGED <<broken, queue, due, enforced, faults, requiresAttention, suspect>>

-----------------------------------------------------------------------------
(* processNextScanJob returned: recordPollSuccess, and what follows it.    *)
PollSucceeds(next) ==
    /\ pc = "process" /\ "database" \notin broken
    /\ pc' = next
    /\ pollFailed' = FALSE
    /\ stale' = FALSE
    /\ UNCHANGED <<broken, due, access, requiresAttention>>

(* A failed job is rescheduled or, its budgets spent, parked.              *)
JobFails ==
    \/ job' = "later" /\ UNCHANGED dead
    \/ job' = "none" /\ dead' = TRUE

(* Nothing is due; an outstanding fault makes the worker ask the scanner.  *)
Empty ==
    /\ job # "due"
    /\ PollSucceeds(IF infrastructureFault # "none" THEN "probe" ELSE "queue")
    /\ UNCHANGED <<queue, faults, suspect>>

(* The file was read and the scanner answered: both classes are cleared.   *)
Verdict ==
    /\ job = "due" /\ "storage" \notin broken /\ "scanner" \notin broken
    /\ PollSucceeds("queue")
    /\ job' = "none"
    /\ infrastructureFault' = "none" /\ itemFault' = FALSE
    /\ suspect' = suspect \ {"scanner", "storage"}
    /\ UNCHANGED dead

(* Integrity, size or path: a fault of this file alone.                    *)
ContentFault ==
    /\ job = "due" /\ "storage" \notin broken
    /\ PollSucceeds("queue")
    /\ JobFails
    /\ itemFault' = TRUE
    /\ UNCHANGED <<infrastructureFault, suspect>>

(* The scanner is only asked once the file was read.                       *)
ScannerFault ==
    /\ job = "due" /\ "storage" \notin broken /\ "scanner" \in broken
    /\ PollSucceeds("queue")
    /\ JobFails
    /\ infrastructureFault' = "scanner"
    /\ suspect' = (suspect \ {"storage"}) \cup {"scanner"}
    /\ UNCHANGED itemFault

StorageFault ==
    /\ job = "due" /\ "storage" \in broken
    /\ PollSucceeds("queue")
    /\ JobFails
    /\ infrastructureFault' = "storage"
    /\ suspect' = suspect \cup {"storage"}
    /\ UNCHANGED itemFault

-----------------------------------------------------------------------------
(* Mutated forms of Probe: a PONG clears every fault; it clears none.      *)
ProbeClearsAll ==
    /\ pc = "probe" /\ pc' = "queue"
    /\ infrastructureFault' = IF "scanner" \notin broken THEN "none" ELSE infrastructureFault
    /\ suspect' = IF "scanner" \notin broken THEN suspect \ {"scanner"} ELSE suspect
    /\ UNCHANGED <<broken, queue, due, access, heartbeat, itemFault, requiresAttention>>

ProbeClearsNothing ==
    /\ pc = "probe" /\ pc' = "queue"
    /\ UNCHANGED <<broken, queue, due, access, heartbeat, faults, requiresAttention, suspect>>

(* ping() and recordScannerProbe: evidence about the scanner only.         *)
Probe ==
    /\ pc = "probe" /\ pc' = "queue"
    /\ infrastructureFault' =
           IF "scanner" \notin broken /\ infrastructureFault \in ScannerReachabilityFaults THEN "none"
           ELSE infrastructureFault
    /\ suspect' = IF "scanner" \notin broken THEN suspect \ {"scanner"} ELSE suspect
    /\ UNCHANGED <<broken, queue, due, access, heartbeat, itemFault, requiresAttention>>

(* Mutated form of LookAtQueue: the snapshot is taken once.                *)
LookAtQueueFirst ==
    /\ pc = "queue" /\ pc' = "sweep"
    /\ IF "queue" \in due THEN "database" \notin broken /\ UNCHANGED requiresAttention
                          ELSE UNCHANGED requiresAttention
    /\ due' = due \ {"queue"}
    /\ UNCHANGED <<broken, queue, access, heartbeat, faults, suspect>>

(* scanQueueSnapshot and recordQueue, on their interval.                   *)
LookAtQueue ==
    /\ pc = "queue" /\ pc' = "sweep"
    /\ IF "queue" \in due THEN "database" \notin broken /\ requiresAttention' = QueueSnapshot
                          ELSE UNCHANGED requiresAttention
    /\ due' = due \ {"queue"}
    /\ UNCHANGED <<broken, queue, access, heartbeat, faults, suspect>>

(* The sweep deleted something, found nothing, or was not due.             *)
Sweep ==
    /\ pc = "sweep" /\ pc' = "idle"
    /\ "sweep" \in due => "database" \notin broken
    /\ due' = due \ {"sweep"}
    /\ UNCHANGED <<broken, queue, access, heartbeat, faults, requiresAttention, suspect>>

(* Mutated form of SweepFails: the code is kept as a class of its own.     *)
SweepFailsUnclassified ==
    /\ SweepsFail
    /\ pc = "sweep" /\ "sweep" \in due
    /\ pc' = "idle"
    /\ due' = due \ {"sweep"}
    /\ infrastructureFault' = "RETENTION_LEASE_LOST"
    /\ UNCHANGED <<broken, queue, access, heartbeat, itemFault, requiresAttention, suspect>>

(* It threw.  An error without a code is EVIDENCE_RETENTION_FAILED, which  *)
(* health.mjs lists; every RETENTION_* code, SQLSTATE or errno is unknown  *)
(* to it and therefore infrastructure.                                     *)
SweepFails ==
    /\ SweepsFail
    /\ pc = "sweep" /\ "sweep" \in due
    /\ pc' = "idle"
    /\ due' = due \ {"sweep"}
    /\ \/ infrastructureFault' = "other" /\ UNCHANGED itemFault
       \/ itemFault' = TRUE /\ UNCHANGED infrastructureFault
    /\ UNCHANGED <<broken, queue, access, heartbeat, requiresAttention, suspect>>

-----------------------------------------------------------------------------
(* The world: something fails or comes back, a tenant is created or        *)
(* removed, a file is uploaded, a dead job requeued; time passes.          *)
Toggle(part) ==
    /\ \/ part \in broken /\ broken' = broken \ {part}
       \/ part \notin broken /\ Cardinality(broken) < MaxBroken /\ broken' = broken \cup {part}
    /\ UNCHANGED <<queue, pc, due, access, heartbeat, faults, requiresAttention, suspect>>

Arrive ==
    /\ job = "none" /\ job' = "due"
    /\ dead' \in {dead, FALSE}
    /\ UNCHANGED <<broken, pc, due, access, heartbeat, faults, requiresAttention, suspect>>

RetryDue ==
    /\ job = "later" /\ job' = "due"
    /\ UNCHANGED <<broken, dead, pc, due, access, heartbeat, faults, requiresAttention, suspect>>

(* The intervals are measured at the start of a poll.                      *)
ComesDue(check) ==
    /\ pc = "idle"
    /\ check \notin due
    /\ due' = due \cup {check}
    /\ UNCHANGED <<broken, queue, pc, access, heartbeat, faults, requiresAttention, suspect>>

GoStale ==
    /\ ~stale /\ stale' = TRUE
    /\ UNCHANGED <<broken, queue, pc, due, access, pollFailed, faults, requiresAttention, suspect>>

-----------------------------------------------------------------------------
(* The loop starts after the startup checks passed.                        *)
Init ==
    /\ broken \in SUBSET (Failing \ {"database", "token"})
    /\ Supported
    /\ job = "none" /\ dead = FALSE
    /\ pc = "idle"
    /\ due = {"queue"}
    /\ authenticated = TRUE
    /\ enforced = ("tenancy" \notin broken)
    /\ pollFailed = FALSE /\ stale = FALSE
    /\ infrastructureFault = "none" /\ itemFault = FALSE
    /\ requiresAttention = FALSE
    /\ suspect = {}

Poll ==
    \/ DatabaseFails
    \/ Recheck \/ RecheckFails \/ NoRecheck \/ Authenticate
    \/ Empty \/ Verdict \/ ContentFault \/ ScannerFault \/ StorageFault
    \/ Probe \/ LookAtQueue \/ Sweep \/ SweepFails

Environment ==
    \/ Arrive \/ RetryDue \/ GoStale
    \/ \E check \in Checks : ComesDue(check)
    \/ \E part \in Failing : Toggle(part)

Next == Poll \/ Environment

Spec == Init /\ [][Next]_vars

(* The loop polls for ever, retry delays end, and each interval passes     *)
(* between two polls from time to time.                                    *)
FairSpec ==
    /\ Spec
    /\ WF_vars(Poll) /\ WF_vars(RetryDue)
    /\ \A check \in Checks : SF_vars(ComesDue(check))

-----------------------------------------------------------------------------
(* Every variable has its type.                                            *)
TypeOK ==
    /\ broken \subseteq Failing
    /\ job \in {"none", "later", "due"} /\ dead \in BOOLEAN
    /\ pc \in {"idle", "authenticate", "process", "probe", "queue", "sweep"}
    /\ due \subseteq Checks
    /\ {authenticated, enforced, pollFailed, stale, itemFault, requiresAttention} \subseteq BOOLEAN
    /\ infrastructureFault \in {"none"} \cup InfrastructureFaults
    /\ suspect \subseteq {"tenancy", "scanner", "storage"}

(* "Cleared by evidence - and by nothing else": the worker never reports   *)
(* ready while the scanner, the storage or the tenancy check failed when   *)
(* the loop last used it, whatever polled, probed or failed in between,    *)
(* although one slot holds one fault and a later fault overwrites it.      *)
ReadyIsEarned == Answer("/health/ready") = 200 => suspect = {}

(* "The guard stops work": once a recheck threw, no job is claimed until   *)
(* one finds a single tenant, not even after polls that succeed.           *)
NoClaimUnderLatch == pc \in {"authenticate", "process"} => "tenancy" \notin suspect

(* What the worker says and what it does rest on evidence.                 *)
ActsOnEvidence == TypeOK /\ ReadyIsEarned /\ NoClaimUnderLatch

AllWell == broken = {}

(* From some point on no file fails on its own merits.                     *)
FilesAreSound == <>[][~ContentFault]_vars

(* When everything works again the worker becomes ready again, without a   *)
(* restart and without a job to scan, from every fault that a poll or a    *)
(* probe can disprove.                                                     *)
ReadyAgain ==
    /\ <>[](AllWell /\ infrastructureFault \notin {"storage", "other"})
    /\ FilesAreSound
    => []<>Ready

(* No silent drop: a job parked in the terminal state shows up in the      *)
(* report, unless it is requeued first.                                    *)
DeadIsShown == <>[]AllWell => []<>(dead => requiresAttention)

(* What the worker reports catches up with what is: it is ready again      *)
(* after an outage, and a parked job is reported.                          *)
ReportCatchesUp == ReadyAgain /\ DeadIsShown
=============================================================================

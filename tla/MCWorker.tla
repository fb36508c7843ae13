------------------------------- MODULE MCWorker -------------------------------
(***************************************************************************)
(* The worker's queue of scans and its poll loop, explored side by side:   *)
(* the part of a behaviour is chosen at its start and takes all of its     *)
(* steps.                                                                  *)
(***************************************************************************)
EXTENDS Integers, Sequences, FiniteSets

CONSTANTS
    Workers, Jobs, Sound, Stranded, ItemLimit, InfraLimit, MaxCrashes,   \* ScanQueue
    Failing, MaxBroken, SweepsFail, AllowMultiTenant                     \* WorkerHealth

VARIABLES
    part,
    status, attempts, infrastructure, reason, verdict, line, holds, crashes,
    broken, job, dead, pc, due, authenticated, enforced, pollFailed,
    infrastructureFault, itemFault, requiresAttention, stale, suspect

Q == INSTANCE ScanQueue
H == INSTANCE WorkerHealth

ASSUME WorkerAssumption == Q!ScanQueueAssumption /\ H!WorkerHealthAssumption

scanning == <<status, attempts, infrastructure, reason, verdict, line, holds, crashes>>
polling == <<broken, job, dead, pc, due, authenticated, enforced, pollFailed,
             infrastructureFault, itemFault, requiresAttention, stale, suspect>>
vars == <<part, scanning, polling>>

Init ==
    /\ part \in {"scanning", "polling"}
    /\ Q!Init /\ H!Init
    /\ part # "polling" => broken = {}

ScanningStep == part = "scanning" /\ UNCHANGED <<part, polling>>
PollingStep == part = "polling" /\ UNCHANGED <<part, scanning>>

Next ==
    \/ ScanningStep /\ Q!Next
    \/ PollingStep /\ H!Next

(* The modules say why the code justifies their fairness.  It is stated    *)
(* once for both parts where it can be: only one of them takes steps.  A   *)
(* job waits for its delay or for its lease, and any worker may claim it.  *)
Claims == ScanningStep /\ \E w \in Workers : Q!Claim(w)
Polls == PollingStep /\ H!Poll
Finishes(w) == ScanningStep /\ Q!Finish(w)
ComesDue(j) == ScanningStep /\ (Q!ComeDue(j) \/ Q!LeaseExpires(j))
Spec ==
    /\ Init /\ [][Next]_vars
    /\ WF_vars(Claims \/ Polls)
    /\ \A w \in Workers : WF_vars(Finishes(w))
    /\ \A j \in Jobs : WF_vars(ComesDue(j))
    /\ WF_vars(PollingStep /\ H!RetryDue)
    /\ \A check \in {"tenancy", "queue"} : SF_vars(PollingStep /\ H!ComesDue(check))

-----------------------------------------------------------------------------
(* No open job has spent a budget, so that neither a claim nor a requeue   *)
(* would reach it; none is scanned twice at once; and the job and its      *)
(* evidence row agree, whatever crashes and is requeued.                   *)
QueueIsConsistent == Q!QueueIsConsistent

(* A file that never failed on its own merits is never reported as having  *)
(* spent its budget, however long an outage lasts.                         *)
OutageSparesItem == Q!OutageSparesItem

(* No retry, requeue or late transaction replaces a verdict.               *)
VerdictIsFinal == Q!VerdictIsFinal

(* Every job ends, although others fail and are requeued for ever.         *)
JobsEnd == part = "scanning" => Q!JobsEnd

(* The worker never reports ready, nor claims a job, on a failure nothing  *)
(* has disproved.                                                          *)
ActsOnEvidence == H!ActsOnEvidence

(* The worker is ready again after an outage, and reports a parked job.    *)
ReportCatchesUp == part = "polling" => H!ReportCatchesUp
=============================================================================

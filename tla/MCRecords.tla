------------------------------ MODULE MCRecords ------------------------------
(***************************************************************************)
(* Four parts that write the record of a review and share no variable,     *)
(* explored side by side: the part of a behaviour is chosen at its start   *)
(* and takes all of its steps.                                             *)
(***************************************************************************)
EXTENDS Naturals, FiniteSets

CONSTANTS
    Workers, Budget, MaxStops,              \* EvidenceLifecycle
    Packaging,                              \* ReviewFreeze
    Clients, Programs, MaxTransactions,     \* Transactions
    Requests, FileCount, Faults, MaxFaults  \* Dossier

VARIABLES
    part,
    upload, place, malware, scan, review, retention, aged, owner, live, job, failures, pc, stops,
    imported, sound, accepted, assessed, gaps, owned, lock, run, freeze,
    program, at, holder, events, sequence, begun,
    recorded, file, stage, next, created, faults, snapshot, erasing

E == INSTANCE EvidenceLifecycle
F == INSTANCE ReviewFreeze
T == INSTANCE Transactions
G == INSTANCE Dossier WITH at <- stage

ASSUME RecordsAssumption == E!LifecycleAssumption /\ T!TransactionsAssumption /\ G!DossierAssumption

lifecycle == <<upload, place, malware, scan, review, retention, aged, owner, live, job, failures,
               pc, stops>>
freezing == <<imported, sound, accepted, assessed, gaps, owned, lock, run, freeze>>
transactions == <<program, at, holder, events, sequence, begun>>
dossier == <<recorded, file, stage, next, created, faults, snapshot, erasing>>
vars == <<part, lifecycle, freezing, transactions, dossier>>

(* A part that takes no step starts in one state only.                     *)
Init ==
    /\ part \in {"lifecycle", "freezing", "transactions", "dossier"}
    /\ E!Init /\ F!Init /\ T!Init /\ G!Init
    /\ part # "lifecycle" => ~malware
    /\ part # "freezing" => imported = {} /\ sound = {} /\ ~accepted

LifecycleStep == part = "lifecycle" /\ UNCHANGED <<part, freezing, transactions, dossier>>
FreezingStep == part = "freezing" /\ UNCHANGED <<part, lifecycle, transactions, dossier>>
TransactionsStep == part = "transactions" /\ UNCHANGED <<part, lifecycle, freezing, dossier>>
DossierStep == part = "dossier" /\ UNCHANGED <<part, lifecycle, freezing, transactions>>

Next ==
    \/ LifecycleStep /\ E!Next
    \/ FreezingStep /\ F!Next
    \/ TransactionsStep /\ T!Next
    \/ DossierStep /\ G!Next

Spec ==
    /\ Init /\ [][Next]_vars
    /\ \A r \in Requests : WF_vars(DossierStep /\ G!Step(r))

-----------------------------------------------------------------------------
(* What a reviewer accepted stays scanned and clean, no late verdict and   *)
(* no requeue taking the finding back; a row that says retained has its    *)
(* file across every sweep given up, and a failed upload leaves none.      *)
EvidenceIsSound == E!TypeOK /\ E!AcceptedIsClean /\ E!RowAndFileAgree

(* A frozen review is complete, says what the database says when it        *)
(* commits, and shows the content its assessments judged, although every   *)
(* statement of the freeze sees another committed state.                   *)
FrozenIsWhole ==
    F!TypeOK /\ F!FrozenIsComplete /\ F!CurrentAtCommit /\ F!FrozenContentWasAssessed

(* Every check the current assessment failed has a gap that is not closed. *)
FailuresHaveGaps == F!FailuresHaveGaps

(* A verifier finds the audit chain unbroken whenever it reads.            *)
ChainVerifies == T!TypeOK /\ T!ChainVerifies

(* No sessions wait for each other in a circle.                            *)
NoWaitCycle == T!NoWaitCycle

(* Behind the rows of a dossier there are whole files, which no other      *)
(* request holds or removes, and a reset takes them with the rows.         *)
DossierIsThere == G!TypeOK /\ G!OwnFiles /\ G!HeardIsThere /\ G!ResetErases

(* A review that is asked for often enough has its dossier in the end.     *)
DossierAtLast == part = "dossier" => G!DossierAtLast
=============================================================================

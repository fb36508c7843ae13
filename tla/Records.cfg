\* Two workers and two stops; two packagings; three sessions and four transactions of any
\* kind; three requests for one dossier of three files and one fault of each kind.
SPECIFICATION Spec
CONSTANTS
    Workers = {w1, w2}
    Budget = 2
    MaxStops = 2
    Packaging = {p1, p2}
    Clients = {c1, c2, c3}
    Programs = {"RunAssessments", "AssignGap", "RemediateGap", "Freeze", "ReviewEvidence", "Scan", "Requeue", "CompleteRetention", "RecordOnly", "Reset"}
    MaxTransactions = 4
    Requests = {r1, r2, r3}
    FileCount = 3
    Faults = {"crash", "partial", "statement", "lost", "removal"}
    MaxFaults = 1
INVARIANTS EvidenceIsSound FrozenIsWhole FailuresHaveGaps ChainVerifies NoWaitCycle DossierIsThere
PROPERTIES DossierAtLast
CHECK_DEADLOCK FALSE

\* A file that scans, one that fails and is requeued for ever, one left running; everything
\* the poll loop uses may fail, two parts at a time.
SPECIFICATION Spec
CONSTANTS
    Workers = {w1, w2}
    Jobs = {good, bad, old}
    Sound = {good}
    Stranded = {old}
    ItemLimit = 2
    InfraLimit = 2
    MaxCrashes = 1
    Failing = {"scanner", "storage", "database", "token", "tenancy"}
    MaxBroken = 2
    SweepsFail = TRUE
    AllowMultiTenant = FALSE
INVARIANTS QueueIsConsistent OutageSparesItem ActsOnEvidence
PROPERTIES VerdictIsFinal JobsEnd ReportCatchesUp
\* Every job may have its verdict and nobody uploads another.
CHECK_DEADLOCK FALSE

SPECIFICATION Spec
CONSTANTS
    Clients = {c1, c2}
    Keys = {k1, k2}
    MaxFaults = 1
    MaxAnswer = 3
    MaxResponse = 2
    MaxDisturbances = 1
    Rules <- LoginRules
    Callers <- LoginCallers
    Unknown = Unknown
    Retain = 2
    MaxRequests = 3
    MaxTime = 3
    Recipients = 2
    MaxAhead = 2
    MaxInFlight = 2
    PerHour = 1
    Hour = 2
    Minute = 1
    MaxEvents = 4
    MaxClock = 4
    Slots = {"caller", "probe"}
    Size = 1
INVARIANTS RowsHaveTheirRun VerdictIsTheWholeAnswer TwiceTheLimitAtMost SubmissionIsHonest AlertsAreAccounted RequestsAreSound
PROPERTIES RetriesEnd WaitsEnd
CHECK_DEADLOCK FALSE

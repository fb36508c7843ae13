\* One bearer, one account, two requests under way.
SPECIFICATION Spec
CONSTANTS
    PageSize = 1
    Bearers = {"manager"}
    Accounts = {"supplier"}
    MaxRows = 3
    MaxSessions = 1
    MaxFlight = 2
INVARIANT NothingStays
CHECK_DEADLOCK FALSE

SPECIFICATION FairSpec
CONSTANTS
    Identities = {admin, user}
    Administrators = {admin}
    Sessions = {s1, s2}
    Requests = {q1, q2, q3}
    Nobody = Nobody
    MaxRequests = 3
    MaxExpired = 1
INVARIANTS TypeOK NothingAfterItsEnd EndedIsRefused ToldIsTrue
PROPERTY EveryRequestEnds
CHECK_DEADLOCK FALSE

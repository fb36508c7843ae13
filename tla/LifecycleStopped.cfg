\* One worker that stops once.
CONSTANTS
    Workers = {w1}
    Budget = 2
    MaxStops = 1
SPECIFICATION Spec
INVARIANTS AcceptedIsKept
CHECK_DEADLOCK FALSE

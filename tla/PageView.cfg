CONSTANTS
    MaxTurns = 2
    MaxCalls = 2
    MaxStops = 1
    MaxFaults = 1
    MaxFlight = 2
SPECIFICATION Spec
CHECK_DEADLOCK FALSE
INVARIANTS
    PageAgrees
    RestIsSnapshot

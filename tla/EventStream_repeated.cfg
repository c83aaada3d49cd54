CONSTANTS
    Capacity = 2
    Reservation = 2
    MaxEvents = 2
    MaxLost = 0
    MaxCrashes = 0
    MaxFailures = 0
    MaxDrops = 1
    MaxToggles = 1
    Window = 1
SPECIFICATION FairSpec
CHECK_DEADLOCK FALSE
INVARIANT NothingRepeated

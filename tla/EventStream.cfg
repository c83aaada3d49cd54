CONSTANTS
    Capacity = 2
    Reservation = 2
    MaxEvents = 3
    MaxLost = 1
    MaxCrashes = 1
    MaxFailures = 1
    MaxDrops = 1
    MaxToggles = 1
    Window = 1
SPECIFICATION FairSpec
CHECK_DEADLOCK FALSE
PROPERTIES
    SequencesGrow
    CatchesUp

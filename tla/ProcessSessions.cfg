CONSTANTS
    MaxSessions = 2
    MaxChunks = 1
    MaxTurns = 2
    MaxStops = 2
    MaxActive = 2
    Retention = 1
SPECIFICATION FairSpec
CHECK_DEADLOCK FALSE
INVARIANTS
    CollectedOnce
    NoOrphan
PROPERTIES
    SurvivesOtherTurns
    EveryProcessEnds

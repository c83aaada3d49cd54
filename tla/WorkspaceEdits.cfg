CONSTANTS
    Lease = {"t1", "t2"}
    Workspace <- MCWorkspace
    Parents <- MCParents
    MaxActiveTurns = 2
    None = None
    File <- MCFile
    Name <- MCName
    Target <- MCTarget
    Inside <- MCInside
    RootOf <- MCRootOf
    Call <- MCCall
    Missing = Missing
    Unknown = Unknown
    MaxCalls = 2
    MaxSaves = 1
    MaxFaults = 2
SPECIFICATION EditSpec
CHECK_DEADLOCK FALSE
INVARIANTS
    AllOrNothing
    ChangesExact
    SavesKept

CONSTANTS
    Thread = {"t1", "t2"}
    Call = {"c1", "c2", "c3"}
    Key = {"k"}
    Text = {"x", "y"}
    ThreadOf <- MCThreadOf
    TextOf <- MCTextOf
    KeyOf <- MCKeyOf
    Workspace <- MCWorkspace
    Parents <- MCParents
    WorkspaceOf <- MCWorkspaceOf
    MaxActiveTurns = 2
    None = None
    Legacy <- NoLegacy
    MaxApprovals = 1
    MaxCrashes = 0
    MaxStoreFailures = 0
SPECIFICATION HostFairSpec
CHECK_DEADLOCK FALSE
INVARIANTS
    SubmissionCovers
    RunningDisjoint
    LeaseReleased
PROPERTIES
    LeasesImplemented
    ShutdownCompletes

CONSTANTS
    Thread = {"t1"}
    Call = {"c0", "c1", "c2"}
    Key = {"k"}
    Text = {"x", "y"}
    ThreadOf <- OneThread
    TextOf <- SameText
    KeyOf <- OneKey
    Workspace <- MCWorkspace
    Parents <- MCParents
    WorkspaceOf <- MCWorkspaceOf
    MaxActiveTurns = 2
    None = None
    Legacy <- LeftoverTurn
    MaxApprovals = 1
    MaxCrashes = 2
    MaxStoreFailures = 2
SPECIFICATION FairSpec
CHECK_DEADLOCK FALSE
INVARIANTS
    RecordsAgree
    OneTurnPerKey
    ReturnedIsDurable
    NoTurnForgotten
PROPERTY CallsSettle

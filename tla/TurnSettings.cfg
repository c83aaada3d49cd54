CONSTANTS
    Page = {p1, p2}
    Model = {"v4", "k3", "k2.7", "k2.6", "glm", "new"}
    Effort <- MCEffort
    Capabilities <- MCCapabilities
    Null = Null
    Unset = Unset
    Initial = "v4"
    Body <- MCBody
    Override <- MCOverride
    MaxSaves = 3
    MaxTurns = 2
    MaxLost = 1
    MaxCrashes = 1
SYMMETRY Pages
SPECIFICATION SettingsSpec
CHECK_DEADLOCK FALSE
INVARIANTS
    SavedAreAccepted
    VersionNamesSettings
    RequestFitsModel
PROPERTY StaleRefused

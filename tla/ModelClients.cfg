CONSTANTS
    Provider = {glm}
    Key = {k1, k2}
    None = None
    Turn = {t1, t2, t3}
    MaxClients = 1
    MaxTasks = 3
    MaxChanges = 3
    MaxRequests = 1
    MaxFaults = 1
SYMMETRY Symmetry
SPECIFICATION Spec
CHECK_DEADLOCK FALSE
INVARIANTS
    VerifiedIsCurrent
    ClientsAccounted

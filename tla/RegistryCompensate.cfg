SPECIFICATION RegistrySpec
CONSTANTS
    States = {"open", "done", "error"}
    InitialState = "open"
    FinalStates = {"done"}
    ErrorState = "error"
    Accepting = {"open", "error"}
    MaxCalls = 1
    Workers = {w1}
    Sweepers = {s1}
    Admins = {a1}
    RecoveryActions = {"DELETE"}
    Retention = FALSE
    MaxBranches = 1
    MaxSweeps = 1
    MaxCleanUps = 1
    MaxCrashes = 0
    MaxThrows = 0
INVARIANTS
    CompensatedMeansUnwound
CHECK_DEADLOCK FALSE

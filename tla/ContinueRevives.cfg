SPECIFICATION Spec
CONSTANTS
    States = {"open", "done", "error"}
    InitialState = "open"
    FinalStates = {"done"}
    ErrorState = "error"
    Accepting = {"open", "error"}
    MaxCalls = 1
    Workers = {w1}
    Sweepers = {s1}
    Admins = {}
    RecoveryActions = {"CONTINUE"}
    Retention = FALSE
    MaxBranches = 1
    MaxSweeps = 1
    MaxCleanUps = 0
    MaxCrashes = 0
    MaxThrows = 0
PROPERTIES
    TerminalOutcomeDurable
CHECK_DEADLOCK FALSE

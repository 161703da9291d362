SPECIFICATION FairSpec
CONSTANTS
    States = {"open", "done", "error"}
    InitialState = "open"
    FinalStates = {"done"}
    ErrorState = "error"
    Accepting = {"open", "error"}
    MaxCalls = 2
    Workers = {w1}
    Sweepers = {s1}
    Admins = {}
    RecoveryActions = {"MARK_FAIL", "COMPENSATE", "CONTINUE"}
    Retention = FALSE
    MaxBranches = 1
    MaxSweeps = 8
    MaxCleanUps = 0
    MaxCrashes = 1
    MaxThrows = 1
PROPERTIES
    EventuallySettled
CHECK_DEADLOCK FALSE

SPECIFICATION Spec
CONSTANTS
    w1 = w1
    w2 = w2
    s1 = s1
    a1 = a1
    States = {"open", "done", "error"}
    InitialState = "open"
    FinalStates = {"done"}
    ErrorState = "error"
    Accepting = {"open", "error"}
    MaxCalls = 2
    Workers = {w1, w2}
    Sweepers = {s1}
    Admins = {}
    RecoveryActions = {"DELETE", "MARK_FAIL", "COMPENSATE", "CONTINUE"}
    Retention = TRUE
    MaxBranches = 2
    MaxSweeps = 1
    MaxCleanUps = 0
    MaxCrashes = 1
    MaxThrows = 1
SYMMETRY WorkerSymmetry
INVARIANTS
    TypeOK
    CompensatedMeansUnwound
    RecoverableStep
    AtMostOneOutcome
    WorkIsVisible
PROPERTIES
    NoLostUpdate
    ImplementsLifecycle
CHECK_DEADLOCK FALSE

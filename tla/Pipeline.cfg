SPECIFICATION FairSpec
CONSTANTS
    FailureThreshold = 2
    SlidingWindowSize = 3
    HalfOpenMaxCalls = 2
    Callers = {c1, c2, c3}
    MaxAttempts = 2
INVARIANTS
    TypeOK
    NoLockout
    WindowBelowThreshold
    ProbesBounded
PROPERTIES
    OpenIsTemporary

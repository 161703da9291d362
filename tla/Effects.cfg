SPECIFICATION Spec
CONSTANTS
    Callers = {"c1", "c2"}
    MaxEffectChainDepth = 2
    Scopes <- MCScopes
INVARIANTS
    TypeOK
    DepthExact
    OuterSeesNested
PROPERTIES
    EffectSeesLatest
CHECK_DEADLOCK FALSE

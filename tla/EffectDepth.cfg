SPECIFICATION Spec
CONSTANTS
    Callers = {"c1", "c2"}
    MaxEffectChainDepth = 2
    Scopes <- MCScopes
PROPERTY GuardStopsOnlyRunaways
CHECK_DEADLOCK FALSE

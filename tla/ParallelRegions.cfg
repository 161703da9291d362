SPECIFICATION Spec
CONSTANTS
    Definitions <- ChildlessDocuments
    Events = {"E", "F"}
INVARIANT AllRegionsActive
CHECK_DEADLOCK FALSE

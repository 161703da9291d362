SPECIFICATION Spec
CONSTANTS
    Definitions <- AllDefinitions
    Events = {"E", "F"}
INVARIANTS
    TypeOK
    LegalConfiguration
    AvailableEventsExact
    DefinitionTargetsResolve
    EditorErrorsComplete
    UnreachableNeverActive
PROPERTIES
    EffectsReplay
    OnDoneFires
    StepsAreDrawn
CHECK_DEADLOCK FALSE

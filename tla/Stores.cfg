SPECIFICATION Spec
CONSTANTS
    Clients = {"c1", "c2", "c3"}
    PoolSize = 2
    Scenarios <- MCScenarios
INVARIANTS
    TypeOK
    StepSeqDense
    SnapshotNotBehind
PROPERTIES
    ImplementsTransactionStore
    OneWinner
    OperationsReturn
CHECK_DEADLOCK FALSE

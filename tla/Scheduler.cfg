SPECIFICATION Spec
CONSTANTS
    Actors = {"a1", "a2"}
    Ids = {"i", "j"}
    Openers = {"open1", "open2"}
    TimerTasks = {"timer1", "timer2"}
    Manual = {"manual"}
    Transactions = {"t1", "t2"}
    Scenarios <- MCScenarios
    SchedulerOn = TRUE
    HaltOnStop = TRUE
    BatchSize = 2
    MaxVersion = 2
INVARIANTS
    TypeOK
    NextRunIffTimer
    TimerSweepsExclusive
    RecoveryCountedOnce
    UnregisteredHasNoTimer
PROPERTIES
    RecoveryProgress
CHECK_DEADLOCK FALSE

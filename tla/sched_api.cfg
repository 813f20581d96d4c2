SPECIFICATION Spec
CONSTANTS
    MAX_TASKS = 5
    NULL = NULL
    Startup <- StartupAPI
    Body <- MCBody
    MaxLocks = 2
INVARIANTS
    TypeOK
    PointersToTasks
    OneRunning
    IrqBalance
    IrqsFollowCounter
    PostponedOnlyWhileHeld
PROPERTIES
    NoSwitchWhileLocked
    SwitchWithIrqsOff
CHECK_DEADLOCK FALSE

SPECIFICATION FairSpec
CONSTANTS
    MAX_TASKS = 7
    NULL = NULL
    Startup <- StartupRR
    Body <- MCBody
    MaxLocks = 1
INVARIANTS
    ReadyListOK
PROPERTIES
    RoundRobinScheduling
    NoResumeOfBlocked
    EveryReadyTaskRuns

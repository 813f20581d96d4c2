SPECIFICATION Spec
CONSTANTS
    MAX_TASKS = 16
    NULL = NULL
    Startup <- StartupBoot
    Body <- KernelTaskBody
    MaxLocks = 0
INVARIANT ReadyTasksListed
CHECK_DEADLOCK FALSE

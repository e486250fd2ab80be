SPECIFICATION Spec
CONSTANTS
    idle_task = idle
    NULL = null
    Task = {t1, t2}
    first_task = t1
    TASK_TIME_SLICE_DEFAULT = 2
    OS_TICK_MS = 2
    Ms = {1, 4, 15}
    UINT = 16
    RestartFirst = FALSE
PROPERTIES SleeperNotLost

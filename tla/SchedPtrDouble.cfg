SPECIFICATION BootSpec
CONSTANTS
    idle_task = idle
    NULL = null
    Task = {t1}
    first_task = t1
    TASK_TIME_SLICE_DEFAULT = 3
    OS_TICK_MS = 2
    Ms = {1, 4, 6}
    UINT = 16
    RestartFirst = TRUE
PROPERTIES MsleepLeavesReady

SPECIFICATION KFairSpec
CONSTANTS
    idle_task = idle
    NULL = null
    Task = {t1, t2, t3}
    first_task = t1
    TASK_TIME_SLICE_DEFAULT = 1
    OS_TICK_MS = 2
    Ms = {1, 4}
    UINT = 16
    RestartFirst = FALSE
    Mutex = {m1}
    Sem = {}
    InitCount = {}
    MaxDepth = 1
    MaxCount = 1
PROPERTIES ReadyRuns SleeperWakes WaiterOwns

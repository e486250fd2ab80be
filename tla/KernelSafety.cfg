SPECIFICATION KSpec
CONSTANTS
    idle_task = idle
    NULL = null
    Task = {t1, t2, t3}
    first_task = t1
    TASK_TIME_SLICE_DEFAULT = 1
    OS_TICK_MS = 2
    Ms = {1}
    UINT = 16
    RestartFirst = FALSE
    Mutex = {m1, m2}
    Sem = {s1}
    InitCount = {0, 1}
    MaxDepth = 2
    MaxCount = 1
INVARIANTS MutualExclusion MutexFields WaitersAreBlocked SemExact
PROPERTIES UsesSched

SPECIFICATION IFairSpec
CONSTANTS
    Task = {t1, t2}
    first_task = t1
    boot = boot
    DriverLine = {14}
    MaxDepth = 3
    MaxCalls = 1
INVARIANTS FlagExact ServiceExact
PROPERTIES TimerServed

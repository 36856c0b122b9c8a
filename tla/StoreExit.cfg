CONSTANTS
    t1 = t1
    t2 = t2
    Threads = {t1, t2}
    FirstThreads = {t1}
    Logs = {t2}
    MaxAppends = 2
    MaxMeta = 1
    MaxFails = 0
    MaxRestarts = 1
SPECIFICATION Spec
PROPERTY ExitLosesNothing
CHECK_DEADLOCK FALSE

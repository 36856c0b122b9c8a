CONSTANTS
    t1 = t1
    t2 = t2
    t3 = t3
    s = s
    NoRun = NoRun
    Threads = {t1, t2}
    SystemThreads = {}
    VerifyThreads = {t1}
    Cap = 1
    MaxFix = 1
    MaxRuns = 6
    PathCaptured = TRUE
    MaxMsgs = 2
    MaxRestarts = 0
SPECIFICATION Spec
INVARIANTS
    WorkingIsOwned
CHECK_DEADLOCK FALSE

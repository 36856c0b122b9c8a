CONSTANTS
    t1 = t1
    t2 = t2
    t3 = t3
    s = s
    NoRun = NoRun
    Threads = {t1, t2}
    SystemThreads = {}
    VerifyThreads = {t1}
    Cap = 1
    MaxFix = 1
    MaxRuns = 6
    PathCaptured = TRUE
    MaxMsgs = 2
    MaxRestarts = 1
SPECIFICATION Spec
PROPERTIES
    RestartKeepsQueue
CHECK_DEADLOCK FALSE

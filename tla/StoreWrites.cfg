CONSTANTS
    t1 = t1
    t2 = t2
    Threads = {t1, t2}
    FirstThreads = {t1}
    Logs = {}
    MaxAppends = 2
    MaxMeta = 1
    MaxFails = 1
    MaxRestarts = 1
SPECIFICATION FairSpec
INVARIANTS
    TypeOK
    ReadsAreCurrent
    NothingForgotten
    SaveNowIsDurable
    NoOrphanShard
PROPERTY SavesReachDisk
CHECK_DEADLOCK FALSE

CONSTANTS
    t1 = t1
    t2 = t2
    t3 = t3
    s = s
    NoRun = NoRun
    Threads = {t1, t2, t3, s}
    SystemThreads = {s}
    VerifyThreads = {t1}
    Cap = 1
    MaxFix = 1
    MaxRuns = 6
    PathCaptured = TRUE
    MaxMsgs = 3
    MaxRestarts = 1
SPECIFICATION Spec
INVARIANTS
    TypeOK
    CapRespected
    NoIdleSlot
    SlotIsOwned
    RunningIsWorking
    MessagesKept
    FollowUpsInOrder
    FixesBounded
PROPERTIES
    NoOvertaking
    EntryEndsItself
CHECK_DEADLOCK FALSE

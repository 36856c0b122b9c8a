CONSTANTS
    L = L
    w1 = w1
    w2 = w2
    Lead = L
    Workers = {w1, w2}
    AutoCap = 1
    MaxTurns = 2
    MaxPeers = 1
    MaxEvents = 2
    MaxPending = 1
    MaxRestarts = 1
SPECIFICATION Spec
SYMMETRY WorkerSymmetry
INVARIANTS
    TypeOK
    NoticesSurvive
    AnnouncedOnce
    NoIdleNotices
    NoticeNeverBounces
    RestoredNeedConsent
    AutoTurnsCapped
    OnlyLateCommitsWake
PROPERTIES
    EndIsAnnounced
CHECK_DEADLOCK FALSE

CONSTANTS
    pa = pa
    pb = pb
    NoInput = NoInput
    Providers <- MCProviders
    Chain <- MCChain
    MaxTurns = 2
    MaxEdits = 1
    MaxHeld = 2
    MaxRestarts = 2
SPECIFICATION FairSpec
INVARIANTS
    TypeOK
    RunsAlone
    NoRetryStorm
    ResumedOnce
PROPERTIES
    LiveRunKeepsStatus
    WatchLostByUser
    WaitsEnd
CHECK_DEADLOCK FALSE

CONSTANTS
    w1 = w1
    Workers = {w1}
    Root = Root
    NoOne = NoOne
    MaxTasks = 3
    AttemptCap = 2
    Batches <- MCBatches
SPECIFICATION Spec
INVARIANTS
    TypeOK
    ClaimedIsReady
    OwnerIsLastClaimant
    AttemptsCapped
PROPERTIES
    HistoryIsKept
    BoardSpec
CHECK_DEADLOCK FALSE

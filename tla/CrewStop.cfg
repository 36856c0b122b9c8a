CONSTANTS
    L = L
    w1 = w1
    w2 = w2
    Lead = L
    Workers = {w1}
    AutoCap = 1
    MaxTurns = 2
    MaxPeers = 1
    MaxEvents = 2
    MaxPending = 1
    MaxRestarts = 0
SPECIFICATION Spec
INVARIANTS
    StopHolds
CHECK_DEADLOCK FALSE

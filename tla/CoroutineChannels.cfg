SPECIFICATION Spec
CONSTANTS
    MaxTasks = 3
    MaxChannels = 1
    MaxCapacity = 2
    v1 = v1
    v2 = v2
    Values = {v1, v2}
SYMMETRY ValueSymmetry
INVARIANTS
    QueuedOnce
    WaitersRegistered
    DeadlockIsReal
    ScopeEndsClean
PROPERTY ImplementsFifo

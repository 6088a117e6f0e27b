SPECIFICATION Spec
CONSTANTS
    MaxTasks = 2
    MaxDescriptors = 3
    MaxJobs = 2
    MaxAddresses = 2
    QueueCapacity = 1
    w1 = w1
    Workers = {w1}
INVARIANTS
    WaitersRegistered
    InFlightTracked
    NoLostLookup
    NoFalseDeadlock
    PendingWithdrawn

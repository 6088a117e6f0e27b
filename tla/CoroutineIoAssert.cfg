SPECIFICATION Spec
CONSTANTS
    MaxTasks = 3
    MaxDescriptors = 1
    MaxJobs = 0
    MaxAddresses = 1
    QueueCapacity = 1
    w1 = w1
    Workers = {}
INVARIANT OneWaiterInFlight

SPECIFICATION FairSpec
CONSTANTS
    MaxTasks = 2
    MaxDescriptors = 2
    MaxJobs = 2
    MaxAddresses = 1
    QueueCapacity = 1
    w1 = w1
    Workers = {w1}
PROPERTY TasksServed

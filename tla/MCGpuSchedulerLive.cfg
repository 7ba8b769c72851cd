CONSTANTS
    e1 = e1
    e2 = e2
    j1 = j1
    j2 = j2
    j3 = j3
    x1 = x1
    None = None
    Entity = {e1}
    KernelEntity = {}
    Job = {j1, j2}
    JobEntity <- TwoEntityJobs
    Foreign = {x1}
    JobDeps <- MixedDeps
    QueueSize = 1
    HwLimit = 1
    FiniteTimeout = FALSE
    MaxParks = 1
SPECIFICATION FairSpec
PROPERTIES
    EveryJobFreed
    FiniReturns
    WorkerExits

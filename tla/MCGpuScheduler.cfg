CONSTANTS
    e1 = e1
    e2 = e2
    j1 = j1
    j2 = j2
    j3 = j3
    x1 = x1
    None = None
    Entity = {e1, e2}
    KernelEntity = {e2}
    Job = {j1, j2, j3}
    JobEntity <- TwoEntityJobs
    Foreign = {x1}
    JobDeps <- MixedDeps
    QueueSize = 2
    HwLimit = 1
    FiniteTimeout = TRUE
    MaxParks = 0
SPECIFICATION Spec
CONSTRAINTS
    TwoJobLoads
    OneExpiry
INVARIANTS
    HwCountExact
    NoLostWakeup
    EntityOnRq
    DependenciesRespected
PROPERTIES
    ImplementsContract

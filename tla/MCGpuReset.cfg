CONSTANTS
    e1 = e1
    j1 = j1
    j2 = j2
    None = None
    Entity = {e1}
    KernelEntity = {}
    Job = {j1, j2}
    JobEntity <- OneEntityJobs
    Foreign = {}
    JobDeps <- NoDeps
    QueueSize = 2
    HwLimit = 2
    FiniteTimeout = TRUE
    MaxParks = 0
    Devices <- AllDevices
    HangLimit = 1
    MaxOther = 1
    MayFail = FALSE
    PromptFinish = TRUE
SPECIFICATION SpecReset
INVARIANTS
    
    
    
    
    NoJobStranded
    FreedJobUnreachable
    ResetOldestTimed
SYMMETRY JobSymmetry
CHECK_DEADLOCK FALSE

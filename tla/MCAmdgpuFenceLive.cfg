CONSTANTS
    NumFences = 4
    SeqModulus = 12
    StartSeq = 10
    Proc = {"timer"}
    Workloads <- TimerWork
    MaxEmit = 5
    ResetKind = "hung"
    None = None
SPECIFICATION FairSpec
PROPERTIES
    ArmedFenceSignaled
    

CONSTANTS
    NumFences = 2
    SeqModulus = 8
    StartSeq = 6
    Proc = {"irq", "timer", "cpu"}
    Workloads <- SafetyWork
    MaxEmit = 3
    ResetKind = "hung"
    None = None
SPECIFICATION Spec
INVARIANTS
    SignaledOnce
    SignaledOnlyExecuted
    FenceReachable
    CountZeroMeansIdle
    WaitEmptyExecuted
PROPERTIES
    WakesOnIncrease

CONSTANTS
    NumFences = 2
    SeqModulus = 8
    StartSeq = 6
    Proc = {"irq", "timer"}
    Workloads <- RaceWork
    MaxEmit = 3
    ResetKind = "full"
    None = None
SPECIFICATION Spec
INVARIANTS
    SignaledOnce

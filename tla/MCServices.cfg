CONSTANTS
    Owner = {1, 2, 3}
    MaxAlloc = 3
    SaSize = 4
    SaLoads <- Allocations
    SaList = {0, 1}
    SaTries = 0
    SaNone = SaNone
    IrqUser = {1, 2, 3}
    TtmThread = {1, 2, 3}
    TtmOps <- LockKinds
    MaxLocks = 2
    Event = {"e1", "e2", "e3"}
    AutoReset = {"e2"}
    EventProcess <- ProcessOf
    Waiter = {1, 2}
    KfdLoads <- Loads
    FifoSize = 1
SPECIFICATION Spec
INVARIANTS
    RangesDisjoint
    HardwareFollowsUsers
    LockExcludes
    SignalOnItsWay
PROPERTIES
    AllocationsReturn
    LockCallsReturn
    WaitsEnd
CHECK_DEADLOCK FALSE

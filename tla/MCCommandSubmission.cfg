CONSTANTS
    t1 = t1
    t2 = t2
    t3 = t3
    f1 = f1
    f2 = f2
    f3 = f3
    pd1 = pd1
    pd2 = pd2
    pd3 = pd3
    b1 = b1
    b2 = b2
    b3 = b3
    u1 = u1
    i1 = i1
    i2 = i2
    None = None
    Thread = {t1, t2, t3}
    Submitter = {t1, t2, t3}
    Bo = {pd1, pd2, pd3, b1, b2, b3, u1}
    Inv = {i1, i2}
    Userptr = {u1}
    MaxCs = 2
    MaxTries = 2
    SchedJobs = 2
    Workloads <- SafeWorkloads
SPECIFICATION FairSpec
INVARIANTS
    ReservedPrefix
    HandleNamesFence
    ImplicitSync
    
    ReservationsReleased
PROPERTIES
    
    EveryCsReturns
    InvalidationsEnd
CHECK_DEADLOCK FALSE

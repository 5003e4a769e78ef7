SPECIFICATION FairSpec
CONSTANTS
    e1 = e1  e2 = e2  j1 = j1  j2 = j2  p1 = p1  p2 = p2
    Email = {e1, e2}
    Job = {j1}
    Poller = {p1}
    Deletable = {j1}
    MaxFaults = 1
    MaxAttempts = 2
    Delays <- MCDelays
    Lease = 1
    Batch = 1
    Conclusive = {"valid", "invalid"}
    NoEmail = NoEmail  NoJob = NoJob  NoRow = NoRow
    NoClaim = NoClaim  NoAddress = NoAddress
INVARIANT TypeOK
PROPERTY ImplementsSchedule
CHECK_DEADLOCK FALSE

SPECIFICATION Spec
CONSTANTS
    e1 = e1  e2 = e2  j1 = j1  j2 = j2  p1 = p1  p2 = p2
    Email = {e1}
    Job = {j1, j2}
    Poller = {p1}
    Deletable = {}
    MaxFaults = 0
    MaxAttempts = 1
    Delays <- MCDelays
    Lease = 1
    Batch = 1
    Conclusive = {"valid", "invalid"}
    NoEmail = NoEmail  NoJob = NoJob  NoRow = NoRow
    NoClaim = NoClaim  NoAddress = NoAddress
PROPERTY NeverWorsen
CHECK_DEADLOCK FALSE

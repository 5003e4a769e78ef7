SPECIFICATION Spec
CONSTANTS
    Total = 3
    Blank = {}
    Batch = 2
    Durable = TRUE
    MaxTries = 3
    Faults = {"crash"}
INVARIANT ProcessedWithinTotal
CHECK_DEADLOCK FALSE

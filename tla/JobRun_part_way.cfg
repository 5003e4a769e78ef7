SPECIFICATION Spec
CONSTANTS
    Total = 3
    Blank = {}
    Batch = 2
    Durable = TRUE
    MaxTries = 3
    Faults = {"verify"}
INVARIANT ProvedIsLeftBehind
CHECK_DEADLOCK FALSE

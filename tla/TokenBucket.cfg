SPECIFICATION Spec
CONSTANTS
    mx = mx  api = api  p1 = p1  p2 = p2  c1 = c1
    Key = {mx, api}
    Unit = 3
    Refill <- MCRefill
    Capacity <- MCCapacity
    Prober = {p1, p2}
    Caller = {c1}
    KeyOf <- MCKeyOf
    Patience = 2
    Tries = 3
    Margin = 0
    Shared = TRUE
    MaxBack = 1
    MaxTime = 4
    NoBucket = NoBucket
INVARIANTS TypeOK WithinRate LosesOnlyToOthers RetryAfterIsEnough
CHECK_DEADLOCK FALSE

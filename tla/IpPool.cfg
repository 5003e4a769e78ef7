SPECIFICATION Spec
CONSTANTS
    p1 = p1  p2 = p2
    Prober = {p1, p2}
    N = 3
    Cap = 1
    Cooldown = 1
    MaxProbes = 4
INVARIANTS TypeOK WarmupCapHeld NoIpPassedOver
PROPERTY DefaultRouteOnlyWhenExhausted
SYMMETRY Probers
CHECK_DEADLOCK FALSE

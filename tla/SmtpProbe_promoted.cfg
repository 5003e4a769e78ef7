SPECIFICATION Spec
CONSTANTS
    p1 = p1  p2 = p2  p3 = p3  p4 = p4
    generic = generic  openDomain = openDomain  gateway = gateway
    Prober = {p1, p2}
    Domain = {generic, openDomain, gateway}
    MailboxOf <- OneDomain
    Exists = {p1}
    AcceptAll = {openDomain}
    Strategy <- Table
    Noise <- Deferrals
    LimiterFails = FALSE
    N = 1
    Cap = 3
    Cooldown = 1
    MaxProbes = 6
    Free = Free
INVARIANT CatchAllNeverValid
CHECK_DEADLOCK FALSE

SPECIFICATION FairSpec
CONSTANTS
    p1 = p1  p2 = p2  p3 = p3  p4 = p4
    generic = generic  openDomain = openDomain  gateway = gateway
    Prober = {p1, p2, p3, p4}
    Domain = {generic, openDomain, gateway}
    MailboxOf <- ThreeDomains
    Exists = {p1}
    AcceptAll = {openDomain, gateway}
    Strategy <- Table
    Noise <- EveryNoise
    LimiterFails = TRUE
    N = 1
    Cap = 1
    Cooldown = 0
    MaxProbes = 6
    Free = Free
INVARIANTS TypeOK OneFakePerDomain ValidMeansExists InvalidMeansRejected
PROPERTY EveryProbeReturns
CHECK_DEADLOCK FALSE

SPECIFICATION Spec
CONSTANTS
    Email = {e1, e2}
    Token = {t1, t2}
    Key = {k1}
    Request = {r1, r2}
    Configured = Configured
    RequireAuth = FALSE
    OpenSignup = TRUE
    MaxRequests = 2
    None = None
    Gone = Gone
    Job = {j1, j2}
    Address = {a1, a2}
SYMMETRY Symmetric
INVARIANT AddressesDropped
CHECK_DEADLOCK FALSE

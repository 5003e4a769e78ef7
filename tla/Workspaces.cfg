SPECIFICATION Spec
CONSTANTS
    Email = {e1, e2}
    Token = {t1, t2}
    Key = {k1}
    Request = {r1, r2}
    Configured = Configured
    RequireAuth = TRUE
    OpenSignup = TRUE
    MaxRequests = 4
    None = None
    Gone = Gone
    Job = {j1, j2}
    Address = {a1}
SYMMETRY Symmetric
INVARIANTS TypeOK Apart OwnWorkspace SweptStaysSwept NumbersCountUp ActsAsPresented
PROPERTY OnlyTheirOwn
CHECK_DEADLOCK FALSE

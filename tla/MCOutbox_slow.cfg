CONSTANTS
    p1 = p1
    p2 = p2
    NoTask = NoTask
    Dispatchers = {d1, d2}
    Keys = {k1}
    People = {p1}
    Subscribers <- Alone
    Configured = {"email", "zalo"}
    DailyCap <- CapOne
    MaxAttempts = 2
    Events = {"send_error", "db_error", "crash", "quiet", "age", "slow"}
SPECIFICATION Spec
SYMMETRY Symmetry
INVARIANTS
    TypeOK
    CopiesWithinAttempts

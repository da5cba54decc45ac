CONSTANTS
    p1 = p1
    p2 = p2
    NoTask = NoTask
    Dispatchers = {d1, d2}
    Keys = {k1}
    People = {p1}
    Subscribers <- Alone
    Configured = {"email", "webhook"}
    DailyCap <- NoCap
    MaxAttempts = 2
    Events = {"slow"}
SPECIFICATION Spec
INVARIANTS
    SentOnce

CONSTANTS
    p1 = p1
    p2 = p2
    NoTask = NoTask
    Dispatchers = {d1, d2}
    Keys = {k1}
    People = {p1, p2}
    Subscribers <- Team
    Configured = {"email", "webhook"}
    DailyCap <- NoCap
    MaxAttempts = 3
    Events = {"send_error"}
SPECIFICATION Spec
INVARIANTS
    HeldInv
    SentOnce
PROPERTIES
    SentRowsRest
    EveryRowSettles
    FanOutFollows

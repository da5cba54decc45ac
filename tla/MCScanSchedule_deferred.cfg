CONSTANTS
    t1 = t1
    t2 = t2
    h1 = h1
    h2 = h2
    None = None
    Lookback = 2
    Deadline = 2
    DeferMax = 3
    PauseLength = 2
    DedupWindow = 1
    Tenants = {t1}
    Hotels = {h1}
    Watch <- OneWatch
    Slots <- OneSlots
    Requests = {}
    MaxTime = 8
    MaxTroubles = 2
    Events = {"proxies"}
SPECIFICATION BoundedSpec
PROPERTIES
    NewRunHasTime
CHECK_DEADLOCK FALSE

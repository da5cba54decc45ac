CONSTANTS
    t1 = t1
    t2 = t2
    h1 = h1
    h2 = h2
    None = None
    Lookback = 2
    Deadline = 2
    DeferMax = 3
    PauseLength = 2
    DedupWindow = 1
    Tenants = {t1, t2}
    Hotels = {h1}
    Watch <- SharedWatch
    Slots <- SharedSlots
    Requests = {c1}
    MaxTime = 5
    MaxTroubles = 3
    Events = {"restart", "proxies", "blocks", "tick_error"}
SPECIFICATION BoundedSpec
INVARIANTS
    TypeOK
    NoSlotScannedTwice
PROPERTIES
    LatestSlotServed
    DeadRunsAreReplaced
CHECK_DEADLOCK FALSE

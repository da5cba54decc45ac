SPECIFICATION Spec
CONSTANTS
    s1 = s1
    s2 = s2
    c1 = c1
    m1 = m1
    m2 = m2
    v1 = v1
    x1 = x1
    w1 = w1
    p1 = p1
    p2 = p2
    LastRun = 3
    MaxTries = 2
    EstimateBatch = 1
    PoisonRuns = {1}
    AnalyticsFaults = 1
    Slots = {s1, s2}
    Looks <- SomeLooks
    InsightSlots = {s1, s2}
    Callers = {c1}
    UseBatch = TRUE
    MaxDailyFailures = 2
    InsightTries = 2
    LastDay = 1
    MaxRows = 5
    InsightFaults = 2
    Keys = {"k1", "k2"}
    IdentityOf <- SomeIdentity
    Pages <- SomePages
    Badged = {"k2"}
    Makers = {m1, m2}
    Verifiers = {v1}
    Scanners = {x1}
    Tenants = {"t1"}
    MaxHotels = 4
    MaxQueued = 1
    ListingEdits = 1
    ListingFaults = 1
    RoundNights = 2
    ListWorkers = {w1}
    MaxRounds = 2
    MaxDays = 0
    RoundFaults = 1
    Stale = 2
    Grace = 1
    JobTimeout = 1
    KeepResult = 1
    Processes = {p1, p2}
    Scanning = {p1}
    Templates = 2
    Working = {2}
    FailThreshold = 2
    SessionRequests = 2
    PerMinute = 1
    HttpRetries = 1
    TransientRetries = 1
    Horizon = 1
    FreshNights = {}
    Attempts = 2
    PageJobs = 1
    ProbeFaults = 1
    Checks = {{}, {2}}
INVARIANTS
    AnalyticsIsSound
    MetricIsNewestAlone
    ListingsAreSound
    OneDailyInsight
PROPERTIES
    AllAnswered
CHECK_DEADLOCK FALSE

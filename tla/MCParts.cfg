SPECIFICATION Spec
CONSTANTS
    w1 = w1
    w2 = w2
    p1 = p1
    p2 = p2
    c1 = c1
    StockInputs <- SomeStocks
    PriceInputs <- SomePrices
    OtbInputs <- SomeOtb
    PaceInputs <- SomePaces
    BookInputs <- SomeBooks
    AlertInputs <- SomeAlerts
    ListInputs <- SomeLists
    RadarInputs <- SomeHotels
    CompsetInputs <- SomeCompsets
    EvidenceInputs <- SomeEvidence
    PageCap = 2
    Window = 1
    MaxLead = 2
    HistoryWeeks = 2
    MaxRefs = 1
    RoundNights = 2
    ListWorkers = {w1, w2}
    MaxRounds = 2
    MaxDays = 1
    RoundFaults = 1
    Stale = 2
    Grace = 1
    JobTimeout = 1
    KeepResult = 1
    Town <- SomeTown
    SplitBy <- SomeSplit
    OnCard = {"class"}
    Orders = {"default", "price"}
    PerPage = 3
    MaxRequests = 4
    Discover = TRUE
    OpsChannels = {c1}
    OpsRates = {70, 75, 90}
    OpsAges <- SomeAges
    OpsHours = 4
    OpsGap = 3
    Processes = {p1, p2}
    Scanning = {p1}
    Templates = 2
    Working = {2}
    FailThreshold = 2
    SessionRequests = 2
    PerMinute = 1
    HttpRetries = 1
    TransientRetries = 1
    Horizon = 2
    FreshNights = {0}
    Attempts = 2
    PageJobs = 1
    ProbeFaults = 1
    Checks = {{}, {1}, {2}}
SYMMETRY WorkersAlike
INVARIANTS
    EstimatesAreTight
    PricesAreHeld
    BookedIsTrue
    AlertsAreComplete
    EvidenceIsInput
    RoundIsWhole
    MarketIsTold
    NightIsWhole
    AttemptIsWhole
    BudgetHeld
    FailoverIsQuick
PROPERTIES
    UsableIsKept
    TroubleIsTold
CHECK_DEADLOCK FALSE

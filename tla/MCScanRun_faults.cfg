CONSTANTS
    r1 = r1
    r2 = r2
    MaxTries = 2
    Rank <- RankMC
    NoTask = NoTask
    Runs = {r1}
    MarketRuns = {}
    Hotels = {1}
    Workers = {w1, w2}
    Inflight = 1
    MaxAge = 2
    Events <- AllEventsMC
SPECIFICATION FairSpec
INVARIANTS
    AnalyticsOnlyClosed
PROPERTIES
    EveryRunCloses
    ClosedRunIsAnalyzed
CHECK_DEADLOCK FALSE

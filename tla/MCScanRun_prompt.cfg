CONSTANTS
    r1 = r1
    r2 = r2
    MaxTries = 2
    Rank <- RankMC
    NoTask = NoTask
    Runs = {r1, r2}
    MarketRuns = {r1}
    Hotels = {1, 2}
    Workers = {w1}
    Inflight = 1
    MaxAge = 1
    Events = {"scheduler_crash", "push_lost", "hook_lost", "channel_pause"}
SPECIFICATION FairSpec
CONSTRAINT OneRun
PROPERTIES
    EveryRunCloses
CHECK_DEADLOCK FALSE

CONSTANTS
    r1 = r1
    r2 = r2
    MaxTries = 2
    Rank <- RankMC
    NoTask = NoTask
    Runs = {r1}
    MarketRuns = {}
    Hotels = {1, 2}
    Workers = {w1, w2}
    Inflight = 1
    MaxAge = 2
    Events = {"worker_crash"}
SPECIFICATION Spec
INVARIANTS
    RunningHasPendingJob
    CompletedMeansAllDone
    ClosedHasNoQueuedJob
    IInv
PROPERTIES
    ClosedOnce
    DoneIsFinal
    ImplementsLifecycle
SYMMETRY WorkerSymmetry
CHECK_DEADLOCK FALSE

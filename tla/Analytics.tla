----------------------------- MODULE Analytics -----------------------------
(***************************************************************************)
(* Analytics of the scan runs of one hotel, channel and night              *)
(* (analytics/service.py, jobs/settings.py) and the occupancy estimates    *)
(* made from them (market/occupancy_service.py, market/jobs.py).  A run's  *)
(* analytics is one READ COMMITTED transaction of an arq job: it reads the *)
(* night's snapshots of the other runs, then whether the metric is newer,  *)
(* and what it writes is seen when it commits.                             *)
(***************************************************************************)
EXTENDS ObservationRules

CONSTANTS
    LastRun,        \* bound: scan runs 1..LastRun, a day apart
    Looks,          \* what a run may find: [status, minStay, rooms]
    Slots,          \* jobs the worker executes at a time (max_jobs)
    MaxTries,       \* max_tries of the worker
    EstimateBatch,  \* BATCH_RUNS
    PoisonRuns,     \* runs whose estimate raises
    AnalyticsFaults \* bound: crashes, errors and lost pushes

ASSUME AnalyticsBounds ==
    /\ {LastRun, MaxTries, EstimateBatch} \subseteq Nat \ {0} /\ AnalyticsFaults \in Nat
    /\ PoisonRuns \subseteq Nat
    /\ \A l \in Looks : l.status # "none"

VARIABLES
    look,     \* for a run: what its probe of the night found, once it is closed
    analysed, \* runs with a row in hotel_date_snapshots
    events,   \* for a run: its rows in availability_events
    metric,   \* the row of hotel_date_metrics, and the run it is of
    ajob,     \* for a run: its arq job and how often it was started
    slot,     \* for a slot: the job it executes and what its transaction read
    estimate, \* for a run: its row in occupancy_estimate_runs
    batch,    \* the runs the estimate cron still has to do
    together, \* two analytics jobs were executed at the same time (history)
    afaults

analyticsVars == <<look, analysed, events, metric, ajob, slot, estimate, batch, together, afaults>>

ScanRuns == 1..LastRun
NoLook == [status |-> "none"]
NoMetric == [of |-> 0]
FreeSlot == [pc |-> "free", run |-> 0, hist |-> {}, newer |-> FALSE]
NoTask == [at |-> "none", tries |-> 0]
AnalyticsFault == afaults < AnalyticsFaults /\ afaults' = afaults + 1

AnalyticsInit ==
    /\ look = [r \in ScanRuns |-> NoLook]
    /\ analysed = {} /\ events = [r \in ScanRuns |-> {}] /\ metric = NoMetric
    /\ ajob = [r \in ScanRuns |-> NoTask] /\ slot = [s \in Slots |-> FreeSlot]
    /\ estimate = [r \in ScanRuns |-> "none"] /\ batch = {} /\ together = FALSE /\ afaults = 0

(* _load_current and _load_history.                                        *)
Observation(r) ==
    [run |-> r, at |-> r, status |-> look[r].status, minStay |-> look[r].minStay, rooms |-> look[r].rooms]
History(r) == {Observation(q) : q \in analysed \ {r}}

Closed == {r \in ScanRuns : look[r] # NoLook}
Pushed(r) == IF ajob[r].at = "none" THEN [ajob EXCEPT ![r] = [at |-> "queued", tries |-> 0]] ELSE ajob

(* The run is closed, and its analytics pushed unless Redis fails.         *)
CloseRun(r, l) ==
    /\ look[r] = NoLook /\ \A q \in 1..(r - 1) : look[q] # NoLook
    /\ look' = [look EXCEPT ![r] = l]
    /\ \/ ajob' = Pushed(r) /\ UNCHANGED afaults
       \/ AnalyticsFault /\ UNCHANGED ajob
    /\ UNCHANGED <<analysed, events, metric, slot, estimate, batch, together>>

(* analytics_catch_up: pending_run_ids and a push each.                    *)
AnalyticsCatchUp(r) ==
    /\ r \in Closed \ analysed /\ ajob[r].at = "none"
    /\ ajob' = Pushed(r)
    /\ UNCHANGED <<look, analysed, events, metric, slot, estimate, batch, together, afaults>>

(* keep_result is over.                                                    *)
ForgetResult(r) ==
    /\ ajob[r].at = "kept"
    /\ ajob' = [ajob EXCEPT ![r] = NoTask]
    /\ UNCHANGED <<look, analysed, events, metric, slot, estimate, batch, together, afaults>>

(* run, _process_hotel: the transaction's reads ...                        *)
StartAnalytics(s, r) ==
    /\ slot[s].pc = "free" /\ ajob[r].at = "queued"
    /\ ajob' = [ajob EXCEPT ![r] = [at |-> "executing", tries |-> @.tries + 1]]
    /\ slot' = [slot EXCEPT ![s] = [pc |-> "read", run |-> r, hist |-> History(r), newer |-> FALSE]]
    /\ together' = (together \/ \E q \in Slots : slot[q].pc \in {"read", "write"})
    /\ UNCHANGED <<look, analysed, events, metric, estimate, batch, afaults>>

(* ... the check that the metric is not newer ...                          *)
MetricIsOlderOnly(r) == FALSE \* Mutant: no check
MetricIsNewer(r) == metric.of > r

CheckMetric(s) ==
    /\ slot[s].pc = "read"
    /\ slot' = [slot EXCEPT ![s].pc = "write", ![s].newer = MetricIsNewer(slot[s].run)]
    /\ UNCHANGED <<look, analysed, events, metric, ajob, estimate, batch, together, afaults>>

(* ... its events, in place of those of an earlier execution, and the      *)
(* commit of all it wrote.                                                 *)
Drafts(r, hist) ==
    LET cur == Observation(r)
        prev == LastObservedBefore(hist, cur.at)
        prev2 == UNION {LastObservedBefore(hist, p.at) : p \in prev}
        seen == UNION {Types(h) : h \in {x \in hist : x.at < cur.at}}
    IN DiffEvents(prev, cur, prev2, seen)

ReplacedEventsAdded(r, drafts) == events[r] \cup drafts \* Mutant: no delete
ReplacedEvents(r, drafts) == drafts

SoldOutAt(evs) == GreatestOf({q \in ScanRuns : \E e \in evs[q] : e.type = "sold_out"})

CommitAnalytics(s) ==
    LET r == slot[s].run  hist == slot[s].hist IN
    /\ slot[s].pc = "write"
    /\ analysed' = analysed \cup {r}
    /\ events' = [events EXCEPT ![r] = ReplacedEvents(r, Drafts(r, hist))]
    /\ metric' = IF slot[s].newer THEN metric
                 ELSE [of |-> r, figures |-> ComputeMetrics(Observation(r), hist, LastRun),
                       soldOutAt |-> SoldOutAt(events')]
    /\ slot' = [slot EXCEPT ![s] = [pc |-> "done", run |-> r, hist |-> {}, newer |-> FALSE]]
    /\ UNCHANGED <<look, ajob, estimate, batch, together, afaults>>

EndAnalytics(s) ==
    /\ slot[s].pc = "done"
    /\ ajob' = [ajob EXCEPT ![slot[s].run].at = "kept"]
    /\ slot' = [slot EXCEPT ![s] = FreeSlot]
    /\ UNCHANGED <<look, analysed, events, metric, estimate, batch, together, afaults>>

(* An exception ends the job; a crash (an uncommitted transaction is       *)
(* rolled back) leaves it to arq, which starts it again up to max_tries.   *)
AnalyticsStops(s) ==
    LET r == slot[s].run IN
    /\ slot[s].pc # "free" /\ AnalyticsFault
    /\ \/ slot[s].pc # "done" /\ ajob' = [ajob EXCEPT ![r].at = "kept"]
       \/ ajob' = [ajob EXCEPT ![r].at = IF @ = "executing" /\ ajob[r].tries < MaxTries
                                         THEN "queued" ELSE "kept"]
    /\ slot' = [slot EXCEPT ![s] = FreeSlot]
    /\ UNCHANGED <<look, analysed, events, metric, estimate, batch, together>>

----------------------------------------------------------------------------
(* estimate_occupancy_catch_up: the oldest runs analysed and not estimated *)
(* yet, each in a transaction of its own.                                  *)
ToEstimate == {r \in analysed : estimate[r] = "none"}

StartEstimates ==
    /\ batch = {} /\ ToEstimate # {}
    /\ batch' = {r \in ToEstimate : Cardinality({q \in ToEstimate : q < r}) < EstimateBatch}
    /\ UNCHANGED <<look, analysed, events, metric, ajob, slot, estimate, together, afaults>>

(* mark_failed keeps a run that raises from being read first for ever.     *)
MarkedFailedNot(r) == "none" \* Mutant: no mark
MarkedFailed(r) == "failed"

EstimateRun(r) ==
    /\ r \in batch /\ \A q \in batch : r <= q
    /\ batch' = batch \ {r}
    /\ estimate' = [estimate EXCEPT ![r] = IF r \in PoisonRuns THEN MarkedFailed(r) ELSE "written"]
    /\ UNCHANGED <<look, analysed, events, metric, ajob, slot, together, afaults>>

EstimatesCrash ==
    /\ batch # {} /\ AnalyticsFault
    /\ batch' = {}
    /\ UNCHANGED <<look, analysed, events, metric, ajob, slot, estimate, together>>

----------------------------------------------------------------------------
SlotStep(s) ==
    (\E r \in ScanRuns : StartAnalytics(s, r)) \/ CheckMetric(s) \/ CommitAnalytics(s) \/ EndAnalytics(s)
Estimates == StartEstimates \/ \E r \in ScanRuns : EstimateRun(r)

AnalyticsNext ==
    \/ \E r \in ScanRuns : AnalyticsCatchUp(r) \/ ForgetResult(r) \/ \E l \in Looks : CloseRun(r, l)
    \/ \E s \in Slots : SlotStep(s) \/ AnalyticsStops(s)
    \/ Estimates \/ EstimatesCrash

(* The crons come round, the worker takes jobs and results expire; no scan *)
(* need ever close.                                                        *)
AnalyticsFairness ==
    /\ WF_analyticsVars(\E r \in ScanRuns : AnalyticsCatchUp(r) \/ ForgetResult(r))
    /\ \A s \in Slots : WF_analyticsVars(SlotStep(s))
    /\ WF_analyticsVars(Estimates)

AnalyticsSpec ==
    AnalyticsInit /\ [][AnalyticsNext]_analyticsVars /\ AnalyticsFairness

----------------------------------------------------------------------------
AnalyticsTypeOK ==
    /\ \A r \in ScanRuns : look[r] \in Looks \cup {NoLook}
    /\ analysed \subseteq Closed
    /\ metric.of \in {0} \cup analysed
    /\ \A r \in ScanRuns : /\ ajob[r].at \in {"none", "queued", "executing", "kept"}
                           /\ ajob[r].tries \in 0..MaxTries
                           /\ estimate[r] \in {"none", "written", "failed"}
    /\ batch \subseteq analysed
    /\ afaults \in 0..AnalyticsFaults

(* The metrics of a night are those of the newest run analysed, in         *)
(* whatever order the jobs are executed and however often (service.py:     *)
(* "metrics (only when this one is newer than the one written)").          *)
MetricIsNewest == analysed # {} => metric.of = Max(analysed)

(* The same as long as no two of the jobs were executed together.          *)
MetricIsNewestAlone == ~together => MetricIsNewest

(* An execution replaces the events of the one before it, which saw        *)
(* another history: a run tells of one change of status at most, and of    *)
(* nothing else when the night was not on sale before and after.           *)
StatusEvents == {"sold_out", "restock", "restricted", "restriction_lifted"}
OneChangeOfStatus ==
    \A r \in ScanRuns : (\E e \in events[r] : e.type \in StatusEvents) => Cardinality(events[r]) = 1

(* A change of status is reported by one run only, and what was analysed   *)
(* was closed (analytics/service.py).                                      *)
AnalyticsIsSound == AnalyticsTypeOK /\ OneChangeOfStatus

=============================================================================

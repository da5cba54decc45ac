------------------------------ MODULE ScanRun ------------------------------
(***************************************************************************)
(* The life of a scan run: the database rows scan_runs and scan_jobs, the  *)
(* arq queue of the channel, the collector workers that execute            *)
(* probe_hotel, the scheduler that closes overdue runs and feeds the queue *)
(* again, and the analytics job that follows a closed run.                 *)
(*                                                                         *)
(* A transaction is split where another one can come between: start_job    *)
(* reads and later writes; the transaction that settles a job first holds  *)
(* the row of the job, then the row of the run (SELECT ... FOR UPDATE),    *)
(* and publishes both at its commit.                                       *)
(***************************************************************************)
EXTENDS Naturals, FiniteSets

CONSTANTS
    Runs,        \* the runs that can be created: one per trigger_key
    MarketRuns,  \* those whose key starts with MARKET_RUN_PREFIX
    Hotels,
    Workers,     \* worker processes of the channel, one job each (max_jobs = 1)
    MaxTries,    \* MAX_TRIES of worker/settings.py
    Inflight,    \* market_detail_inflight
    Rank,        \* order in which a market run's hotels are fed, a number per hotel
    MaxAge,      \* 2: runs can reach their deadline; 1: they stay younger
    Events,      \* what the environment may do, a subset of AllEvents
    NoTask

AllEvents == {"worker_crash", "worker_error", "scheduler_crash", "push_lost",
              "hook_lost", "analytics_error", "channel_pause", "listing_change"}

Tasks == Runs \X Hotels

ASSUME ConstantAssumption ==
    /\ MarketRuns \subseteq Runs
    /\ IsFiniteSet(Hotels)
    /\ MaxTries \in Nat \ {0}
    /\ Inflight \in Nat \ {0}
    /\ Rank \in [Hotels -> Nat]
    /\ \A g, h \in Hotels : Rank[g] = Rank[h] => g = h
    /\ MaxAge \in 1 .. 2
    /\ Events \subseteq AllEvents
    /\ NoTask \notin Tasks
    /\ NoTask \notin Workers

VARIABLES
    \* committed database state
    run,       \* scan_runs.status
    total,     \* hotels whose probes scan_runs.total_probes counted at closing
    job,       \* scan_jobs.status of each (run, hotel)
    probed,    \* hotels with probes rows of the run
    analyzed,  \* hotels with hotel_date_snapshots rows of the run
    listing,   \* whether the hotel's listing is "active"
    age,       \* 0: just started, 1: older than stale_after, 2: past its deadline
    \* Redis
    arq,       \* the job probe:<run>:<hotel> in the channel's queue
    tries,     \* arq's job_try of that job
    ana,       \* the job analytics:<run> in the jobs queue
    paused,    \* the key channel_paused:<channel>
    \* worker processes
    pc, on, seen, out, verdict, tally,
    lock,      \* which worker holds the row lock of the run
    \* scheduler and API processes
    toPush,    \* jobs of created runs still to be enqueued
    overdue,   \* runs expire_runs has selected
    toHook     \* expired runs whose analytics job is still to be enqueued

db == <<run, total, job, probed, analyzed, listing, age>>
redis == <<arq, tries, ana, paused>>
worker == <<pc, on, seen, out, verdict, tally, lock>>
producer == <<toPush, overdue, toHook>>
vars == <<db, redis, worker, producer>>

RunStatus == {"absent", "running", "completed", "partial"}
Pending == {"queued", "running", "retrying"}    \* PENDING_JOB_STATUSES
JobStatus == Pending \union {"none", "done", "failed"}
Closed(r) == run[r] \in {"completed", "partial"}
JobsOf(r) == {h \in Hotels : job[<<r, h>>] # "none"}

PCs == {"idle", "called", "start", "refuse", "probe", "settle", "lock", "commit",
        "hook", "return"}
Outcomes == {"none", "done", "failed", "gone", "refused"}
Verdicts == {"none", "leave", "completed", "partial"}

TypeOK ==
    /\ run \in [Runs -> RunStatus]
    /\ total \in [Runs -> SUBSET Hotels]
    /\ job \in [Tasks -> JobStatus]
    /\ probed \in [Runs -> SUBSET Hotels]
    /\ analyzed \in [Runs -> SUBSET Hotels]
    /\ listing \in [Hotels -> BOOLEAN]
    /\ age \in [Runs -> 0 .. 2]
    /\ arq \in [Tasks -> {"absent", "queued", "taken", "result"}]
    /\ tries \in [Tasks -> 0 .. MaxTries]
    /\ ana \in [Runs -> {"absent", "queued", "result"}]
    /\ paused \in BOOLEAN
    /\ pc \in [Workers -> PCs]
    /\ on \in [Workers -> Tasks \union {NoTask}]
    /\ seen \in [Workers -> JobStatus]
    /\ out \in [Workers -> Outcomes]
    /\ verdict \in [Workers -> Verdicts]
    /\ tally \in [Workers -> SUBSET Hotels]
    /\ lock \in [Runs -> Workers \union {NoTask}]
    /\ toPush \subseteq Tasks
    /\ overdue \subseteq Runs
    /\ toHook \subseteq Runs

Init ==
    /\ run = [r \in Runs |-> "absent"]
    /\ total = [r \in Runs |-> {}]
    /\ job = [t \in Tasks |-> "none"]
    /\ probed = [r \in Runs |-> {}]
    /\ analyzed = [r \in Runs |-> {}]
    /\ listing = [h \in Hotels |-> TRUE]
    /\ age = [r \in Runs |-> 0]
    /\ arq = [t \in Tasks |-> "absent"]
    /\ tries = [t \in Tasks |-> 0]
    /\ ana = [r \in Runs |-> "absent"]
    /\ paused = FALSE
    /\ pc = [w \in Workers |-> "idle"]
    /\ on = [w \in Workers |-> NoTask]
    /\ seen = [w \in Workers |-> "none"]
    /\ out = [w \in Workers |-> "none"]
    /\ verdict = [w \in Workers |-> "none"]
    /\ tally = [w \in Workers |-> {}]
    /\ lock = [r \in Runs |-> NoTask]
    /\ toPush = {}
    /\ overdue = {}
    /\ toHook = {}

-----------------------------------------------------------------------------
(* Redis: arq ignores a job whose _job_id is queued, executing or still has *)
(* a kept result.                                                           *)

\* Mutant: a push without _job_id.
EnqueueWithoutId(S) == arq' = [t \in Tasks |-> IF t \in S THEN "queued" ELSE arq[t]]

Enqueue(S) == arq' = [t \in Tasks |-> IF t \in S /\ arq[t] = "absent"
                                      THEN "queued" ELSE arq[t]]

EnqueueAnalytics(S) == ana' = [r \in Runs |-> IF r \in S /\ ana[r] = "absent"
                                              THEN "queued" ELSE ana[r]]

\* keep_result elapses.
ResultExpires(t) ==
    /\ arq[t] = "result"
    /\ arq' = [arq EXCEPT ![t] = "absent"]
    /\ UNCHANGED <<db, tries, ana, paused, worker, producer>>

AnalyticsResultExpires(r) ==
    /\ ana[r] = "result"
    /\ ana' = [ana EXCEPT ![r] = "absent"]
    /\ UNCHANGED <<db, arq, tries, paused, worker, producer>>

\* The scheduler pauses the channel when too many probes were blocked.
PauseChannel ==
    /\ "channel_pause" \in Events
    /\ ~paused
    /\ paused' = TRUE
    /\ UNCHANGED <<db, arq, tries, ana, worker, producer>>

\* The time to live of the key elapses.
PauseExpires ==
    /\ paused
    /\ paused' = FALSE
    /\ UNCHANGED <<db, arq, tries, ana, worker, producer>>

-----------------------------------------------------------------------------
(* Producers: the scheduler's tick and "scan now".                          *)

\* One transaction inserts the run and one queued job per planned hotel. The
\* jobs of a market run are left to TopUp.
CreateRun(r, H) ==
    /\ run[r] = "absent"
    /\ H # {}
    /\ run' = [run EXCEPT ![r] = "running"]
    /\ job' = [t \in Tasks |-> IF t \in {r} \X H THEN "queued" ELSE job[t]]
    /\ toPush' = IF r \in MarketRuns THEN toPush ELSE toPush \union ({r} \X H)
    /\ UNCHANGED <<total, probed, analyzed, listing, age, redis, worker, overdue, toHook>>

\* After the commit the jobs are pushed one by one.
PushProbe(t) ==
    /\ t \in toPush
    /\ Enqueue({t})
    /\ toPush' = toPush \ {t}
    /\ UNCHANGED <<db, tries, ana, paused, worker, overdue, toHook>>

\* The push raised, or its process died before it.
PushLost(t) ==
    /\ "push_lost" \in Events
    /\ t \in toPush
    /\ toPush' = toPush \ {t}
    /\ UNCHANGED <<db, redis, worker, overdue, toHook>>

\* Time passes: a running run becomes stale, then overdue.
Age(r) ==
    /\ run[r] = "running"
    /\ age[r] < MaxAge
    /\ age' = [age EXCEPT ![r] = @ + 1]
    /\ UNCHANGED <<run, total, job, probed, analyzed, listing, redis, worker, producer>>

\* Mutant: the analytics of the expired runs is enqueued before the commit.
ExpireSelectAndHook ==
    LET late == {r \in Runs : run[r] = "running" /\ age[r] = 2}
    IN  /\ overdue = {}
        /\ toHook = {}
        /\ late # {}
        /\ overdue' = late
        /\ toHook' = late
        /\ UNCHANGED <<db, redis, worker, toPush>>

\* expire_runs: select the overdue runs.
ExpireSelect ==
    LET late == {r \in Runs : run[r] = "running" /\ age[r] = 2}
    IN  /\ overdue = {}
        /\ toHook = {}
        /\ late # {}
        /\ overdue' = late
        /\ UNCHANGED <<db, redis, worker, toPush, toHook>>

\* A worker whose open transaction has updated the row of its job.
HoldsJobRow(w) == pc[w] \in {"lock", "commit"}

\* Mutants of try_finish_run: "retrying" jobs, or "queued" ones, are not waited for;
\* a run that is no longer running is closed again.
FinishBeforeRetry(r, J) ==
    LET statuses == {J[<<r, h>>] : h \in Hotels} \ {"none"}
    IN  IF run[r] # "running" \/ statuses \cap {"queued", "running"} # {} THEN "leave"
        ELSE IF "failed" \in statuses THEN "partial"
        ELSE "completed"

FinishBeforeQueued(r, J) ==
    LET statuses == {J[<<r, h>>] : h \in Hotels} \ {"none"}
    IN  IF run[r] # "running" \/ statuses \cap {"running", "retrying"} # {} THEN "leave"
        ELSE IF "failed" \in statuses THEN "partial"
        ELSE "completed"

FinishAgain(r, J) ==
    LET statuses == {J[<<r, h>>] : h \in Hotels} \ {"none"}
    IN  IF statuses \cap Pending # {} THEN "leave"
        ELSE IF "failed" \in statuses THEN "partial"
        ELSE "completed"

\* try_finish_run, once the row of run r is locked, as seen by a transaction
\* whose jobs are J: what it decides about the run.
FinishVerdict(r, J) ==
    LET statuses == {J[<<r, h>>] : h \in Hotels} \ {"none"}
    IN  IF run[r] # "running" \/ statuses \cap Pending # {} THEN "leave"
        ELSE IF "failed" \in statuses THEN "partial"
        ELSE "completed"

\* Mutant: the deadline fails only the jobs that never started.
ExpireQueuedOnly ==
    LET J == [t \in Tasks |-> IF t[1] \in overdue /\ job[t] = "queued"
                              THEN "failed" ELSE job[t]]
        closing == {r \in overdue : FinishVerdict(r, J) # "leave"}
    IN  /\ overdue # {}
        /\ \A r \in overdue : lock[r] = NoTask
        /\ job' = J
        /\ run' = [r \in Runs |-> IF r \in closing THEN FinishVerdict(r, J) ELSE run[r]]
        /\ total' = [r \in Runs |-> IF r \in closing THEN probed[r] ELSE total[r]]
        /\ overdue' = {}
        /\ toHook' = overdue
        /\ UNCHANGED <<probed, analyzed, listing, age, redis, worker, toPush>>

\* expire_runs, second half: fail the pending jobs of each selected run and try
\* to finish it. The UPDATE waits for the rows of jobs held by a worker, the
\* SELECT ... FOR UPDATE for the row of the run; one commit publishes it all.
ExpireCommit ==
    LET J == [t \in Tasks |-> IF t[1] \in overdue /\ job[t] \in Pending
                              THEN "failed" ELSE job[t]]
        closing == {r \in overdue : FinishVerdict(r, J) # "leave"}
    IN  /\ overdue # {}
        /\ \A r \in overdue : lock[r] = NoTask
        /\ \A w \in Workers : HoldsJobRow(w) =>
               ~(on[w][1] \in overdue /\ job[on[w]] \in Pending)
        /\ job' = J
        /\ run' = [r \in Runs |-> IF r \in closing THEN FinishVerdict(r, J) ELSE run[r]]
        /\ total' = [r \in Runs |-> IF r \in closing THEN probed[r] ELSE total[r]]
        /\ overdue' = {}
        /\ toHook' = overdue
        /\ UNCHANGED <<probed, analyzed, listing, age, redis, worker, toPush>>

\* The tick enqueues the analytics of every run expire_runs returned.
ExpireHook(r) ==
    /\ r \in toHook
    /\ EnqueueAnalytics({r})
    /\ toHook' = toHook \ {r}
    /\ UNCHANGED <<db, arq, tries, paused, worker, toPush, overdue>>

\* Mutant: looks for jobs that were started, not for those never pushed.
RequeueRetrying(t) ==
    /\ overdue = {} /\ toHook = {}
    /\ run[t[1]] = "running" /\ age[t[1]] = 1 /\ t[1] \notin MarketRuns
    /\ job[t] = "retrying"
    /\ arq[t] = "absent"
    /\ Enqueue({t})
    /\ UNCHANGED <<db, tries, ana, paused, worker, producer>>

\* stale_queued_jobs, after expire_runs in the same tick: a run old enough to be
\* expired has been, hence age 1.
Requeue(t) ==
    /\ overdue = {} /\ toHook = {}
    /\ run[t[1]] = "running" /\ age[t[1]] = 1 /\ t[1] \notin MarketRuns
    /\ job[t] = "queued"
    /\ arq[t] = "absent"
    /\ Enqueue({t})
    /\ UNCHANGED <<db, tries, ana, paused, worker, producer>>

\* Mutant: the LIMIT is taken before the jobs already settled are left out.
WindowOfAll(r) ==
    {h \in Hotels : /\ job[<<r, h>>] = "queued"
                    /\ Cardinality({g \in JobsOf(r) : Rank[g] < Rank[h]}) < Inflight}

\* The queued jobs of r that the market scheduler's LIMIT keeps.
Window(r) ==
    LET waiting == {h \in Hotels : job[<<r, h>>] = "queued"}
    IN  {h \in waiting : Cardinality({g \in waiting : Rank[g] < Rank[h]}) < Inflight}

\* MarketScheduler._top_up for one running market run.
TopUp(r) ==
    /\ overdue = {} /\ toHook = {}
    /\ r \in MarketRuns /\ run[r] = "running" /\ age[r] < 2
    /\ ~paused
    /\ \E h \in Window(r) : arq[<<r, h>>] = "absent"
    /\ Enqueue({r} \X Window(r))
    /\ UNCHANGED <<db, tries, ana, paused, worker, producer>>

\* The scheduler restarts; what expire_runs had not committed is rolled back.
SchedulerCrash ==
    /\ "scheduler_crash" \in Events
    /\ overdue # {} \/ toHook # {}
    /\ overdue' = {}
    /\ toHook' = {}
    /\ UNCHANGED <<db, redis, worker, toPush>>

\* The user pauses, fixes or removes the listing, or adds it back.
ListingChanges(h) ==
    /\ "listing_change" \in Events
    /\ listing' = [listing EXCEPT ![h] = ~@]
    /\ UNCHANGED <<run, total, job, probed, analyzed, age, redis, worker, producer>>

-----------------------------------------------------------------------------
(* Workers.                                                                 *)

Reset(w) ==
    /\ pc' = [pc EXCEPT ![w] = "idle"]
    /\ on' = [on EXCEPT ![w] = NoTask]
    /\ seen' = [seen EXCEPT ![w] = "none"]
    /\ out' = [out EXCEPT ![w] = "none"]
    /\ verdict' = [verdict EXCEPT ![w] = "none"]
    /\ tally' = [tally EXCEPT ![w] = {}]
    /\ lock' = [r \in Runs |-> IF lock[r] = w THEN NoTask ELSE lock[r]]

\* arq records the end of a job: no retry key, a kept result.
ArqDone(t) ==
    /\ arq' = [arq EXCEPT ![t] = "result"]
    /\ tries' = [tries EXCEPT ![t] = 0]

\* arq hands a queued job to an idle worker.
TakeJob(w, t) ==
    /\ pc[w] = "idle"
    /\ arq[t] = "queued"
    /\ tries[t] < MaxTries
    /\ arq' = [arq EXCEPT ![t] = "taken"]
    /\ tries' = [tries EXCEPT ![t] = @ + 1]
    /\ pc' = [pc EXCEPT ![w] = "called"]
    /\ on' = [on EXCEPT ![w] = t]
    /\ UNCHANGED <<db, ana, paused, seen, out, verdict, tally, lock, producer>>

\* The tries are used up (its last worker died): arq ends the job uncalled.
DropJob(t) ==
    /\ arq[t] = "queued"
    /\ tries[t] = MaxTries
    /\ ArqDone(t)
    /\ UNCHANGED <<db, ana, paused, worker, producer>>

\* Mutant: start_job does not look whether the job is done.
StartDoneJob(w) ==
    LET t == on[w] IN
    /\ pc[w] = "called"
    /\ IF run[t[1]] # "running"
       THEN /\ pc' = [pc EXCEPT ![w] = "return"]
            /\ UNCHANGED seen
       ELSE /\ pc' = [pc EXCEPT ![w] = IF paused THEN "refuse" ELSE "start"]
            /\ seen' = [seen EXCEPT ![w] = job[t]]
    /\ UNCHANGED <<db, redis, on, out, verdict, tally, lock, producer>>

\* probe_hotel looks at the pause, then start_job reads the job and its run: a
\* finished job or a closed run ends the call.
StartRead(w) ==
    LET t == on[w] IN
    /\ pc[w] = "called"
    /\ IF job[t] = "done" \/ run[t[1]] # "running"
       THEN /\ pc' = [pc EXCEPT ![w] = "return"]
            /\ UNCHANGED seen
       ELSE /\ pc' = [pc EXCEPT ![w] = IF paused THEN "refuse" ELSE "start"]
            /\ seen' = [seen EXCEPT ![w] = job[t]]
    /\ UNCHANGED <<db, redis, on, out, verdict, tally, lock, producer>>

\* start_job writes "running" and the transaction commits. A row read as
\* "running" (a worker died on it) has no change to write.
StartRun(w) ==
    LET t == on[w] IN
    /\ pc[w] = "start"
    /\ listing[t[2]]
    /\ job' = IF seen[w] = "running" THEN job ELSE [job EXCEPT ![t] = "running"]
    /\ pc' = [pc EXCEPT ![w] = "probe"]
    /\ seen' = [seen EXCEPT ![w] = "none"]
    /\ UNCHANGED <<run, total, probed, analyzed, listing, age, redis,
                   on, out, verdict, tally, lock, producer>>

\* The channel is paused (fail_job) or the listing is not active: the same
\* transaction goes on to settle the job as failed.
StartRefused(w) ==
    /\ \/ pc[w] = "refuse"
       \/ pc[w] = "start" /\ ~listing[on[w][2]]
    /\ pc' = [pc EXCEPT ![w] = "lock"]
    /\ out' = [out EXCEPT ![w] = "refused"]
    /\ seen' = [seen EXCEPT ![w] = "none"]
    /\ UNCHANGED <<db, redis, on, verdict, tally, lock, producer>>

\* The calendar and the nights. Each night commits its probe; an attempt that
\* raises may have written some or none; a 404 is raised after its probe.
Probe(w, o, wrote) ==
    LET t == on[w] IN
    /\ pc[w] = "probe"
    /\ o \in {"done", "failed", "gone"}
    /\ o = "gone" => wrote
    /\ probed' = IF wrote THEN [probed EXCEPT ![t[1]] = @ \union {t[2]}] ELSE probed
    /\ out' = [out EXCEPT ![w] = o]
    /\ pc' = [pc EXCEPT ![w] = "settle"]
    /\ UNCHANGED <<run, total, job, analyzed, listing, age, redis,
                   on, seen, verdict, tally, lock, producer>>

\* A failure that arq will try again: not the last attempt and not permanent.
WillRetry(w) == out[w] = "failed" /\ tries[on[w]] < MaxTries

NewStatus(w) == IF out[w] = "done" THEN "done" ELSE "failed"

\* finish_job "retrying" commits at once: the run is not looked at.
SettleRetrying(w) ==
    /\ pc[w] = "settle"
    /\ WillRetry(w)
    /\ job' = [job EXCEPT ![on[w]] = "retrying"]
    /\ pc' = [pc EXCEPT ![w] = "return"]
    /\ UNCHANGED <<run, total, probed, analyzed, listing, age, redis,
                   on, seen, out, verdict, tally, lock, producer>>

\* finish_job updates the row of the job, unconditionally, and keeps it locked.
SettleJob(w) ==
    /\ pc[w] = "settle"
    /\ ~WillRetry(w)
    /\ pc' = [pc EXCEPT ![w] = "lock"]
    /\ UNCHANGED <<db, redis, on, seen, out, verdict, tally, lock, producer>>

\* Mutant: the run is read without FOR UPDATE.
CountUnlocked(w) ==
    LET t == on[w] IN
    /\ pc[w] = "lock"
    /\ verdict' = [verdict EXCEPT
           ![w] = FinishVerdict(t[1], [job EXCEPT ![t] = NewStatus(w)])]
    /\ tally' = [tally EXCEPT ![w] = probed[t[1]]]
    /\ pc' = [pc EXCEPT ![w] = "commit"]
    /\ UNCHANGED <<db, redis, on, seen, out, lock, producer>>

\* try_finish_run: lock the row of the run, then count its jobs and probes.
LockRun(w) ==
    LET t == on[w] IN
    /\ pc[w] = "lock"
    /\ lock[t[1]] = NoTask
    /\ lock' = [lock EXCEPT ![t[1]] = w]
    /\ verdict' = [verdict EXCEPT
           ![w] = FinishVerdict(t[1], [job EXCEPT ![t] = NewStatus(w)])]
    /\ tally' = [tally EXCEPT ![w] = probed[t[1]]]
    /\ pc' = [pc EXCEPT ![w] = "commit"]
    /\ UNCHANGED <<db, redis, on, seen, out, producer>>

\* The commit: the job, the run if it is finished, a listing that answered 404.
CommitFinish(w) ==
    LET t == on[w]
        r == t[1]
        closes == verdict[w] # "leave"
    IN  /\ pc[w] = "commit"
        /\ job' = [job EXCEPT ![t] = NewStatus(w)]
        /\ run' = IF closes THEN [run EXCEPT ![r] = verdict[w]] ELSE run
        /\ total' = IF closes THEN [total EXCEPT ![r] = tally[w]] ELSE total
        /\ listing' = IF out[w] = "gone" THEN [listing EXCEPT ![t[2]] = FALSE] ELSE listing
        /\ lock' = [lock EXCEPT ![r] = NoTask]
        /\ pc' = [pc EXCEPT ![w] = IF closes THEN "hook" ELSE "return"]
        /\ verdict' = [verdict EXCEPT ![w] = "none"]
        /\ tally' = [tally EXCEPT ![w] = {}]
        /\ UNCHANGED <<probed, analyzed, age, redis, on, seen, out, producer>>

\* on_run_finished enqueues the analytics of the run this worker closed.
RunFinishedHook(w) ==
    /\ pc[w] = "hook"
    /\ \/ EnqueueAnalytics({on[w][1]})
       \/ "hook_lost" \in Events /\ UNCHANGED ana
    /\ pc' = [pc EXCEPT ![w] = "return"]
    /\ UNCHANGED <<db, arq, tries, paused, on, seen, out, verdict, tally, lock, producer>>

\* probe_hotel returns or raises: Retry puts the job back, anything else ends it.
Return(w) ==
    LET t == on[w] IN
    /\ pc[w] = "return"
    /\ IF WillRetry(w)
       THEN /\ arq' = [arq EXCEPT ![t] = "queued"]
            /\ UNCHANGED tries
       ELSE ArqDone(t)
    /\ Reset(w)
    /\ UNCHANGED <<db, ana, paused, producer>>

\* The process dies: its transaction is rolled back and arq gives the job to a
\* worker again once its in-progress key has expired.
WorkerCrash(w) ==
    /\ "worker_crash" \in Events
    /\ pc[w] # "idle"
    /\ arq' = [arq EXCEPT ![on[w]] = "queued"]
    /\ Reset(w)
    /\ UNCHANGED <<db, tries, ana, paused, producer>>

\* Any other exception (the database, job_timeout): arq ends the job.
WorkerError(w) ==
    /\ "worker_error" \in Events
    /\ pc[w] # "idle"
    /\ ArqDone(on[w])
    /\ Reset(w)
    /\ UNCHANGED <<db, ana, paused, producer>>

-----------------------------------------------------------------------------
(* The jobs worker.                                                         *)

\* Mutant: only the hotels that are done are analysed.
RunAnalyticsDone(r) ==
    /\ ana[r] = "queued"
    /\ analyzed' = [analyzed EXCEPT ![r] = {h \in probed[r] : job[<<r, h>>] = "done"}]
    /\ ana' = [ana EXCEPT ![r] = "result"]
    /\ UNCHANGED <<run, total, job, probed, listing, age, arq, tries, paused, worker, producer>>

\* run_analytics rewrites what the run's probes say, in one transaction.
RunAnalytics(r) ==
    /\ ana[r] = "queued"
    /\ analyzed' = [analyzed EXCEPT ![r] = probed[r]]
    /\ ana' = [ana EXCEPT ![r] = "result"]
    /\ UNCHANGED <<run, total, job, probed, listing, age, arq, tries, paused, worker, producer>>

\* An exception rolls it back; arq does not try again.
AnalyticsError(r) ==
    /\ "analytics_error" \in Events
    /\ ana[r] = "queued"
    /\ ana' = [ana EXCEPT ![r] = "result"]
    /\ UNCHANGED <<db, arq, tries, paused, worker, producer>>

\* Mutant: only completed runs are caught up.
CatchUpCompleted(r) ==
    /\ run[r] = "completed"
    /\ total[r] # {}
    /\ analyzed[r] = {}
    /\ ana[r] = "absent"
    /\ EnqueueAnalytics({r})
    /\ UNCHANGED <<db, arq, tries, paused, worker, producer>>

\* analytics_catch_up: closed runs with probes and no hotel_date_snapshots.
AnalyticsCatchUp(r) ==
    /\ Closed(r)
    /\ total[r] # {}
    /\ analyzed[r] = {}
    /\ ana[r] = "absent"
    /\ EnqueueAnalytics({r})
    /\ UNCHANGED <<db, arq, tries, paused, worker, producer>>

-----------------------------------------------------------------------------
WorkerStep(w) ==
    \/ StartRead(w) \/ StartRun(w) \/ StartRefused(w)
    \/ \E o \in Outcomes, wrote \in BOOLEAN : Probe(w, o, wrote)
    \/ SettleRetrying(w) \/ SettleJob(w) \/ LockRun(w) \/ CommitFinish(w)
    \/ RunFinishedHook(w) \/ Return(w)

WorkerNext ==
    \E w \in Workers :
        \/ WorkerStep(w) \/ WorkerCrash(w) \/ WorkerError(w)
        \/ \E t \in Tasks : TakeJob(w, t)

QueueNext ==
    \/ \E t \in Tasks : ResultExpires(t) \/ DropJob(t)
    \/ PauseChannel \/ PauseExpires

ProducerNext ==
    \/ \E r \in Runs, H \in SUBSET Hotels : CreateRun(r, H)
    \/ \E t \in Tasks : PushProbe(t) \/ PushLost(t) \/ Requeue(t)
    \/ \E r \in Runs : Age(r) \/ ExpireHook(r) \/ TopUp(r)
    \/ ExpireSelect \/ ExpireCommit \/ SchedulerCrash
    \/ \E h \in Hotels : ListingChanges(h)

AnalyticsNext ==
    \E r \in Runs : \/ RunAnalytics(r) \/ AnalyticsError(r)
                    \/ AnalyticsCatchUp(r) \/ AnalyticsResultExpires(r)

Next == WorkerNext \/ QueueNext \/ ProducerNext \/ AnalyticsNext

Spec == Init /\ [][Next]_vars

\* Worker processes run and are restarted, arq serves every queued job, the
\* scheduler ticks every minute, cron runs, keys expire and time passes. A row
\* lock is granted in the order asked, a tick tops a market run up before it can
\* pause the channel again, and errors of the analytics job are not permanent:
\* these three are enabled again and again, hence SF.
Fairness ==
    /\ \A w \in Workers : WF_vars(WorkerStep(w))
    /\ \A t \in Tasks : /\ WF_vars(\E w \in Workers : TakeJob(w, t))
                        /\ WF_vars(DropJob(t)) /\ WF_vars(PushProbe(t))
                        /\ WF_vars(Requeue(t)) /\ WF_vars(ResultExpires(t))
    /\ \A r \in Runs : /\ WF_vars(Age(r)) /\ WF_vars(ExpireHook(r))
                       /\ SF_vars(TopUp(r))
                       /\ SF_vars(RunAnalytics(r)) /\ WF_vars(AnalyticsCatchUp(r))
                       /\ WF_vars(AnalyticsResultExpires(r))
    /\ WF_vars(ExpireSelect) /\ SF_vars(ExpireCommit) /\ WF_vars(PauseExpires)

FairSpec == Spec /\ Fairness

-----------------------------------------------------------------------------
(* Properties.                                                              *)

\* A running run always has a job that is still to be settled, so it is never
\* left open with nobody to close it: of two last jobs settled at the same time
\* one sees the other's commit and closes the run (try_finish_run's row lock).
RunningHasPendingJob ==
    \A r \in Runs : run[r] = "running" =>
        \E h \in Hotels : job[<<r, h>>] \in Pending

\* A run reported "completed" has every hotel done, and keeps it so whatever
\* attempt is still executing: no failed or restarted job hides behind it.
CompletedMeansAllDone ==
    \A r \in Runs : run[r] = "completed" =>
        \A h \in JobsOf(r) : job[<<r, h>>] = "done"

\* A closed run is never closed again nor reopened: neither a late attempt nor
\* the deadline changes its status or the counts stored with it.
ClosedOnce ==
    [][\A r \in Runs : Closed(r) => run'[r] = run[r] /\ total'[r] = total[r]]_vars

\* A hotel that is done in a run is not probed or failed again by a repeated
\* delivery, a crash of the worker after its commit, or the deadline.
DoneIsFinal ==
    [][\A t \in Tasks : job[t] = "done" => job'[t] = "done"]_vars

\* Analytics is only asked for, and only ever has rows, for a run that is
\* closed: no early trigger and no crash makes it read a run still filling up.
AnalyticsOnlyClosed ==
    \A r \in Runs : ana[r] # "absent" \/ analyzed[r] # {} => Closed(r)

\* No job is still queued in a closed run: whatever closed it, nothing is left
\* for stale_queued_jobs or the market window to push into a finished run.
ClosedHasNoQueuedJob ==
    \A t \in Tasks : job[t] = "queued" => run[t[1]] = "running"

\* Every created run is closed, whatever crashes and losses happen.
EveryRunCloses == \A r \in Runs : run[r] = "running" ~> Closed(r)

\* Every run closed with probes gets its analytics, although the hook, the push
\* after expiry or an attempt of the job may be lost.
ClosedRunIsAnalyzed ==
    \A r \in Runs : Closed(r) /\ total[r] # {} ~> analyzed[r] # {}

\* The processes, queues and locks implement what a run promises: whatever is
\* interleaved, lost or repeated, a reader of the tables sees a run created,
\* closed once with the truth, and analysed after that, with every hotel counted.
Lifecycle == INSTANCE RunLifecycle WITH
    status <- run, counted <- total, analysed <- analyzed,
    asked <- [r \in Runs |-> JobsOf(r)],
    done <- [r \in Runs |-> {h \in Hotels : job[<<r, h>>] = "done"}]

ImplementsLifecycle == Lifecycle!Spec

-----------------------------------------------------------------------------
(* The inductive invariant behind the safety properties: ScanRunProofs      *)
(* proves each of its parts from all of them.                               *)

\* A busy worker executes a job of the queue that no other worker executes.
OneWorkerPerJob ==
    /\ \A w \in Workers : pc[w] # "idle" => on[w] \in Tasks /\ arq[on[w]] = "taken"
    /\ \A v, w \in Workers : pc[v] # "idle" /\ pc[w] # "idle" /\ on[v] = on[w] => v = w

\* What is queued or about to be pushed is a job of the database, whose run exists.
JobsHaveRuns ==
    /\ \A t \in Tasks : arq[t] # "absent" \/ t \in toPush => job[t] # "none"
    /\ \A t \in Tasks : job[t] # "none" => run[t[1]] # "absent"
    /\ \A r \in overdue : run[r] # "absent"

\* The job of a call that passed start_job is not done until this call says so.
WorkedJobIsNotDone ==
    \A w \in Workers :
        pc[w] \in {"start", "refuse", "probe", "settle", "lock", "commit"} =>
            job[on[w]] # "done"

\* What a transaction counted under the row lock of its run is true until its
\* commit. Other jobs are not kept from changing, only from changing the verdict.
VerdictHolds ==
    \A w \in Workers : pc[w] = "commit" =>
        LET t == on[w]
            others == {o \in Tasks : o[1] = t[1] /\ o # t}
        IN  /\ lock[t[1]] = w
            /\ verdict[w] = "leave" /\ run[t[1]] = "running" =>
                   \E o \in others : job[o] \in Pending
            /\ verdict[w] # "leave" =>
                   /\ run[t[1]] = "running"
                   /\ verdict[w] \in {"completed", "partial"}
                   /\ \A o \in others : job[o] # "queued"
            /\ verdict[w] = "completed" =>
                   /\ out[w] = "done"
                   /\ \A o \in others : job[o] \in {"none", "done"}

\* Whoever is about to ask for analytics has closed the run.
HooksFollowClosing ==
    /\ \A r \in toHook : Closed(r)
    /\ \A w \in Workers : pc[w] = "hook" => Closed(on[w][1])

\* The inductive invariant: the facts above with the safety properties.
IInv ==
    /\ TypeOK
    /\ OneWorkerPerJob /\ JobsHaveRuns /\ WorkedJobIsNotDone
    /\ VerdictHolds /\ HooksFollowClosing
    /\ RunningHasPendingJob /\ CompletedMeansAllDone
    /\ ClosedHasNoQueuedJob /\ AnalyticsOnlyClosed

=============================================================================

# Scrapebooking, specified

TLA+ specifications of the price-collection system in `src/` (a Python backend, `src/backend/app`;
a Next.js dashboard; infrastructure and documents), checked with TLC and proved with TLAPS. This
file is the guide: what the system consists of, what is modelled and by which module, what each run
and each theorem shows, and what is still to do.

`PROJECT.json` is the machine-readable side of it: components, runs, the source lines of every
definition, the hazards of the code and the properties that watch them.

## 1. The system

Processes (`infra/docker-compose.yml`): one `scheduler` (a tick per minute, for the slots and for the market),
any number of `worker` (the collectors; arq, one job at a time, `WORKER_CHANNEL` booking), one `jobs` (arq,
crons, two jobs at a time), `api`, `dashboard`. There is one channel, `booking`. They share PostgreSQL (the
truth) and Redis (arq's queues, pause keys, budgets, session records). Nothing else passes between them.

| Component (code) | State it keeps | Operations | Hard part | Makes it correct |
|---|---|---|---|---|
| **Scan runs** `repo/runs.py`, `worker/settings.py`, `worker/jobs.py`, `scheduler/queue.py`, parts of `scheduler/service.py` | `scan_runs`, `scan_jobs`, `probes`, arq jobs `probe:<run>:<hotel>` | create, push, start, settle, retry, close, expire, requeue, top up, hook, analyse | several workers and the scheduler settle the rows of one run; every process may die between two commits; arq delivers again | a run is closed once, with the truth; none stays open; analytics follows the closing |
| **Scheduler tick** `scheduler/service.py`, `scheduler/planning.py` | `_deferred`, `_catch_up_pending`, `_last_tick_at` in memory; pause keys; `scan_runs.trigger_key` | tick: find due slots, defer, create, catch up, expire, requeue, pause | restarts lose the memory; an error leaves the tick half way; windows of time meet edges | no slot is scanned twice, none is lost silently, a created run has its time |
| **Scan now** `api/scan_now.py` | `scan_runs` | create a run unless a recent one exists | two requests at once | one run per click burst |
| **Market scheduler, list rounds** `marketscan/scheduling.py`, `rounds.py`, `jobs.py` | `market_areas.list_scan_*`, `market_list_scans`, arq jobs `mlist:<area>:<round>:<night>` | daily list round per area, chain of nights, recovery, detail runs, window of in-flight jobs | a chain restarted or superseded while its job still runs; stale checks across an await | no night skipped or scanned twice; "completed" is true |
| **List slices, upsert** `marketscan/slices.py`, `service.py`, `parser.py`, `upsert.py`, `city.py` | the planner's books, `market_hotels`, `market_prices`, `hotels`, `listings` | slice a result too long for one page, insert or update hotels | overlapping slices, several books of one fact | a hotel is counted once, a page asked for once |
| **Analytics** `analytics/`, `market/occupancy_service.py` | `hotel_date_snapshots`, `availability_events`, `hotel_date_metrics`, estimates | recompute a run, catch up, estimate | runs analysed out of order, twice, at once | metrics are of the newest run; no run is left without analytics |
| **Notification outbox** `notify/service.py` | `notifications`, `notification_deliveries` | emit, claim, deliver, retry, fan out | crash between delivery and commit, overlapping crons, stale "sending" | each message delivered, and not twice without a crash |
| **Alert rules** `notify/alert_rules.py`, `kinds.py`, `weekly.py` | none | events of a run to alerts | grouping and deduplication | no event worth an alert is lost or told twice |
| **Daily insight** `insight/`, `jobs/settings.py`, `api/routers/insights.py` | `ai_insights`, batch results in Redis | dispatch, generate, batch, poll, request | dispatcher and worker read before they write; retries | one insight a day, bounded attempts, evidence from its input |
| **Listings** `worker/listing_jobs.py`, `marketscan/upsert.py`, `api/routers/watchlist.py` | `hotels`, `listings`, `tenant_hotels` | create, verify, pause, change URL, write what a scan saw | concurrent transactions on the same keys; a URL edited while a verification or a scan reads the old one | every hotel listed once, an active listing has its own identity |
| **Collector** `collector/`, `worker/jobs.py`, `repo/snapshots.py` | sessions, proxies in cool-down, request budget, `probes` | open, fetch, rotate, block, put aside | shared budget of several workers, attempts cut short | budget kept, failing proxies left quickly, data not overwritten |
| **Operations** `ops/`, `_ops_checks` | alert throttle | hourly check, canary, backup | repetition of alerts | a lasting trouble is told of, and not each hour |
| **Market analysis** `market/` | read models | occupancy, pace, price suggestion, promotions | partial information, rounding, clamps | bounds are tight, a tight night is not lowered (refuted, see findings) |
| **PMS, on the books** `pms/`, `api/routers/otb.py`, `pms.py` | `otb_snapshots`, `own_hotel_daily` | import, rebuild, forecast | days on either side of a cancellation | rebuilt rows are what daily snapshots would be |
| **API, export, dashboard** | - | requests | - | - |

How they interact: the tick creates runs and pushes jobs; a worker settles a job, and the worker that
settles the last one closes the run and enqueues `run_analytics`; `expire_runs` does the same for runs
past their deadline; the jobs worker analyses, then emits notifications, which the outbox cron
delivers; a blocked channel is paused by a key with a time to live, which tick, market scheduler and
workers read before they act.

## 2. Modules

### `ScanRun`: the life of a run

`RunLifecycle` says in a page what a run promises to its readers: created with its hotels, closed once
and with the truth ("completed" if every hotel is done), analysed when closed. `ScanRun` implements it:
`Lifecycle == INSTANCE RunLifecycle WITH status <- run, counted <- total, analysed <- analyzed, ...`,
the hotels asked for and done being read off `job`. Every interleaving of workers, locks, redeliveries and
the deadline is a step of that page or a stutter.

`ScanRun` itself is one module for one database-centred protocol: the tables, the channel's queue and the processes
around them. Variables are grouped as `db`, `redis`, `worker`, `producer`.

| Model | Code |
|---|---|
| `run`, `job`, `probed`, `analyzed`, `listing` | rows of `scan_runs`, `scan_jobs`, `probes`, `hotel_date_snapshots`, `listings` |
| `total` | the hotels counted by `scan_runs.total_probes` at the closing (the count itself is data) |
| `age` | time since `started_at`, in the only three classes the code tells apart: younger than `stale_after`, older, past the deadline |
| `arq`, `tries`, `ana`, `paused` | arq's knowledge of `probe:<run>:<hotel>` (queued, in progress, kept result), its `job_try`, the job `analytics:<run>`, the pause key |
| `pc`, `on`, `seen`, `out`, `verdict`, `tally`, `lock` | where a worker is in `probe_hotel`, what its transaction has read, the row lock of `try_finish_run` |
| `toPush`, `overdue`, `toHook` | local lists of the scheduler between two statements |

Granularity: one action is what one commit makes visible, split wherever another process can come in
between. `start_job` reads (`StartRead`) and later writes (`StartRun`); a job is settled in three steps
(`SettleJob`, `LockRun`, `CommitFinish`), because the transaction updates the row of the job, waits
for the row of the run, counts, and publishes everything at its commit; `expire_runs` selects, then
updates and commits. `HoldsJobRow` and `lock` are the row locks that make the transactions wait for
each other. arq's rules are modelled from how the code uses them: `_job_id` makes a push of a known
job a no-op, `Retry` puts it back, a dead worker's job is delivered again, `max_tries` drops it.

Abstracted: what a night's request returns (an attempt ends `done`, `failed`, `gone` or not at all,
having written probes or none), the tiers and calendars of a job, prices and rooms.

`MCScanRun` gives instances; `ScanRunProofs` holds the theorems.

### `ScanSchedule`: which runs exist

`SchedulerService.tick` from the slots of the tenants to the end of the tick, what it keeps in memory
only, and "scan now" (`api/scan_now.py`).

| Model | Code |
|---|---|
| `start`, `job` | `scan_runs.started_at` of each `trigger_key` (`slot`, `catchup`, `manual`), `scan_jobs.status` of its hotels (`job[key][hotel]`) |
| `deferred`, `catchUpPending`, `lastTick` | `_deferred`, `_catch_up_pending`, `_last_tick_at`: lost by `Restart` |
| `phase`, `todo`, `created`, `givenUp` | where a tick is, the triggers it still has to start, `TickReport.created_runs`, the slots put off for too long (alerted), skipped in a pause, or forgotten by a tick that failed |
| `down`, `pausedUntil` | `all_down` of the proxy check, the key `channel_paused:<channel>` |
| `request` | what a request has read before it inserts |

A tick is split at its commits (slots, each run, `expire_runs`, `missed_slots`, the catch-up, the end),
because an exception (`TickError`) or a stop (`Restart`) between two of them keeps what is committed
and drops the rest. Time is a number of equal units, and a tick takes none: `Advance` waits for the
tick and for the requests. What happens inside a run is `ScanRun`'s: here a job is pending, done or
failed, and a run is running while one of its jobs is pending.

Abstracted: schedules and watch lists are constant, one channel (`load_watch_rows` keeps only Booking),
the request for one hotel alone, the days a run scans.

### `Outbox`: notifications

`notify/service.py`. The cron of the jobs process starts a round every five minutes and a round may
last longer, so several `Dispatchers` run at once.

| Model | Code |
|---|---|
| `status`, `attempts` | a row of `notifications` for each key and channel (`"none"` while there is none) |
| `log` | `notification_deliveries`, which the daily cap counts |
| `ripe` | `last_attempt_at` is as old as `RETRY_BACKOFF` or `SENDING_STALE` asks |
| `expired`, `late` | the row is older than `LOOKBACK`; the round began more than `SENDING_STALE` ago |
| `seen`, `units` | the rows `retry()` selected, as it read them; the keys the round has yet to look at |
| `pc`, `task`, `todo`, `out`, `fan` | where a dispatcher is in `_send`, `_retry_one`, `_deliver`, `_fanout`, and its locals |
| `copies` | messages that left the process, which nothing rolls back |

An action ends at a commit or at an await during which another dispatcher can be anywhere: taking a
row (`Take`: insert or conditional UPDATE, and its commit), passing the gates, each message, the commit
of the verdict. `Take` sets `last_attempt_at` to the beginning of the *round*: a late round's rows are
ripe at once. The order of the units of a round is left free, and what decides that there is something
to say (rules, insights, weekly figures) is a choice between `Claim`, `Skip` and `PassOver`.

Abstracted: subscriptions are constant, the cap counts one day, `send_test` with its cooldown is left
out, messages have no content.
`MCOutbox` gives instances; `OutboxProofs` holds the theorems.

### `MarketRounds`, `MarketNight`, `MarketList`: the list of a market

`MarketRounds` is one area row, the arq jobs of its rounds and nights, the workers that execute them, the
scheduler's tick and the "scan now" route (`marketscan/rounds.py`, `jobs.py`, `scheduling.py`,
`api/routers/market_city.py`). An action ends at a commit, a push or an await: the check of the round,
the scan of the night (`InsertScan`, `SaveScan`), the report on the area row and the push of the next night are
apart, and between them another chain may have been started. Clocks count ticks since an event up to the
largest value the code compares them with (`Stale`, `Grace`). `RoundTimes` is the order of the real
timeouts on which `NightScannedOnce` rests. `by` and `seenAt` are history.

`MarketNight` is one discovery night: the slices `SlicePlanner` keeps (`totals`, `matched`, `candidates`,
`fetched`), the pages read and the requests sent (a blocked page is asked for once more, and the budget is not
charged), over a town whose hotels satisfy filters, some of which can be read off a card. The planner is told
the first page's total before its first choice. `MarketList` has what a page says (cards, ranks, reviews) and what is told of the market
(coverage, percentiles, buckets), as operators.

### `Analytics`, `ObservationRules`, `Figures`, `Compset`

`Analytics` is the analysis of one hotel-night by concurrent jobs of one transaction each (READ COMMITTED:
what it read at `StartAnalytics` and `CheckMetric` may be old when `CommitAnalytics` makes its rows visible), arq's
retries and kept results, the catch-up cron, and the estimates made after it with their poison runs. It
uses `ObservationRules` - which events two looks at a night make, and the metrics of the last one - on real
observations, so the events compared are those the code would write. `Compset` compares hotels.
`Figures` has the rounding: `None` is a missing figure, a rate is an integer in the unit it is rounded to.

### `DailyInsight`, `InsightEvidence`

`DailyInsight` has the dispatcher cron, the worker's slots, the API's callers, the batch store and local
midnight. A row is written when its transaction commits; a job that crashes between its commit and its end
runs again. `late` and `again` are history: the two cases in which the code's own checks cannot see the other
attempt. `InsightEvidence` has what the input of an insight holds, and what is rebuilt of it a day later.

### `Listings`

Transactions of list pages and of users that make a hotel and its listing, row by row: an insert whose key
another open transaction holds waits, then fails and rolls back to the savepoint (`KeyTaken`), and of two
that wait for each other one is aborted. Whoever reads a listing and writes it later is split there:

| Model | Code |
|---|---|
| `TakeVerify`, `Fetched`, `ReadListing`, `WriteListing` | `run_verify_listing`: the URL, the page without a lock, the row again, the fields that differ |
| `LoadForScan`, `ScanWrites`, `ScanFindsNothing` | a scan job loads its listing once; each probe writes the identity its page shows, without a condition (`update_listing_identity`), or marks the listing broken |
| `StartChange`, `CommitChange`, `ChangeRefused` | `add_listing` with another URL: what it read first may be old at its commit |

`moved` and `bare` are history: the listings whose URL changed while a job that had read the old one was under
way (the one of which an identity may then be another URL's), and those whose page told a name and no identity.

### `ProbeAttempts`

What `ScanRun` takes for one step: an attempt of a job with its session, the endpoint chosen among proxies
that fail, cool down or are known to be down, each request through the shared minute budget, answers of every
class (`Classify`), retries, the browser, blocks, the calendar, nights put aside because they were seen.

### `Occupancy`, `PriceSuggest`, `Pacing`, `Radar`, `OnTheBooks`, `AlertRules`, `Analysis`, `Operations`

Algorithms as operators on records and functions, each with a property that says by other means what the
result must be: `EstimateIsTight` (the least and the greatest of the rooms left that a page allows, over all
fillings of the room types), `DemandRaises` (one more competitor sold out advises no lower price),
`RebuildIsReplay` (the snapshots taken day by day), `AlertsAreKept` (what some of the events would have said is
said with all of them), `BestRankIsBest` and `StatsAgree` (what a market's list tells against the pages themselves).

`Analysis` puts them together so that they can be checked and proved about alike. Its constants are the inputs looked
at, a state of `FiguresSpec` is one input of one function, and `AnalysisInputs` says what the callers make sure of
(each clause with the code that does). `OnTheBooks` reads the lines of a file as a sequence: two equal lines are two
bookings. `Operations` also has the hourly check as a small state machine, with restarts of the scheduler; a
delivery that fails is not modelled, as the alerters swallow their errors.

### How they compose

`ScanSchedule` creates the runs whose life is `ScanRun`'s: its `JobEnds` is what `ScanRun` refines into
claims, retries and closings, and its `Expire` is `ExpireSelect`/`ExpireCommit` there. What the rest of the
system knows of a run is `RunLifecycle`: `Analytics` starts from `CloseRun`, that is from a closed run, and
its transactions are `ScanRun`'s `RunAnalytics`. `ProbeAttempts` is inside a worker's call of `ScanRun`;
`MarketRounds` uses `MarketNight` for its `SaveScan`, which uses `Listings` for each page. `Outbox` reads what
`AlertRules` finds in analysed runs and writes nothing the others read.

`MCServices` and `MCParts` put modules that share no variable side by side: the behaviours of the
composition are those of one part at a time, the others at rest. That loses no behaviour of a part, and it
states a promise once for all of them: `AllAnswered`. `MCFigures` gives `Analysis` bounded inputs.

## 3. Runs

### Scan runs

These use `MaxTries = 2` (first and last attempt are the two cases the code distinguishes) and one run:
nothing of one run reads or writes another one's rows, and the scheduler's lists are sets. Deadlock
checking is off because the set of runs is finite: when all are closed and all results have expired the
system rightly stops. A deadlock of the row locks would show as a violation of `EveryRunCloses`.

| Run | Instance | Shows |
|---|---|---|
| `races` | 2 hotels, 2 workers, worker crashes, deadline | the safety properties, the inductive invariant of the proofs, and the refinement of `RunLifecycle`: two last jobs settled at once, late attempts after the deadline, repeated deliveries |
| `faults` | 1 hotel, 2 workers, all events of `AllEvents` | with every fault, `EveryRunCloses` and `ClosedRunIsAnalyzed`; analytics never precedes the closing |
| `prompt` | 2 hotels, 1 worker, `MaxAge = 1`, a slot's or a market run with `Inflight = 1` (the constraint `OneRun` keeps one run per behaviour; `CreateRun` is under no fairness), lost pushes and hooks, scheduler crashes, channel pauses | the same liveness without the help of the deadline: `stale_queued_jobs` and the window of `_top_up` alone recover lost pushes |

Why the bounds are enough: two workers are the smallest number that can race for a run's row; a third
only waits at the same lock. Two hotels give "the last two jobs", one per worker, and make a window of one
slide. Bounds by name: `MaxTries`, `Inflight`, `MaxAge`, and the finite sets `Runs`, `Hotels`, `Workers`.

### Schedule

| Run | Instance | Shows |
|---|---|---|
| `slots` | 2 tenants that watch one hotel, one with slot 1 and one with slot 3, `MaxTime` 5, restarts, proxies, blocks and errors of a tick, a manual request, three troubles at most (`MaxTroubles`) | types; a catch-up replaces dead runs and repeats no scan (`NoSlotScannedTwice`, `DeadRunsAreReplaced`); after a successful tick with a proxy every hotel has a run for the latest slot that was not given up (`LatestSlotServed`) |
| `deferred` | 1 tenant with slots 1 and 4, `MaxTime` 8, proxies only | **violation**: see findings |

Bounds: `Lookback = 2`, `Deadline = 2`, `DeferMax = 3`, `PauseLength = 2`, `DedupWindow = 1` keep the
order of the real values (a slot can be deferred for longer than its deadline, a pause can outlast the
window). Five units let the first slot be deferred, dropped or missed and the second come, be missed
and be caught up; eight, in `deferred`, let a deferral outlast the deadline. Three troubles are two that add up
(no proxy, then a restart or an error) and one more in the recovery; the theorems have no such bound. The runs have no liveness properties, so `Spec` has no fairness: what must happen is
said of the tick that ends. Deadlock checking is off because time ends at `MaxTime`.

### Outbox

One key, so one email row and one row for each other channel; two dispatchers.

| Run | Instance | Shows |
|---|---|---|
| `outbox_slow` | 1 person on email and Zalo, cap 1, `MaxAttempts = 2`, every event | types; copies never exceed attempts, even when rounds are slow and processes die |
| `outbox_settles` | 2 people on email, 1 on the webhook, `MaxAttempts = 3`, sending fails | `SentOnce`, the inductive invariant `HeldInv`, `SentRowsRest`, and the liveness: every row settles, every channel with subscribers gets its row |
| `outbox_overtaken` | 1 person, only slow rounds | **violation** of `SentOnce`: see findings |

Two rounds are enough to race for a row (each claim is one conditional statement), three attempts for
a retry of a retry. Symmetry of the dispatchers is used in the safety run only. Deadlock is checked:
the cron never stops. Bounds by name: `Dispatchers`, `Keys`, `People`, `MaxAttempts`. `HeldInv` and
`SentRowsRest` with crashes and database errors are theorems (section 4).

### Services and parts

| Run | Instance | Shows |
|---|---|---|
| `services` | of each part a small instance (below), with fairness | `AllAnswered`: a closed run gets its estimates, a day its insight, a listing its verification, a round its nights, an attempt its end. And `AnalyticsIsSound`, `MetricIsNewestAlone`, `ListingsAreSound`, `OneDailyInsight` |
| `parts` | every bounded input of the algorithms; two list workers; a night of eight hotels, two classes and a district to split by; two collector processes with two proxies of which one works; four hours of checks, with restarts | thirteen safety properties, each of one part, two of them action properties |
| `metrics_overtaken` | the analytics of `services` | **violation** of `MetricIsNewest`: see findings |
| `tight_lowered` | the functions of `Analysis` with some nights and strategies | **violation** of `TightIsNeverLowered`: see findings |

Instances. *Analytics*: three runs, the first analysed before, three looks (rooms for sale, fewer, sold out), two
slots, one fault, one poisoned run before the good ones, a batch of one: a run can be overtaken, analysed again, and
stand behind a poisoned one. *Insight*: two days of which the second is checked to its end, two slots, one caller,
batches, two faults: an attempt can fail, be retried and be given up. *Listings*: two keys, a page with both in either
order made by two transactions, four ids (each of the two makes a second hotel while it holds its first key), one key
with a badge, one verifier, one scan, one edit, one fault: the smallest lock cycle, and an edit within a verification
or a scan (`InTurn`: scans and the making of hotels take turns; the theorem `ListingsStaySound` has no such bound).
*Rounds*: two nights, two rounds, in `parts` two workers and a fault or a midnight (`OneTrouble`; the theorem
`RoundsAreWhole` has no such bound): a chain can be restarted, superseded and overtaken by its own ghost. *Attempts*:
two processes, a budget of one a minute, two templates, two attempts. *Night*: three hotels a page, two orders, at
most four pages, so at most eight requests.
Symmetry of the two list workers is used in `parts`, which has no liveness. Deadlock
checking is off in `parts`, where inputs are states without a step and bounds end the rest.

Fault counters (`AnalyticsFaults`, `InsightFaults`, `ListingFaults`, `RoundFaults`, `ProbeFaults`) bound crashes and
errors to one or two, at any point; `MaxRounds`, `MaxDays`, `LastDay`, `LastRun`, `MaxRows`, `MaxHotels`,
`ListingEdits`, `MaxQueued`, `PageJobs`, `MaxRequests`, `OpsHours` bound what would grow for ever. Three hours of the throttle's gap (`OpsGap = 3`) pass within `OpsHours = 4`.

What each property is about in the code is said above its definition: in the module of its part, where the
theorems use it, in `Analysis` when it is about a function, or in `MCServices` when it speaks of several parts.
Composite properties have a mutant for each part of them.

### Fairness

In `Outbox`: `WF` on each dispatcher's step (the cron comes back, arq runs its job, an await returns)
and on `Ripen` (time passes). None on faults, and none on a choice: a dispatcher that may `Claim` or
`PassOver` is not forced to claim.

In `ScanRun`: `WF` on every step a live process takes: a worker's own steps (supervised, restarted), the delivery of
a queued job, the pushes and hooks of the scheduler (it ticks each minute), the expiry of keys, the
passing of time. `SF` for three actions that others disable again and again: `ExpireCommit` (waits
for row locks, which PostgreSQL grants in the order asked), `TopUp` (the pause key comes and goes;
the tick tops up whenever it finds the channel open), `RunAnalytics` (its errors are not permanent).
No fairness on any fault, on `CreateRun`, on `ListingChanges`, on `PauseChannel`.

In the parts of `MCServices`, as in the modules themselves (`AnalyticsFairness`, `InsightFairness`, `ListingsFairness`,
`RoundsFairness`, `ProbeFairness`): `WF` on crons, workers' steps, expiring results and pause keys, open
transactions and new minutes. `SF` on the list scheduler's tick and on time in `MarketRounds`: a tick can be
disabled again and again by a pause, and time waits for pushes, which are never long. None on users,
on the closing of scans, on answers of the site (every class of answer may come again), on midnight.

### Findings

- `deferred`: a deferred slot gets its run with `started_at` = the slot (`scheduler/service.py:174-186`);
  when the proxies come back after the 90 minutes of the deadline but within the four hours of
  `defer_max`, the same tick creates the run and expires it. `docs/operations.md:158` promises the run
  as soon as a proxy works, and for a catch-up a test says the deadline counts from its creation.
- `outbox_overtaken`: a round takes rows with `last_attempt_at` = the beginning of the round, and may
  last 30 minutes (`job_timeout`); once it is older than the ten of `SENDING_STALE`, the next round's
  `retry()` takes the rows it is sending. `docs/operations.md:78` says overlapping crons do not send twice.
- `metrics_overtaken`: `_upsert_metrics` (`analytics/service.py:371`) compares `last_observed_at` with a row it
  read, then writes without a condition; the jobs worker executes two jobs at a time, so the analytics of an older run
  that passed its check before the newer one committed overwrites the newer metrics. The comment at line
  273 says "only when this one is newer". `MetricIsNewestAlone` holds: it takes two jobs at once.

- `tight_lowered`: `suggest` lifts the target of a tight night to the price of now, and then applies the ceiling and
  rounds to the step (`market/price_suggest.py:202-218`): a price of 204,000 with a step of 10,000 is advised at 200,000,
  "lower". Line 9, the comment at line 203 and `docs/operations.md:123` say a tight night is never advised a lower
  price. What does hold, and is proved, is `TightIsHeld`: the advice is at least the lower of the price and the
  ceiling, rounded to the step.

Two sentences read and not given a run. `marketscan/service.py:69` and `78` speak of requests sent where the
code counts pages read; a blocked page is sent once more without a charge (`service.py:115-132`), so a night may send twice as
many (`NoPageTwice` says so). And the docstring of `rebuild_snapshots` (`pms/otb.py`) speaks only of the marks up to
`max_lead`: a night further ahead gets the row of today alone.

### Limits seen while modelling

What the code does by design or at the edge of it. The actions
that show it are in the modules; the hazards of `PROJECT.json` refer to this list.

- An attempt still executing when `expire_runs` closes its run may write `retrying` into the closed run
  (`finish_job` has no condition on the status, `repo/runs.py:126`), and `start_job` refuses the retry: the job stays pending
  for ever and `hotels_scanned_since` (`repo/runs.py:235`) counts its hotel. `RunLifecycle` allows it
  (late hotels become done), and no property of a run depends on it.
- Probes that a late attempt writes after the analytics of its run are not analysed (`pending_run_ids`).
- A job that meets a paused channel is settled as failed (`RefuseJob`); the docstring of `probe_hotel`
  (`worker/settings.py:148`) speaks of putting it off, meaning the hotel waits for a later run.
- `_deferred` is emptied before its runs are created (`scheduler/service.py:175`): an exception in
  between loses the slot without an alert, and no catch-up is pending.
- A catch-up that finds the channel paused is not repeated when the pause ends (`service.py:395`).
- Two "scan now" requests at once both find no recent run and both create one (`scan_now.py:49`).
- When the delivery of an email dies, the retry that makes up for it does not fan out
  (`notify/service.py:500`, `865`): the other channels never get the row.
- The daily cap is read before and written after the sending (`service.py:315`): two overlapping rounds
  exceed it by one message each.
- A row abandoned on its last attempt stays `sending` for ever (`service.py:881`); `EveryRowSettles`
  counts it as settled by its attempts.
- One success makes a row `sent`: the people for whom it failed are not tried again (`service.py:424`).
- A chain of a superseded list round may write the area's status once more (`marketscan/jobs.py:53`): the round is
  checked before the night's await. `CompletedIsScanned` therefore asks who wrote the status.
- `InsertScan` checks the round and inserts the night in one step; the code reads the area, then awaits two pause
  keys, then inserts (`marketscan/jobs.py:78-86`). A round claimed in those milliseconds is not seen. A night could then be
  scanned twice: the old chain's job has passed its check, the new round is claimed, the old job inserts its night, the
  recovery of the new round takes that night as scanned and pushes the next, and the new round's own job of the first
  night, still queued, runs later and pushes that next one again once its kept id has expired. What `RoundIsWhole` and
  its theorem show rests on the two being one step.
- A daily insight job that starts after midnight, or runs again after a crash between its commit and its end when
  that row failed meanwhile, may exceed the day's counts (`late`, `again`).
- The best rank of a hotel is kept while its row was last seen after the start of the page's round
  (`marketscan/upsert.py:144`). A job checks its round when it begins (`marketscan/jobs.py`), so a page of a superseded
  chain may still be recorded after a newer round began, and its rank then counts for that one. `ListIsTrue`
  (of `MarketIsTold`) is about rounds that do not overlap.
- Two URLs of one property may both be active: the look for another hotel with the identity and the write of it are
  apart (`listing_jobs.py`), a card with a badge has no identity (`parser.py`), a page may show none
  (`collector/booking/collector.py:94`), and a probe writes what it sees without looking for another (`repo/snapshots.py:248`).
- A scan that had read the old URL of a listing writes that one's identity after the URL was changed (`ScanWrites`), and a
  verification that had may do the same: `ActiveIsVerified` excepts these (`moved`).
- A scan that finds its page gone marks the listing broken, a paused one too (`repo/snapshots.py:270`).
- `stale_after_hours` rounds the longest gap between slots down (`health_checks.py`).

## 4. Proofs

A module `XProofs` holds the theorems of `X` and the lemmas they rest on: eight of them, for `ScanRun`, `Outbox`,
`ProbeAttempts`, `ScanSchedule`, `Analytics`, `MarketRounds`, `Listings` and `DailyInsight`. Each has one inductive
invariant (`Outbox` four, `ScanRun` a second one for the refinement), a lemma or a step for each action, and the theorems that follow from it.
`MarketRoundsProofs` is also about `MarketNight`, and `AnalyticsProofs` about `Analysis` and `Operations`.

Every safety property that a passing run checks is stated by a theorem.

### `ScanRunProofs`

Everything is proved for all values of the constants that satisfy `ConstantAssumption` (sets of any
size for runs and workers, any finite set of hotels, any number of tries): TLC evaluates the
assumption in every run. The chain:

1. `IInv` is inductive: `Invariance` proves `Spec => []IInv`. Beside the safety properties its parts are
   - `OneWorkerPerJob`: arq never gives a job to two workers, so "the job of this worker" is stable;
   - `JobsHaveRuns`: nothing is queued, pushed or overdue that the database does not know;
   - `WorkedJobIsNotDone`: while a call is past `start_job` only itself can make its job done;
   - `VerdictHolds`, the heart: what a transaction counted under the lock of the run's row is still
     decisive at its commit, although attempts that hold no lock may change jobs meanwhile (`running` to
     `retrying`, say): they can change no verdict;
   - `HooksFollowClosing`: whoever is about to ask for analytics has closed the run.
2. From it `TypeCorrect`, `NoRunLeftOpen`, `CompletedIsTrue`, `NothingQueuedAfterClosing`,
   `AnalyticsAfterClosing`, and the action properties `RunsCloseOnce` and `DoneJobsStay`.

`RunningHasPendingJob` is not inductive without `VerdictHolds` (two transactions that both count "the
other is pending" would leave the run open), nor `CompletedMeansAllDone` (a stale verdict would close
over a failure), and neither without `OneWorkerPerJob`.

### `OutboxProofs`

For every set of dispatchers, keys and people, every subscription, cap and number of attempts:

1. `TypeCorrect`, under every fault. It needs `SeenMayRetry` (what `retry()` selected has an attempt
   left) and `UnclaimedUntried`, without which `attempts` would leave its range.
2. `RowsAreHeld`: `Spec => []HeldInv`, assuming no round is slow. `DelivererHoldsRow` alone is not
   inductive: a second dispatcher could take a row that is being delivered. That it does not is
   `NotRipe` (nobody selects it) with `SeenIsPast` (whoever selected it earlier saw an older attempt, or
   it at rest), which is exactly what the comparison of `attempts` in `_retry_one`'s UPDATE is for.
   Lemma `TakeHolds` is the step that takes a row, `RestHolds` every other one.
3. `SentStays`: a sent row is never touched again, from `HeldInv`.
4. `NobodySentTwice`: if besides no process dies and the database does not fail, `SentOnce`. The
   strengthening is `Account`: a `sending` row has a deliverer, and its messages are those the deliverer
   has noted, so a row that fails or is skipped was sent to nobody and may be retried.

The hypotheses cannot be dropped: the run `outbox_overtaken` refutes `SentOnce` (and `HeldInv`) with slow
rounds, and a process that dies between a message and its commit has sent what nobody noted, which the
retry sends again (`CopiesWithinAttempts` is what remains true). `DailyCap`, quiet hours and the choice of
what to say do not matter to them.

With crashes, database errors and overlong rounds one thing remains true, and it is `OneCopyPerAttempt`:
nobody gets more copies than the row had attempts. The account (`TriesInv`) gives every copy the number of the
attempt that sent it: two deliveries of a row never share a number (each conditional UPDATE takes a new one), and
the numbers used for a person are none of those a delivery can still send with. Counting copies alone is
not inductive: a dispatcher that lost its row may still send.

### `ScanRunProofs`, the refinement

`RunsKeepTheirPromise`: `Spec => ImplementsLifecycle`, every step of `ScanRun` being a step of `RunLifecycle` or
a stutter of it. It needs beside `IInv` that what was counted or analysed was probed, and probed only by
jobs of the run (`CountsAreProbed`), and that a run about to be closed as "partial" has a job which
cannot be done by then (`PartialHolds`). `StepCases` reduces the steps to the fourteen that touch a run.
`RunLifecycle` has no fairness, so nothing of it is left to TLC.

### `ProbeAttemptsProofs`

For any processes, templates, budget, horizon, retries and tries. `ProbeInv` has four parts: types; `granted <=
count`, from which the budget of a minute follows although every process takes from it (`BudgetIsHeld`);
`AttemptInv`, what a process knows of the nights it passed, from which `DoneLookedEverywhere` and the action property
`UsableRowsStay`; and `FailoverInv`: there is a set of templates that do not work, as many as the
process has failed in a row, each further away in the rotation than any that works. That is the bound of
`FailoverWastesOneEach`, and a count of failures alone would not be inductive, as nobody could say which
template comes next. Its hypothesis, in the property itself, is that some working template is not said to be down.

### `ScanScheduleProofs`

For any tenants with any watch lists and slots, any lookback, deadline, `defer_max` and pause. `ScheduleInv`:

- `RunsInv`, `TickInv`: keys and jobs agree; which slots in the window a tick still has to start, and that it
  has settled the overdue runs before it catches up;
- `CatchUpInv`: what a catch-up run was made for was not scanned *and no earlier slot can still get a run*
  (`NoLateSlot`): without the second part a deferred slot could be started later and repeat the scan;
- `ServeInv`, `AccountInv`, `EndInv`: the latest slot a tick could see has its run, was given up, or is
  remembered by something a restart, an error or a pause does not lose.

Hence `NoneScannedTwice`, and the action properties `LatestIsServed` and `DeadOnesAreReplaced`.

### `AnalyticsProofs`

For any number of runs, slots, tries and looks. That a run tells of one change of status at most
(`AnalyticsAreSound`) is a fact about the rules first: `DiffEvents` of `ObservationRules` is analysed event by event
(`Quietly`: every other event is of another type), then carried through executions that replace each
other's rows. `NewestAlone` needs that a job's reading of the metric is still so when it commits, as long
as no two were executed together (`MetricInv`); with two, `metrics_overtaken` refutes it. Assumed: a look has a status.

### `AnalyticsProofs`, the functions of `Analysis`

For every input its callers may give (`AnalysisInputs`), of any size. No state changes: what is to be shown is what a
fold computes. The library's induction theorems cannot be used (they take an operator), so each fold goes through
two lemmas of first order. `FoldExists`: the function a fold is made of exists for every finite set of places,
or there would be a least number of places for which it does not (`LeastElement`). `OneByOne`: a set of results
that holds the first one and is closed under taking one more place holds the last one. Each argument
is then an invariant *of the fold*:

- **Sums** (`SumsAre` to `SumsWhere`): a sum over a set can be split, restricted, counted by classes (`SumsFibres`), and grows
  with its terms. Everything that counts rooms, bookings or hotels rests on them.
- `BooksAreTrue`: the rebuilt rows sum the events known by a day, the replay the bookings held on it, and both count
  every line of the file, equal ones each. Counted by line (`SumsFibres`) the two are the same: the events of one add up to the rooms it holds, its cancellation
  taking back on its day what it brought (`OneBooking`, `DaySums`).
- `EstimatesAreTrue`: the rooms of a type lie between its own two bounds and reach both (`BoundsAre`), so the
  sums of the bounds are the extremes of the sums (`PossibleAre`).
- `PricesAreTrue`: adjustments add up (`AdjustmentsAddUp`), and one more competitor sold out does not lower the
  total (`TotalGrows`); the limits, the rounding and the integer divisions are monotone (`LimitsGrow`,
  `RoundedGrows`, `HalfUpGrows`), and so is the advice (`DemandHelps`). For a tight night every limit but the ceiling
  holds the target at the price of now (`TargetHeld`); rounding being monotone, the advice is at least the lower of
  that price and the ceiling, rounded. For which strategies that is less than the price is what `tight_lowered` shows.
- `NoAlertIsLost`: what the rule of a kind finds in some of a run's events is about something (`Subject`) which is
  still told of with all of them, and once (`StillTold`, a lemma for each kind).
- `ListStaysTrue`: after each page the row of a hotel is of the last page it was on, with the least rank since that
  page's round began (`KeepsBest`). This is where rounds that do not overlap are needed: a slice moves the time a row was
  seen without a rank (`RowRenewed`). The quartiles lie in order between the extremes of the sorted prices, the
  average between them, and the buckets add up to the prices (`QuartilesGrow`, `AverageIs`, `HistogramIs`).
- `PaceIsTrue`, `CitedIsStored`, `PromotionsAreOne`, `StaleIsAside`: the row kept of a night is the latest of those read
  (`ReadRowKeeps`), and what is read of the rest depends on the rows it should only.

The check of `Operations`: the throttle forgets nothing that was told within its gap. `Remembered` says that each key
stands for an alert that was told at the hour it keeps; so an alert that is not sent again was told, with the same
figure, and a restart, which forgets the keys, only repeats (`LastingTroubleIsTold`).

### `MarketRoundsProofs`

For any nights, rounds, days, faults and workers, and any times in the order of the real ones
(`RoundTimes`: `JobTimeout <= KeepResult`, arq keeps a result longer than a job may last; both `JobTimeout` and `Grace` below `Stale`). `RoundsInv` has eleven parts. Those that carry the argument:

- `NeverAgain`: the id of a scanned night is refused as long as the job or the restart that would push
  it can last: kept results are compared with the age of the job that is executing, not with its end;
- `FirstNights`, `InOrder`: the scans of a round are of its first nights, and a job exists only when the
  nights before it were tried: `NoNightSkipped`;
- `OwnNights`, `AllHonest`, `Unpushed`, `NotYetSilent`: what `CompletedIsScanned` needs, of the row *and of
  every row a failed push could bring back*.

The last point was a flaw of the model. `Released` (`release_claim`) used to give the restored row a new author (`by`),
which is not what the code restores; the proof failed there, and with three rounds TLC showed a round
"completed" by a chain that had not scanned it. The row now comes back with the author it had.

### `MarketRoundsProofs`, the night

For any town, filters, page size, orders and budget of requests. `NightInv` adds to `NightIsWhole` (`CountsAgree` and `NoPageTwice`) that
the night which goes on has pages left, that at most two requests were sent for each page read and one more for the page
being asked for again, and that before its first page nothing is seen or read: that first page counts from nothing. The counters are kept up card by card and filter by filter, so the steps go through the folds over
a page's cards (`SeeLemma` and those after it, by `FoldExists`): a hotel already seen is added nowhere, a new one to the counters
of the filters it satisfies, and a counter begins (`KnowLemma`) with a count over the hotels seen so far. That a slice
which was read is no candidate again must hold however often its total is told (`ObserveLemma`).

### `ListingsProofs`

For any URLs, pages, tenants, transactions and any finite set of verifiers. `RowsInv` says what an open
transaction holds: a row is its maker's until the commit, between hotel and listing the maker is at
that very place (`OwnRows`), and what it read of its cards is still there (`ReadsHold`), which makes the savepoint's
rollback leave no hotel behind. `ChecksInv` says what those know who have read a listing and will write it:

- a verification and a scan have the URL the listing still has, and an identity read with it is there still, or the
  listing is in `moved` (`ChecksUrl`, `ScanUrl`);
- a change that no job overlaps with has read what still holds (`ChangeRead`): it writes only the fields that differ
  from what it read, so an identity that came in between would stay;
- whatever its status a listing has the identity of its URL or none (`OwnIdentity`), of which the last clause of
  `ListingsAreSound` follows with `bare`. `Load` bounds the queue although jobs are given back.

`Quiet` is what a step may do to a listing without disturbing what is known of it; each action is shown quiet, and
`Kept` and `ChangesKept` conclude from that (`IdentitiesKept` carries the identities themselves).
Assumed beside the bounds: "none" and "saved", which mark absent and committed rows, are nobody's names.

### `DailyInsightProofs`

For any slots, callers, days, tries and allowed failures, batches or not. `InsightInv` has the types,
`RowsInv` (a job works on no daily row that is there, and a daily job on one nobody else has; the row a caller waits with
is there) and `JobsInv`. The heart is `OneAttempt`: while nothing ran late or again, a daily job that has yet
to write has no insight of its day before it, and the number in its id *is* the number of the
day's failures. Two such jobs of a day would have the same id, which arq gives to one slot: that is why the id
carries the count. `WroteRow` and `InItsDay` bring `OneAttempt` over a retry and over midnight; where
they fail, the code's own check fails too, and `late` or `again` says so. Hence `OneInsightADay`.

### Assumptions

The theorems assume what the modules state of their constants (`ConstantAssumption`, `ProbeBounds`,
`AnalyticsBounds`, `RoundTimes`, `NightBounds`, `ListingBounds`, `InsightBounds`, `OccupancyBounds`, `OtbBounds`, `OpsBounds`,
`AnalysisInputs`), evaluated by TLC on the runs of these modules, and the hypotheses of the three `OutboxProofs` theorems named
above. The bounds on faults, time, rounds and rows are
constants: a theorem holds for every value of them, that is without a bound on any single behaviour's length.
Each inductive invariant was checked by TLC on small instances before it was proved; `IInv` and `HeldInv`
still are in the runs.

What `AnalysisInputs` asks, and who sees to it:

| Inputs | Asked | Seen to by |
|---|---|---|
| `StockInputs` | a room is read off a badge and a dropdown; one room of a type in a scan | `derive_stock` (`domain/stock.py`), `by_type` (`market/occupancy.py:97`) |
| `PriceInputs` | a target, limits and prices that are not negative | `StrategyIn` (`api/routers/market.py:228`); counts and prices of `NightSignals` |
| `AlertInputs` | one event of a kind for a hotel's room and night in a run, one change of status | the key `uq_availability_events_run_scope` (`db/models.py:281`), of which the channel is always Booking's, and `ObservationRules` |
| `ListInputs` | pages in order of time, of rounds that do not overlap | the chain of jobs of `marketscan/jobs.py`, up to the limit named above |
| `BookInputs` | lines with days and whole numbers of rooms, in any number and order, equal ones too | `parse_bookings` (`pms/otb.py`). It lets negative numbers of rooms through (`pms/otb.py:168`): `RebuildIsReplay` is about files without |
| the others | rows with their columns | the tables |

### Only model-checked

- Liveness (`EveryRunCloses`, `ClosedRunIsAnalyzed`, `EveryRowSettles`, `FanOutFollows`, `AllAnswered`): it rests on
  fairness, that is on ENABLED, which the prover does not reach.
- The violations.

## 5. Not modelled

| Part | Why |
|---|---|
| Reading HTML, driving the browser, calendars as pages | transformation of pages without control; the classes of answer and what is read are inputs of the modules |
| Rendering, translation, number formats, export | wording and layout; no property is about them |
| Prompt, output schema and the providers of insights | data; an attempt completes, fails or goes to a batch |
| The detail scan's choice of hotels, report rows of `pace_report.py` | queries that select and join rows; the decisions they feed are modelled |
| Test email and its cooldown | one request's read and write; nothing else reads it |
| Session listener, CLI, configuration, logging, authentication, dashboard | I/O or declarations that decide nothing the system acts on |
| Revenue, currencies, reviews' text | go along with the figures modelled |

Abstractions inside the modules: prices, rates and medians are integers in the unit the code rounds to, with its
rounding (`HalfUp`, `HalfEven`); the half unit of a median of two prices is rounded where the code keeps a
decimal; one hotel, channel and night stands for all in `Analytics`; one area in `MarketRounds`.

## 6. Plan

Modelled, checked and, where section 4 says so, proved: everything above. What is left:

1. Not modelled yet and small: the test email's cooldown, the choice of the detail scan's hotels.
2. Rounds of a market list that overlap: what the ranks then say of a hotel (section 3, limits).
3. Parts that stand side by side in `MCServices` composed through the state they share (a closed run of `ScanRun` as
   the `CloseRun` of `Analytics`), by refinement as `RunLifecycle` is.

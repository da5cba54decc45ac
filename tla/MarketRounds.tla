---------------------------- MODULE MarketRounds ----------------------------
(***************************************************************************)
(* The list rounds of one market area (marketscan/rounds.py, jobs.py, the  *)
(* list part of scheduling.py and the "scan now" route of                  *)
(* api/routers/market_city.py).  A round is a request written on the area  *)
(* row; its nights are scanned by a chain of arq jobs, each of which       *)
(* pushes the next.  The scheduler claims one round a day and restarts a   *)
(* chain that made no progress for Stale ticks; a user may claim another.  *)
(*                                                                         *)
(* Time is relative: every clock of the model counts the ticks since an    *)
(* event and stops at the largest value the code compares it with.         *)
(***************************************************************************)
EXTENDS Integers, FiniteSets

CONSTANTS
    RoundNights,  \* nights of a round, 0 .. RoundNights - 1
    ListWorkers,  \* the worker processes of the area's channel
    MaxRounds,    \* bound: rounds claimed
    MaxDays,      \* bound: days
    RoundFaults,  \* bound: crashes, failed pushes, bad nights, outside pauses
    Stale,        \* STALE_CHAIN and STUCK_SCAN
    Grace,        \* RUNNING_GRACE of "scan now"; one tick is SCAN_NOW_DEDUP
    JobTimeout,   \* job_timeout of the worker
    KeepResult    \* keep_result of the worker: a finished job's id is refused

(* One night never outlives the time its successor's id is remembered, nor *)
(* the time after which its chain is called dead.                          *)
ASSUME RoundTimes ==
    /\ {RoundNights, MaxRounds, Stale, Grace, JobTimeout} \subseteq Nat \ {0}
    /\ {KeepResult, MaxDays, RoundFaults} \subseteq Nat
    /\ JobTimeout <= KeepResult /\ JobTimeout < Stale /\ Grace < Stale

VARIABLES
    area,     \* the columns of the area row; see NoArea
    scanned,  \* for a job's round and night: the scan rows it inserted (history)
    seenAt,   \* for a night: the last round claimed when its newest row was inserted
    open,     \* scan rows still "running": [night, round, age]
    job,      \* for a round and a night: the arq job with that id
    proc,     \* for a worker: the job it executes and how far it is
    actor,    \* the tick and the route: where they are, and what they read
    paused,   \* the channel's pause key or its market key exists
    faults, day, claims

areaVars == <<area, scanned, seenAt, open>>
roundsVars == <<areaVars, job, proc, actor, paused, faults, day, claims>>

Rounds == 1..MaxRounds
Nights == 0..(RoundNights - 1)
Actors == {"tick", "route"}
NoJob == [at |-> "none", left |-> 0]
Idle == [pc |-> "idle", round |-> 0, night |-> 0, age |-> 0, out |-> "none"]
Recoverable == {"queued", "running", "error", "paused"} \* RECOVER_STATUSES
AreaStatus == Recoverable \cup {"none", "completed", "blocked"}
Fault == faults < RoundFaults /\ faults' = faults + 1

(* round: list_requested_at; fresh: it is within SCAN_NOW_DEDUP; daily: it *)
(* is after today's list time; today: it is of today; quiet: ticks since   *)
(* the later of the request and last_list_scan_at; by: which round's chain *)
(* wrote the status (history, read by no guard).                           *)
NoArea == [round |-> 0, status |-> "none", quiet |-> Stale, by |-> 0,
           fresh |-> FALSE, daily |-> FALSE, today |-> FALSE, active |-> TRUE]
Rest == [pc |-> "rest", round |-> 0, read |-> NoArea, night |-> 0]

RoundsInit ==
    /\ area = NoArea
    /\ scanned = [r \in Rounds |-> [n \in Nights |-> 0]]
    /\ seenAt = [n \in Nights |-> 0]
    /\ open = {}
    /\ job = [r \in Rounds |-> [n \in Nights |-> NoJob]]
    /\ proc = [w \in ListWorkers |-> Idle]
    /\ actor = [a \in Actors |-> Rest]
    /\ paused = FALSE /\ faults = 0 /\ day = 0 /\ claims = 0

----------------------------------------------------------------------------
(* Mutant: a kept result does not refuse the id.                            *)
PushedAgain(jobs, r, n) ==
    IF jobs[r][n].at \in {"none", "kept"} THEN [jobs EXCEPT ![r][n] = [at |-> "queued", left |-> 0]]
    ELSE jobs

(* enqueue_market_list: refused while the id is queued, executing or kept. *)
Pushed(jobs, r, n) ==
    IF jobs[r][n].at = "none" THEN [jobs EXCEPT ![r][n].at = "queued"] ELSE jobs

(* Mutant: only a chain that got as far as "running" is looked at.          *)
SilentRunning(a) == a.round # 0 /\ a.status = "running" /\ a.today /\ a.quiet >= Stale

(* The tick reads the row of an active area; the route refuses while a     *)
(* chain makes progress.  Both ask for the pause next.  A call that can    *)
(* only find that there is nothing to do is a stuttering step.             *)
Running(a) == a.status = "running" /\ a.quiet < Grace
Silent(a) == a.round # 0 /\ a.status \in Recoverable /\ a.today /\ a.quiet >= Stale
Worthwhile(a) == IF a = "tick" THEN ~area.daily \/ Silent(area)
                 ELSE claims < MaxRounds /\ ~area.fresh /\ ~Running(area)

ReadArea(a) ==
    /\ actor[a].pc = "rest" /\ area.active /\ ~paused
    /\ Worthwhile(a)
    /\ actor' = [actor EXCEPT ![a] = [pc |-> "claim", round |-> area.round, read |-> area, night |-> 0]]
    /\ UNCHANGED <<areaVars, job, proc, paused, faults, day, claims>>

(* claim_list_scan, under the row lock: no request since list_at (tick) or *)
(* within SCAN_NOW_DEDUP (route).                                          *)
Claimable(a) ==
    /\ area.round = 0 \/ IF a = "tick" THEN ~area.daily ELSE ~area.fresh
    /\ claims < MaxRounds

ClaimRound(a) ==
    /\ actor[a].pc = "claim" /\ Claimable(a)
    /\ claims' = claims + 1
    /\ actor' = [actor EXCEPT ![a] = [pc |-> "push", round |-> claims + 1, read |-> area, night |-> 0]]
    /\ area' = [area EXCEPT !.status = "queued", !.quiet = 0, !.by = claims + 1, !.round = claims + 1,
                            !.fresh = TRUE, !.daily = TRUE, !.today = TRUE]
    /\ UNCHANGED <<scanned, seenAt, open, job, proc, paused, faults, day>>

ClaimRefused(a) ==
    /\ actor[a].pc = "claim" /\ ~Claimable(a)
    /\ actor' = [actor EXCEPT ![a] = IF a = "tick" THEN [actor[a] EXCEPT !.pc = "recover"] ELSE Rest]
    /\ UNCHANGED <<areaVars, job, proc, paused, faults, day, claims>>

PushFirst(a) ==
    /\ actor[a].pc = "push"
    /\ job' = Pushed(job, actor[a].round, 0)
    /\ actor' = [actor EXCEPT ![a] = Rest]
    /\ UNCHANGED <<areaVars, proc, paused, faults, day, claims>>

(* release_claim: the request of before, unless another was claimed since. *)
Released(a) ==
    LET was == actor[a].read IN
    IF area.round # actor[a].round THEN area
    ELSE [was EXCEPT !.daily = was.daily /\ area.daily, !.today = was.today /\ area.today,
                     !.active = area.active, !.quiet = IF area.by = area.round THEN was.quiet ELSE 0]

PushFails(a) ==
    /\ actor[a].pc = "push" /\ Fault
    /\ area' = Released(a)
    /\ actor' = [actor EXCEPT ![a] = Rest]
    /\ UNCHANGED <<scanned, seenAt, open, job, proc, paused, day, claims>>

(* The process of the actor dies, or Redis fails after recover_round's     *)
(* commit: what is committed stays.                                        *)
ActorDies(a) ==
    /\ actor[a].pc # "rest" /\ Fault
    /\ actor' = [actor EXCEPT ![a] = Rest]
    /\ UNCHANGED <<areaVars, job, proc, paused, day, claims>>

(* Mutant: the first night is taken for scanned.                            *)
UnscannedLater(r) == {n \in Nights : seenAt[n] < r /\ n > 0}

(* recover_round decides on the row the tick read and on the scan rows of  *)
(* now; commits; then pushes.                                              *)
Unscanned(r) == {n \in Nights : seenAt[n] < r}
NextUnscanned(r) == CHOOSE n \in Unscanned(r) : \A m \in Unscanned(r) : n <= m

RecoverRound ==
    LET r == actor["tick"].round  left == Unscanned(r) IN
    /\ actor["tick"].pc = "recover" /\ Silent(actor["tick"].read)
    /\ area' = [area EXCEPT !.status = IF left = {} THEN "completed" ELSE "queued",
                            !.quiet = 0, !.by = r]
    /\ actor' = [actor EXCEPT !["tick"] =
         IF left = {} THEN Rest ELSE [actor["tick"] EXCEPT !.pc = "repush", !.night = NextUnscanned(r)]]
    /\ UNCHANGED <<scanned, seenAt, open, job, proc, paused, faults, day, claims>>

NothingToRecover ==
    /\ actor["tick"].pc = "recover" /\ ~Silent(actor["tick"].read)
    /\ actor' = [actor EXCEPT !["tick"] = Rest]
    /\ UNCHANGED <<areaVars, job, proc, paused, faults, day, claims>>

RecoverPush ==
    /\ actor["tick"].pc = "repush"
    /\ job' = Pushed(job, actor["tick"].round, actor["tick"].night)
    /\ actor' = [actor EXCEPT !["tick"] = Rest]
    /\ UNCHANGED <<areaVars, proc, paused, faults, day, claims>>

(* fail_stuck_scans: housekeeping, after the areas of the tick.            *)
StuckRow(x) == x.age >= Stale

FailStuck ==
    /\ \E x \in open : StuckRow(x)
    /\ open' = {x \in open : ~StuckRow(x)}
    /\ UNCHANGED <<area, scanned, seenAt, job, proc, actor, paused, faults, day, claims>>

----------------------------------------------------------------------------
(* A worker takes a job; one process executes one job at a time.           *)
TakeNight(w, r, n) ==
    /\ proc[w].pc = "idle" /\ job[r][n].at = "queued"
    /\ job' = [job EXCEPT ![r][n].at = "executing"]
    /\ proc' = [proc EXCEPT ![w] = [pc |-> "check", round |-> r, night |-> n, age |-> 0, out |-> "none"]]
    /\ UNCHANGED <<areaVars, actor, paused, faults, day, claims>>

(* The job ends: arq keeps its result, and its id, for KeepResult.         *)
Ended(w, left) == [job EXCEPT ![proc[w].round][proc[w].night] = [at |-> "kept", left |-> left]]
JobEnds(w) == job' = Ended(w, KeepResult) /\ proc' = [proc EXCEPT ![w] = Idle]
SetArea(w, status) == area' = [area EXCEPT !.status = status, !.quiet = 0, !.by = proc[w].round]

(* A newer round was claimed, or the area was deactivated.                 *)
Superseded(w) == proc[w].round # area.round \/ ~area.active

StopSuperseded(w) ==
    /\ proc[w].pc = "check" /\ Superseded(w)
    /\ JobEnds(w)
    /\ UNCHANGED <<areaVars, actor, paused, faults, day, claims>>

StopPaused(w) ==
    /\ proc[w].pc = "check" /\ ~Superseded(w) /\ paused
    /\ SetArea(w, "paused") /\ JobEnds(w)
    /\ UNCHANGED <<scanned, seenAt, open, actor, paused, faults, day, claims>>

(* scan_night inserts the row of the night and commits before it asks for  *)
(* the first page.  One step with the check of the round: the code reads   *)
(* the area, then two pause keys, then inserts, and a round claimed while  *)
(* it reads the keys is not seen (see README, section 3, limits).          *)
InsertScan(w) ==
    LET p == proc[w] IN
    /\ p.pc = "check" /\ ~Superseded(w) /\ ~paused
    /\ scanned' = [scanned EXCEPT ![p.round][p.night] = @ + 1]
    /\ seenAt' = [seenAt EXCEPT ![p.night] = claims]
    /\ open' = open \cup {[night |-> p.night, round |-> p.round, age |-> 0]}
    /\ proc' = [proc EXCEPT ![w].pc = "scan"]
    /\ UNCHANGED <<area, job, actor, paused, faults, day, claims>>

(* The night is completed, failed or blocked; its row is saved either way. *)
SaveScan(w, out) ==
    /\ proc[w].pc = "scan"
    /\ IF out = "completed" THEN UNCHANGED faults ELSE Fault
    /\ open' = {x \in open : x.round # proc[w].round \/ x.night # proc[w].night}
    /\ proc' = [proc EXCEPT ![w].pc = "report", ![w].out = out]
    /\ UNCHANGED <<area, scanned, seenAt, job, actor, paused, day, claims>>

(* A blocked night pauses the market key and stops the chain.              *)
StopBlocked(w) ==
    /\ proc[w].pc = "report" /\ proc[w].out = "blocked"
    /\ paused' = TRUE
    /\ SetArea(w, "blocked") /\ JobEnds(w)
    /\ UNCHANGED <<scanned, seenAt, open, actor, faults, day, claims>>

(* Mutant: off by one.                                                      *)
LastNightEarly(w) == proc[w].night + 2 >= RoundNights

(* Otherwise the area's status is written, whatever round it is at by now. *)
LastNight(w) == proc[w].night + 1 >= RoundNights

ReportNight(w) ==
    /\ proc[w].pc = "report" /\ proc[w].out # "blocked"
    /\ SetArea(w, IF LastNight(w) THEN "completed" ELSE "running")
    /\ IF LastNight(w) THEN JobEnds(w) ELSE proc' = [proc EXCEPT ![w].pc = "next"] /\ UNCHANGED job
    /\ UNCHANGED <<scanned, seenAt, open, actor, paused, faults, day, claims>>

PushNext(w) ==
    /\ proc[w].pc = "next"
    /\ job' = Pushed(Ended(w, KeepResult), proc[w].round, proc[w].night + 1)
    /\ proc' = [proc EXCEPT ![w] = Idle]
    /\ UNCHANGED <<areaVars, actor, paused, faults, day, claims>>

(* An exception or the timeout ends the job, whose max_tries is 1; after   *)
(* the death of its process arq gives it up once the timeout is over.      *)
WorkerDies(w) ==
    /\ proc[w].pc # "idle" /\ Fault
    /\ \E wait \in {0, JobTimeout - proc[w].age} : job' = Ended(w, KeepResult + wait)
    /\ proc' = [proc EXCEPT ![w] = Idle]
    /\ UNCHANGED <<areaVars, actor, paused, day, claims>>

----------------------------------------------------------------------------
PauseRound ==
    /\ ~paused /\ Fault /\ paused' = TRUE
    /\ UNCHANGED <<areaVars, job, proc, actor, day, claims>>

PauseEnds ==
    /\ paused /\ paused' = FALSE
    /\ UNCHANGED <<areaVars, job, proc, actor, faults, day, claims>>

(* PATCH of the area: deactivated, and active again.                       *)
SwitchArea ==
    /\ IF area.active THEN Fault ELSE UNCHANGED faults
    /\ area' = [area EXCEPT !.active = ~@]
    /\ UNCHANGED <<scanned, seenAt, open, job, proc, actor, paused, day, claims>>

(* Midnight and the list time of a new day.                                *)
NewDay ==
    /\ day < MaxDays /\ day' = day + 1
    /\ area' = [area EXCEPT !.daily = FALSE, !.today = FALSE]
    /\ UNCHANGED <<scanned, seenAt, open, job, proc, actor, paused, faults, claims>>

(* Time passes, but not for a job at its timeout, nor between a commit and *)
(* the push that follows it (a Redis command, which fails when slow).      *)
Older(x) == IF x < Stale THEN x + 1 ELSE x
Aged(j) == IF j.at # "kept" THEN j ELSE IF j.left > 0 THEN [j EXCEPT !.left = @ - 1] ELSE NoJob

TimePasses ==
    /\ \A w \in ListWorkers : proc[w].pc # "idle" => proc[w].age < JobTimeout
    /\ \A a \in Actors : actor[a].pc \notin {"push", "repush"}
    /\ area' = [area EXCEPT !.quiet = Older(@), !.fresh = FALSE]
    /\ open' = {[x EXCEPT !.age = Older(@)] : x \in open}
    /\ proc' = [w \in ListWorkers |->
         IF proc[w].pc = "idle" THEN Idle ELSE [proc[w] EXCEPT !.age = @ + 1]]
    /\ job' = [r \in Rounds |-> [n \in Nights |-> Aged(job[r][n])]]
    /\ UNCHANGED <<scanned, seenAt, actor, paused, faults, day, claims>>

Worker(w) ==
    \/ \E r \in Rounds, n \in Nights : TakeNight(w, r, n)
    \/ StopSuperseded(w) \/ StopPaused(w) \/ InsertScan(w) \/ SaveScan(w, "completed")
    \/ StopBlocked(w) \/ ReportNight(w) \/ PushNext(w)

Tick ==
    \/ ReadArea("tick") \/ ClaimRound("tick") \/ ClaimRefused("tick") \/ PushFirst("tick")
    \/ RecoverRound \/ NothingToRecover \/ RecoverPush

Route == ClaimRound("route") \/ ClaimRefused("route") \/ PushFirst("route")

RoundsNext ==
    \/ \E w \in ListWorkers :
         Worker(w) \/ WorkerDies(w) \/ SaveScan(w, "error") \/ SaveScan(w, "blocked")
    \/ Tick \/ FailStuck \/ ReadArea("route") \/ Route
    \/ \E a \in Actors : PushFails(a) \/ ActorDies(a)
    \/ PauseRound \/ PauseEnds \/ SwitchArea \/ NewDay \/ TimePasses

(* The scheduler ticks every minute, workers poll their queue, a pause key *)
(* has a TTL, a request that began is executed; nobody has to make one.    *)
(* Time passes between pushes (SF: the next is never long in coming).      *)
RoundsFairness ==
    /\ SF_roundsVars(Tick) /\ SF_roundsVars(TimePasses) /\ WF_roundsVars(PauseEnds)
    /\ WF_roundsVars(FailStuck) /\ WF_roundsVars(Route) /\ \A w \in ListWorkers : WF_roundsVars(Worker(w))

RoundsSpec == RoundsInit /\ [][RoundsNext]_roundsVars /\ RoundsFairness

----------------------------------------------------------------------------
RoundsTypeOK ==
    /\ area \in [round : 0..MaxRounds, by : 0..MaxRounds, status : AreaStatus, quiet : 0..Stale,
                 fresh : BOOLEAN, daily : BOOLEAN, today : BOOLEAN, active : BOOLEAN]
    /\ scanned \in [Rounds -> [Nights -> Nat]] /\ seenAt \in [Nights -> 0..MaxRounds]
    /\ open \subseteq [night : Nights, round : Rounds, age : 0..Stale]
    /\ job \in [Rounds -> [Nights -> [at : {"none", "queued", "executing", "kept"},
                                      left : 0..(KeepResult + JobTimeout)]]]
    /\ proc \in [ListWorkers -> [pc : {"idle", "check", "scan", "report", "next"},
                                 round : 0..MaxRounds, night : Nights, age : 0..JobTimeout,
                                 out : {"none", "completed", "error", "blocked"}]]
    /\ \A a \in Actors : /\ actor[a].pc \in {"rest", "claim", "push", "recover", "repush"}
                         /\ actor[a].round \in 0..MaxRounds /\ actor[a].night \in Nights
    /\ paused \in BOOLEAN
    /\ faults \in 0..RoundFaults /\ day \in 0..MaxDays /\ claims \in 0..MaxRounds

(* However often a chain is restarted while its old job is still queued or *)
(* executing, no night of a round is scanned twice: the fixed job ids, and *)
(* keep_result being at least the timeout, see to it.                      *)
NightScannedOnce == \A r \in Rounds, n \in Nights : scanned[r][n] <= 1

(* A chain never runs past a night nobody tried, restarted or not.         *)
NoNightSkipped ==
    \A r \in Rounds, n \in Nights : scanned[r][n] > 0 => \A m \in 0..n : seenAt[m] >= r

(* A round its own chain, or its own recovery, calls completed has had     *)
(* every night tried.                                                      *)
CompletedIsScanned ==
    area.status = "completed" /\ area.by = area.round => Unscanned(area.round) = {}

(* A claimed round may miss a night if it is blocked, deactivated, given   *)
(* up for a newer one, overtaken by midnight, or another round's chain     *)
(* wrote its status.                                                       *)
GivenUp == area.status = "blocked" \/ ~area.active \/ ~area.today \/ area.by # area.round

(* A round of the market list is whole: no night is skipped or scanned     *)
(* twice, and a round that says it is completed has every night scanned,   *)
(* however many workers carry its chain on (marketscan/rounds.py, jobs.py).*)
RoundIsWhole == RoundsTypeOK /\ NightScannedOnce /\ NoNightSkipped /\ CompletedIsScanned

=============================================================================

--------------------------- MODULE ProbeAttempts ---------------------------
(***************************************************************************)
(* How the worker processes of a channel collect the nights of a job       *)
(* (worker/jobs.py run_probe_hotel; collector/booking/hybrid.py,           *)
(* collector.py, browser.py; collector/session.py, proxy.py, budget.py,    *)
(* fetch.py; repo/snapshots.py).  A process executes one job at a time and *)
(* keeps a session and what it knows of the proxies in its memory; the     *)
(* processes share the channel's request budget and the outcome of the     *)
(* scheduler's proxy check in Redis.  ScanRun takes such an attempt for    *)
(* one step with an outcome.                                               *)
(***************************************************************************)
EXTENDS Figures

CONSTANTS
    Processes,        \* worker processes
    Scanning,         \* those with a job run_probe_hotel
    Templates,        \* number of proxy templates
    Working,          \* those through which a session can be opened
    FailThreshold,    \* fail_threshold of the provider
    SessionRequests,  \* session_max_requests
    PerMinute,        \* the channel's budget
    HttpRetries,      \* http_retries
    TransientRetries, \* transient_retries
    Horizon,          \* nights of a job, 0 .. Horizon - 1
    FreshNights,      \* nights seen lately by another run (_fresh_dates)
    Attempts,         \* MAX_TRIES of a job
    Checks,           \* what the proxy check may find to be down
    PageJobs,         \* bound: jobs that only read a page (verify, search_page)
    ProbeFaults       \* bound: processes that die, sessions that age, errors of Redis

ASSUME ProbeBounds ==
    /\ {Templates, FailThreshold, SessionRequests, PerMinute, Attempts, Horizon} \subseteq Nat \ {0}
    /\ {HttpRetries, TransientRetries, PageJobs, ProbeFaults} \subseteq Nat
    /\ Scanning \subseteq Processes /\ Working \subseteq 1..Templates /\ Checks \subseteq SUBSET (1..Templates) /\ FreshNights \subseteq 0..(Horizon - 1)

VARIABLES
    provider, \* for a process: what its StaticProxyProvider knows
    session,  \* for a process: its session, if any, and the requests counted
    attempt,  \* for a process: how far the attempt is
    task,     \* for a process: the status of its job's row
    probes,   \* for a process and a night: the status of the probe's row
    health,   \* templates the last proxy check found down (proxy:health)
    count,    \* the counter of this minute's budget in Redis
    granted,  \* requests let through in this minute (history)
    streak,   \* for a process: sessions it failed to open since a check told it something new
    pageJobs, pfaults

probeVars == <<provider, session, attempt, task, probes, health, count, granted, streak, pageJobs, pfaults>>

Stays == 0..(Horizon - 1)
Usable == {"ok", "sold_out", "skipped"} \* TERMINAL_STATUSES
ProbeStatuses == Usable \cup {"no_rooms", "blocked", "error"}
Settled == {"done", "failed", "broken"}
NoSession == [on |-> FALSE, used |-> 0]
NewProvider == [next |-> 0, fails |-> [t \in 1..Templates |-> 0], tripped |-> {}, shared |-> {}]
NoAttempt == [pc |-> "idle", step |-> "none", try |-> 0, night |-> 0, skip |-> {}, closed |-> {},
              blocked |-> 0, transient |-> 0]
PFault == pfaults < ProbeFaults /\ pfaults' = pfaults + 1

ProbeInit ==
    /\ provider = [p \in Processes |-> NewProvider] /\ session = [p \in Processes |-> NoSession]
    /\ attempt = [p \in Processes |-> NoAttempt] /\ task = [p \in Processes |-> IF p \in Scanning THEN "queued" ELSE "none"]
    /\ probes = [p \in Processes |-> [n \in Stays |-> "none"]]
    /\ health = {} /\ count = 0 /\ granted = 0 /\ streak = [p \in Processes |-> 0]
    /\ pageJobs = 0 /\ pfaults = 0

At(p, pc) == attempt[p].pc = pc
Go(p, pc) == attempt' = [attempt EXCEPT ![p].pc = pc]

----------------------------------------------------------------------------
(* The job is taken; before_job reads which templates are down.            *)
TakeJob(p) ==
    /\ At(p, "idle") /\ task[p] \in {"queued", "retrying"} /\ attempt[p].try < Attempts
    /\ provider' = [provider EXCEPT ![p].shared = health]
    /\ streak' = [streak EXCEPT ![p] = IF health = provider[p].shared THEN @ ELSE 0]
    /\ attempt' = [attempt EXCEPT ![p] = [NoAttempt EXCEPT !.pc = "session", !.step = "calendar", !.try = attempt[p].try + 1]]
    /\ UNCHANGED <<session, task, probes, health, count, granted, pageJobs, pfaults>>

(* A job that reads one page: verify_listing, a page of a market list.     *)
TakePage(p) ==
    /\ At(p, "idle") /\ pageJobs < PageJobs /\ pageJobs' = pageJobs + 1
    /\ attempt' = [attempt EXCEPT ![p].pc = "session", ![p].step = "page"]
    /\ UNCHANGED <<provider, session, task, probes, health, count, granted, streak, pfaults>>

(* The attempt ends: arq runs a failed job again, up to MAX_TRIES.         *)
EndAttempt(p, out) ==
    /\ attempt' = [attempt EXCEPT ![p] = [NoAttempt EXCEPT !.try = attempt[p].try]]
    /\ task' = [task EXCEPT ![p] = IF attempt[p].step = "page" THEN @
                                   ELSE IF out = "failed" /\ attempt[p].try < Attempts THEN "retrying" ELSE out]

(* write_probe: the row of the night, and its rooms, are replaced.         *)
WriteNight(p, status) ==
    /\ probes' = [probes EXCEPT ![p][attempt[p].night] = status]
    /\ attempt' = [attempt EXCEPT ![p].pc = "night", ![p].night = @ + 1]
    /\ UNCHANGED task

(* An exception fails a night, the calendar's a whole attempt.             *)
Raised(p) ==
    IF attempt[p].step = "probe" THEN WriteNight(p, "error") ELSE EndAttempt(p, "failed") /\ UNCHANGED probes

----------------------------------------------------------------------------
(* SessionManager.get: the session there is, unless it is used up ...      *)
Fresh(p) == session[p].on /\ session[p].used < SessionRequests

KeepSession(p) ==
    /\ At(p, "session") /\ Fresh(p) /\ Go(p, "ask")
    /\ UNCHANGED <<provider, session, task, probes, health, count, granted, streak, pageJobs, pfaults>>

(* ... or too old.                                                         *)
SessionAges(p) ==
    /\ session[p].on /\ PFault
    /\ session' = [session EXCEPT ![p] = NoSession]
    /\ UNCHANGED <<provider, attempt, task, probes, health, count, granted, streak, pageJobs>>

(* _pick: the next healthy template in turn, or the next when none is.     *)
Healthy(v, t) == t \notin v.tripped \cup v.shared
Turn(v, k) == ((v.next + k) % Templates) + 1
Pick(v) ==
    LET good == {k \in 0..(Templates - 1) : Healthy(v, Turn(v, k))} IN
    IF good = {} THEN Turn(v, 0) ELSE Turn(v, CHOOSE k \in good : \A j \in good : k <= j)
RotatedNot(v, t) == v \* Mutant: the turn does not move on
Rotated(v, t) == [v EXCEPT !.next = t]

(* report_failure, report_success.                                         *)
Failed(v, t) ==
    IF v.fails[t] + 1 >= FailThreshold
    THEN [v EXCEPT !.fails[t] = 0, !.tripped = @ \cup {t}] ELSE [v EXCEPT !.fails[t] = @ + 1]
Succeeded(v, t) == [v EXCEPT !.fails[t] = 0, !.tripped = @ \ {t}]

OpenSession(p) ==
    LET t == Pick(provider[p])  v == Rotated(provider[p], t) IN
    /\ At(p, "session") /\ ~Fresh(p) /\ t \in Working
    /\ provider' = [provider EXCEPT ![p] = Succeeded(v, t)]
    /\ session' = [session EXCEPT ![p] = [on |-> TRUE, used |-> 0]]
    /\ streak' = [streak EXCEPT ![p] = 0]
    /\ Go(p, "ask")
    /\ UNCHANGED <<task, probes, health, count, granted, pageJobs, pfaults>>

BootstrapFails(p) ==
    LET t == Pick(provider[p])  v == Rotated(provider[p], t) IN
    /\ At(p, "session") /\ ~Fresh(p) /\ t \notin Working
    /\ provider' = [provider EXCEPT ![p] = Failed(v, t)]
    /\ session' = [session EXCEPT ![p] = NoSession]
    /\ streak' = [streak EXCEPT ![p] = @ + 1]
    /\ Raised(p)
    /\ UNCHANGED <<health, count, granted, pageJobs, pfaults>>

(* The cooldown of a template is over.                                     *)
TripEnds(p, t) ==
    /\ t \in provider[p].tripped
    /\ provider' = [provider EXCEPT ![p].tripped = @ \ {t}]
    /\ UNCHANGED <<session, attempt, task, probes, health, count, granted, streak, pageJobs, pfaults>>

(* The scheduler's check writes what it found; it is forgotten after an    *)
(* hour, and for the moment between DEL and HSET.                          *)
CheckProxies(down) ==
    /\ health # down /\ health' = down
    /\ UNCHANGED <<provider, session, attempt, task, probes, count, granted, streak, pageJobs, pfaults>>

----------------------------------------------------------------------------
(* RedisRequestBudget.acquire: INCR tells every process another number;     *)
(* how far above the budget the counter is no longer matters.              *)
WithinOneMore(c) == c <= PerMinute + 1 \* Mutant: off by one
Within(c) == c <= PerMinute

Acquire(p) ==
    /\ At(p, "ask")
    /\ count' = LeastOf({count + 1, PerMinute + 2})
    /\ IF Within(count + 1) THEN granted' = granted + 1 /\ Go(p, "send")
       ELSE UNCHANGED granted /\ Go(p, "wait")
    /\ UNCHANGED <<provider, session, task, probes, health, streak, pageJobs, pfaults>>

NewMinute ==
    /\ count > 0 /\ count' = 0 /\ granted' = 0
    /\ attempt' = [p \in Processes |-> IF At(p, "wait") THEN [attempt[p] EXCEPT !.pc = "ask"] ELSE attempt[p]]
    /\ UNCHANGED <<provider, session, task, probes, health, streak, pageJobs, pfaults>>

(* Redis fails.                                                            *)
AcquireFails(p) ==
    /\ At(p, "ask") /\ PFault /\ Raised(p)
    /\ UNCHANGED <<provider, session, health, count, granted, streak, pageJobs>>

----------------------------------------------------------------------------
(* classify_response; "dropped": a page without the dates asked for, or    *)
(* not the page expected; "other": one of other dates.                     *)
Responses == [status : {200, 202, 404, 500, 503}, marked : BOOLEAN, page : {"ok", "sold_out", "empty", "dropped", "other"}]
Classify(r) ==
    IF r.status \in {403, 429, 503, 202} THEN "blocked"
    ELSE IF r.status = 404 THEN "not_found"
    ELSE IF r.marked THEN "blocked"
    ELSE IF r.status >= 400 THEN "error"
    ELSE IF r.page = "dropped" THEN "blocked"
    ELSE r.page

(* A response counts for the session, a transport error does not; a block  *)
(* retires it.                                                             *)
Used(p, what) == session' = [session EXCEPT ![p] =
    IF what = "blocked" THEN NoSession ELSE IF what = "exception" THEN @ ELSE [@ EXCEPT !.used = session[p].used + 1]]

(* fetch_calendar: which nights are closed, or nothing; then the nights of *)
(* this run that are done, and those seen lately, are put aside.           *)
AsideNone(p) == FreshNights \* Mutant: the run's own nights are not put aside
Aside(p) == {n \in Stays : probes[p][n] \in Usable} \cup FreshNights

AskCalendar(p, what, closed) ==
    /\ At(p, "send") /\ attempt[p].step = "calendar"
    /\ Used(p, what) /\ (what # "ok" => closed = {})
    /\ attempt' = [attempt EXCEPT ![p] = [@ EXCEPT !.pc = "night", !.skip = Aside(p), !.closed = closed]]
    /\ UNCHANGED <<provider, task, probes, health, count, granted, streak, pageJobs, pfaults>>

(* The next night: put aside, closed by the calendar, or to be asked for.  *)
OverEarly(p) == attempt[p].night + 1 >= Horizon \* Mutant: off by one
Over(p) == attempt[p].night >= Horizon

NextNight(p) ==
    LET n == attempt[p].night IN
    /\ At(p, "night") /\ ~Over(p)
    /\ IF n \in attempt[p].skip
       THEN attempt' = [attempt EXCEPT ![p].night = n + 1] /\ UNCHANGED <<probes, task>>
       ELSE IF n \in attempt[p].closed THEN WriteNight(p, "skipped")
       ELSE /\ attempt' = [attempt EXCEPT ![p] = [@ EXCEPT !.pc = "session", !.step = "probe", !.blocked = 0, !.transient = 0]]
            /\ UNCHANGED <<probes, task>>
    /\ UNCHANGED <<provider, session, health, count, granted, streak, pageJobs, pfaults>>

FinishJob(p) ==
    /\ At(p, "night") /\ Over(p)
    /\ EndAttempt(p, "done")
    /\ UNCHANGED <<provider, session, probes, health, count, granted, streak, pageJobs, pfaults>>

(* BrowserCollector.probe: a browser of its own, through the next proxy.   *)
Browse(p, status) ==
    /\ provider' = [provider EXCEPT ![p] = Rotated(@, Pick(@))]
    /\ WriteNight(p, status)

(* HybridCollector.probe.                                                  *)
CountedNot(k) == k \* Mutant: retries are not counted
Counted(k) == k + 1
TransientLeft(p) == attempt[p].transient < TransientRetries
Again(p, counter) ==
    /\ attempt' = [attempt EXCEPT ![p] = IF counter = "blocked" THEN [@ EXCEPT !.pc = "session", !.blocked = Counted(attempt[p].blocked)]
                                         ELSE [@ EXCEPT !.pc = "session", !.transient = Counted(attempt[p].transient)]]
    /\ UNCHANGED <<provider, task, probes>>
Write(p, status) == WriteNight(p, status) /\ UNCHANGED provider

Answer(p, what, five, browsed) ==
    /\ At(p, "send") /\ attempt[p].step = "probe" /\ Used(p, what)
    /\ CASE what = "blocked" /\ attempt[p].blocked < HttpRetries -> Again(p, "blocked")
         [] what = "blocked" /\ attempt[p].blocked >= HttpRetries -> Browse(p, browsed)
         [] what = "empty" -> Browse(p, browsed)
         [] (what = "exception" \/ (what = "error" /\ five)) /\ TransientLeft(p) -> Again(p, "transient")
         [] what = "error" /\ (~five \/ ~TransientLeft(p)) -> Write(p, "error")
         [] what = "exception" /\ ~TransientLeft(p) -> Write(p, "error")
         [] what = "other" -> Write(p, "error")
         [] what \in {"ok", "sold_out"} -> Write(p, what)
         [] what = "not_found" ->
              /\ probes' = [probes EXCEPT ![p][attempt[p].night] = "error"]
              /\ EndAttempt(p, "broken") /\ UNCHANGED provider
    /\ UNCHANGED <<health, count, granted, streak, pageJobs, pfaults>>

ProbeAnswered(p) ==
    \/ \E r \in Responses, b \in ProbeStatuses \ {"skipped"} : Answer(p, Classify(r), r.status >= 500, b)
    \/ \E b \in {"error"} : Answer(p, "exception", FALSE, b)

CalendarAnswered(p) ==
    \/ \E closed \in SUBSET Stays : AskCalendar(p, "ok", closed)
    \/ \E what \in {"blocked", "exception", "error"} : AskCalendar(p, what, {})

(* _get_page: the page, or an exception.                                   *)
PageAnswered(p) ==
    /\ At(p, "send") /\ attempt[p].step = "page"
    /\ \E r \in Responses : Used(p, Classify(r))
    /\ EndAttempt(p, "done")
    /\ UNCHANGED <<provider, probes, health, count, granted, streak, pageJobs, pfaults>>

(* The process dies: its memory is lost and, unless this was the last try, *)
(* the job is delivered again; else its row stays as it is.                *)
ProcessDies(p) ==
    /\ ~At(p, "idle") /\ PFault
    /\ provider' = [provider EXCEPT ![p] = NewProvider] /\ session' = [session EXCEPT ![p] = NoSession]
    /\ streak' = [streak EXCEPT ![p] = 0]
    /\ attempt' = [attempt EXCEPT ![p] = [NoAttempt EXCEPT !.try = attempt[p].try]]
    /\ UNCHANGED <<task, probes, health, count, granted, pageJobs>>

----------------------------------------------------------------------------
ProcessStep(p) ==
    \/ TakeJob(p) \/ KeepSession(p) \/ OpenSession(p) \/ BootstrapFails(p) \/ Acquire(p)
    \/ CalendarAnswered(p) \/ NextNight(p) \/ FinishJob(p) \/ ProbeAnswered(p) \/ PageAnswered(p)

ProbeNext ==
    \/ \E p \in Processes : \/ ProcessStep(p) \/ TakePage(p) \/ SessionAges(p) \/ AcquireFails(p) \/ ProcessDies(p)
                            \/ \E t \in 1..Templates : TripEnds(p, t)
    \/ NewMinute \/ \E down \in Checks : CheckProxies(down)

(* Processes execute their jobs, minutes pass.                             *)
ProbeFairness == (\A p \in Processes : WF_probeVars(ProcessStep(p))) /\ WF_probeVars(NewMinute)
ProbeSpec == ProbeInit /\ [][ProbeNext]_probeVars /\ ProbeFairness

----------------------------------------------------------------------------
ProbeTypeOK ==
    /\ \A p \in Processes :
         /\ provider[p].next \in 0..Templates /\ provider[p].tripped \cup provider[p].shared \subseteq 1..Templates
         /\ provider[p].fails \in [1..Templates -> 0..(FailThreshold - 1)]
         /\ session[p].used \in 0..SessionRequests
         /\ attempt[p].night \in 0..Horizon /\ attempt[p].try \in 0..Attempts
         /\ attempt[p].blocked \in 0..HttpRetries /\ attempt[p].transient \in 0..TransientRetries
         /\ task[p] \in Settled \cup {"none", "queued", "retrying"}
    /\ probes \in [Processes -> [Stays -> ProbeStatuses \cup {"none"}]]
    /\ health \in Checks \cup {{}} /\ count \in 0..(PerMinute + 2) /\ granted <= count

(* However the processes of a channel interleave, not more requests than   *)
(* its budget are let through in a minute (budget.py).                     *)
BudgetHeld == granted <= PerMinute

(* A process that fails to open a session goes on to another provider: as  *)
(* long as the check does not tell it that all that work are down, the     *)
(* ones that do not work cost it one try each (proxy.py).                  *)
FailoverIsQuick ==
    \A p \in Processes : Working \ provider[p].shared # {} => streak[p] <= Templates - Cardinality(Working)

(* A job reported done has looked at every night of its horizon, though    *)
(* attempts were cut short; and never more than Attempts times.            *)
DoneIsComplete ==
    \A p \in Processes : task[p] = "done" => \A n \in Stays \ FreshNights : probes[p][n] # "none"

(* What a run has seen of a night is not replaced by a later attempt.      *)
UsableIsKept ==
    [][\A p \in Processes, n \in Stays : probes[p][n] \in Usable => probes'[p][n] = probes[p][n]]_probeVars

(* An attempt keeps to its bounds, and a job reported done has looked at   *)
(* every night, though attempts were cut short (worker/jobs.py).           *)
AttemptIsWhole == ProbeTypeOK /\ DoneIsComplete

=============================================================================

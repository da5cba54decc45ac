---------------------------- MODULE ScanSchedule ----------------------------
(***************************************************************************)
(* Which runs exist: SchedulerService.tick, from the slots of the tenants  *)
(* to the end of the tick, with what it keeps in memory only (deferred     *)
(* slots, the pending catch-up, the last tick), and "scan now".            *)
(*                                                                         *)
(* Time is a number of equal units; a tick and a request take none of it.  *)
(* A tick is split at its commits, where an error or a restart may stop it.*)
(* What happens to a run between its creation and its end is ScanRun's: a  *)
(* job here is pending, done or failed, and a run is running while one of  *)
(* its jobs is pending. One channel: load_watch_rows keeps only Booking.   *)
(***************************************************************************)
EXTENDS Naturals, FiniteSets

CONSTANTS
    Tenants,
    Hotels,
    Watch,       \* the hotels each tenant watches (active, with an active listing)
    Slots,       \* the scan times of each tenant, as times
    Requests,    \* "scan now" requests, one of each
    MaxTime,     \* bound: the last time
    Lookback,    \* lookback
    Deadline,    \* run_deadline_minutes
    DeferMax,    \* defer_max
    PauseLength, \* pause_minutes
    DedupWindow, \* DEDUP_WINDOW
    Events,      \* what the environment may do, a subset of AllEvents
    None

AllEvents == {"restart", "tick_error", "proxies", "blocks"}

Time == 0 .. MaxTime

ASSUME ConstantAssumption ==
    /\ Watch \in [Tenants -> SUBSET Hotels]
    /\ Slots \in [Tenants -> SUBSET Time]
    /\ MaxTime \in Nat /\ Lookback \in Nat /\ Deadline \in Nat /\ DeferMax \in Nat
    /\ PauseLength \in Nat /\ DedupWindow \in Nat
    /\ Events \subseteq AllEvents
    /\ None \notin Time /\ None \notin Tenants

\* trigger_key: one run per key.
Keys == ({"slot", "catchup"} \X Time) \union ({"manual"} \X Requests)

VARIABLES
    now,
    down,          \* all_down of the latest proxy check
    pausedUntil,   \* when the key channel_paused:<channel> expires
    \* committed database state
    start,         \* scan_runs.started_at of each run
    job,           \* scan_jobs.status of each run and hotel
    \* the scheduler's memory
    deferred,      \* _deferred: slots put off, with the time they were
    catchUpPending,
    lastTick,      \* _last_tick_at
    phase, todo,   \* where a tick is; the triggers it still has to start
    created,       \* TickReport.created_runs
    givenUp,       \* slots put off for too long (alerted), skipped in a pause, or
                   \* forgotten by a tick that failed (history)
    \* the API
    request        \* of each "scan now" request: its tenant once it found no recent run

database == <<start, job>>
memory == <<deferred, catchUpPending, lastTick>>
tick == <<phase, todo, created>>
vars == <<now, down, pausedUntil, database, memory, tick, givenUp, request>>

Deferral == [at : Time, since : Time]
Phases == {"idle", "slots", "expire", "missed", "catch_up", "end"}
JobStatus == {"none", "pending", "done", "failed"}
RequestStates == Tenants \union {None}

TypeOK ==
    /\ now \in Time
    /\ down \in BOOLEAN
    /\ pausedUntil \in 0 .. (MaxTime + PauseLength)
    /\ start \in [Keys -> Time \union {None}]
    /\ job \in [Keys -> [Hotels -> JobStatus]]
    /\ deferred \subseteq Deferral
    /\ catchUpPending \in BOOLEAN
    /\ lastTick \in Time \union {None}
    /\ phase \in Phases
    /\ todo \subseteq Time
    /\ created \subseteq Keys
    /\ givenUp \subseteq Time
    /\ request \in [Requests -> RequestStates]

Init ==
    /\ now = 0
    /\ down = FALSE
    /\ pausedUntil = 0
    /\ start = [k \in Keys |-> None]
    /\ job = [k \in Keys |-> [h \in Hotels |-> "none"]]
    /\ deferred = {}
    /\ catchUpPending = FALSE
    /\ lastTick = None
    /\ phase = "idle"
    /\ todo = {}
    /\ created = {}
    /\ givenUp = {}
    /\ request = [c \in Requests |-> None]

Paused == now < pausedUntil
Running(k) == \E h \in Hotels : job[k][h] = "pending"

-----------------------------------------------------------------------------
(* planning.py.                                                             *)

\* compute_triggers: the slots in (now - lookback, now].
Due == {s \in UNION {Slots[t] : t \in Tenants} : s <= now /\ now < s + Lookback}

\* The tenants of a trigger, and the hotels its run scans.
TenantsAt(s) == {t \in Tenants : s \in Slots[t]}
HotelsAt(s) == UNION {Watch[t] : t \in TenantsAt(s)}

\* Mutant: a slot exactly one lookback old is neither due nor missed.
MissedStrict(t, s) ==
    /\ s \in Slots[t] /\ s + Lookback < now
    /\ \A q \in Slots[t] : q <= now => q <= s

\* missed_slots: s is the tenant's latest slot, and no longer in that window.
Missed(t, s) ==
    /\ s \in Slots[t] /\ s + Lookback <= now
    /\ \A q \in Slots[t] : q <= now => q <= s

\* The slots a catch-up is for.
MissedSlots == {s \in Time : \E t \in Tenants : Missed(t, s)}

-----------------------------------------------------------------------------
(* The tick.                                                                *)

\* create_run: nothing if the key exists; one pending job per hotel.
Create(k, at, H) ==
    IF start[k] = None /\ H # {}
    THEN /\ start' = [start EXCEPT ![k] = at]
         /\ job' = [job EXCEPT ![k] = [h \in Hotels |-> IF h \in H THEN "pending" ELSE @[h]]]
         /\ created' = created \union {k}
    ELSE UNCHANGED <<start, job, created>>

\* The triggers of this tick. With every proxy down they are put off, and those
\* put off for too long are given up with an alert; otherwise all are started,
\* and the memory of the deferred ones is cleared before that.
TickStart ==
    LET known == {d.at : d \in deferred}
        all == deferred \union {[at |-> s, since |-> now] : s \in Due \ known}
        old == {d \in all : d.since + DeferMax < now}
    IN  /\ phase = "idle"
        /\ IF down
           THEN /\ deferred' = all \ old
                /\ givenUp' = givenUp \union {d.at : d \in old}
                /\ todo' = {}
           ELSE /\ deferred' = {}
                /\ todo' = Due \union known
                /\ UNCHANGED givenUp
        /\ phase' = "slots"
        /\ UNCHANGED <<now, down, pausedUntil, database, catchUpPending, lastTick, created, request>>

\* One trigger: its run is created and committed, unless the channel is paused.
StartSlot(s) ==
    /\ phase = "slots"
    /\ s \in todo
    /\ IF Paused THEN givenUp' = givenUp \union {s} /\ UNCHANGED <<start, job, created>>
                 ELSE Create(<<"slot", s>>, s, HotelsAt(s)) /\ UNCHANGED givenUp
    /\ todo' = todo \ {s}
    /\ UNCHANGED <<now, down, pausedUntil, memory, phase, request>>

SlotsDone ==
    /\ phase = "slots"
    /\ todo = {}
    /\ phase' = "expire"
    /\ UNCHANGED <<now, down, pausedUntil, database, memory, todo, created, givenUp, request>>

\* Mutant: the deadline of slot runs only.
OverdueSlotRun(k) == k[1] = "slot" /\ start[k] # None /\ start[k] + Deadline < now

\* A run past its deadline.
Overdue(k) == start[k] # None /\ start[k] + Deadline < now

\* expire_runs: the pending jobs of runs past their deadline fail.
Expire ==
    /\ phase = "expire"
    /\ job' = [k \in Keys |-> [h \in Hotels |->
                   IF Overdue(k) /\ job[k][h] = "pending" THEN "failed" ELSE job[k][h]]]
    /\ phase' = "missed"
    /\ UNCHANGED <<now, down, pausedUntil, start, memory, todo, created, givenUp, request>>

\* The scheduler has just started, or did not run for longer than the lookback.
MissedWindow == lastTick = None \/ lastTick + Lookback < now

\* Whether this tick catches up, or leaves it to one that finds a proxy.
LookForMissed ==
    LET wanted == MissedWindow \/ catchUpPending IN
    /\ phase = "missed"
    /\ catchUpPending' = (wanted /\ down)
    /\ phase' = IF wanted /\ ~down THEN "catch_up" ELSE "end"
    /\ UNCHANGED <<now, down, pausedUntil, database, deferred, lastTick,
                   todo, created, givenUp, request>>

\* Mutant: a manual run does not count.
ScannedBySchedule(h, s) ==
    \E k \in Keys : /\ k[1] # "manual" /\ start[k] # None /\ start[k] >= s
                    /\ job[k][h] \notin {"none", "failed"}

\* hotels_scanned_since: a job that has not failed, of a run started since s.
ScannedSince(h, s) ==
    \E k \in Keys : start[k] # None /\ start[k] >= s /\ job[k][h] \notin {"none", "failed"}

\* _catch_up: one run, from now, with the hotels not scanned since the latest
\* missed slot of a tenant who watches them.
CatchUp ==
    LET H == {h \in Hotels : \E t \in Tenants, s \in Time :
                  h \in Watch[t] /\ Missed(t, s) /\ ~ScannedSince(h, s)}
    IN  /\ phase = "catch_up"
        /\ IF Paused THEN givenUp' = givenUp \union MissedSlots /\ UNCHANGED <<start, job, created>>
                     ELSE Create(<<"catchup", now>>, now, H) /\ UNCHANGED givenUp
        /\ phase' = "end"
        /\ UNCHANGED <<now, down, pausedUntil, memory, todo, request>>

\* Mutant: the length of the pause is added twice.
TickEndExtendsPause ==
    /\ phase = "end"
    /\ \/ UNCHANGED pausedUntil
       \/ "blocks" \in Events /\ ~Paused /\ pausedUntil' = now + PauseLength + PauseLength
    /\ lastTick' = now
    /\ phase' = "idle"
    /\ created' = {}
    /\ UNCHANGED <<now, down, database, deferred, catchUpPending, todo, givenUp, request>>

\* The rest of the tick: a channel whose probes were blocked too often is
\* paused; then the tick has succeeded.
TickEnd ==
    /\ phase = "end"
    /\ \/ UNCHANGED pausedUntil
       \/ "blocks" \in Events /\ ~Paused /\ pausedUntil' = now + PauseLength
    /\ lastTick' = now
    /\ phase' = "idle"
    /\ created' = {}
    /\ UNCHANGED <<now, down, database, deferred, catchUpPending, todo, givenUp, request>>

\* Any exception ends the tick; what was not committed is rolled back, what was
\* put in memory stays. Slots it still had to start that no later tick finds due,
\* and slots it was to catch up though the scheduler had not stopped (its pending
\* catch-up is forgotten), are lost.
TickError ==
    /\ "tick_error" \in Events
    /\ phase # "idle"
    /\ phase' = "idle"
    /\ todo' = {}
    /\ created' = {}
    /\ givenUp' = givenUp \union {s \in todo : lastTick # None /\ s <= lastTick /\ start[<<"slot", s>>] = None}
                          \union (IF phase = "catch_up" /\ ~MissedWindow THEN MissedSlots ELSE {})
    /\ UNCHANGED <<now, down, pausedUntil, database, memory, request>>

\* The process restarts, in or between ticks, with an empty memory.
Restart ==
    /\ "restart" \in Events
    /\ deferred' = {}
    /\ catchUpPending' = FALSE
    /\ lastTick' = None
    /\ phase' = "idle"
    /\ todo' = {}
    /\ created' = {}
    /\ UNCHANGED <<now, down, pausedUntil, database, givenUp, request>>

-----------------------------------------------------------------------------
(* create_manual_run, for the whole watchlist of a tenant.                  *)

\* A manual run of the tenant that is running, or was created lately.
Recent(t) ==
    \E c \in Requests : LET k == <<"manual", c>> IN
        /\ request[c] = t /\ start[k] # None
        /\ Running(k) \/ start[k] + DedupWindow >= now

\* The request looks for a recent run and finds none ...
RequestReads(c, t) ==
    /\ request[c] = None
    /\ Watch[t] # {}
    /\ ~Recent(t)
    /\ request' = [request EXCEPT ![c] = t]
    /\ UNCHANGED <<now, down, pausedUntil, database, memory, tick, givenUp>>

\* ... and creates one. The key tells the second: no other request has it.
RequestCreates(c) ==
    LET k == <<"manual", c>> IN
    /\ request[c] # None /\ start[k] = None
    /\ start' = [start EXCEPT ![k] = now]
    /\ job' = [job EXCEPT ![k] = [h \in Hotels |-> IF h \in Watch[request[c]] THEN "pending" ELSE @[h]]]
    /\ UNCHANGED <<now, down, pausedUntil, memory, tick, givenUp, request>>

-----------------------------------------------------------------------------
(* The environment.                                                         *)

\* Time passes between ticks and between requests, whether or not a tick has
\* been made at this time: the scheduler may be stopped.
Advance ==
    /\ phase = "idle" /\ now < MaxTime
    /\ \A c \in Requests : request[c] # None => start[<<"manual", c>>] # None
    /\ now' = now + 1
    /\ UNCHANGED <<down, pausedUntil, database, memory, tick, givenUp, request>>

\* The next proxy check answers otherwise than the last one.
ProxiesChange ==
    /\ "proxies" \in Events
    /\ phase = "idle"
    /\ down' = ~down
    /\ UNCHANGED <<now, pausedUntil, database, memory, tick, givenUp, request>>

\* A worker settles a job for good (ScanRun).
JobEnds(k, h, s) ==
    /\ job[k][h] = "pending"
    /\ s \in {"done", "failed"}
    /\ job' = [job EXCEPT ![k][h] = s]
    /\ UNCHANGED <<now, down, pausedUntil, start, memory, tick, givenUp, request>>

-----------------------------------------------------------------------------
Next ==
    \/ TickStart \/ SlotsDone \/ Expire \/ LookForMissed \/ CatchUp \/ TickEnd
    \/ \E s \in Time : StartSlot(s)
    \/ TickError \/ Restart
    \/ \E c \in Requests : RequestCreates(c) \/ \E t \in Tenants : RequestReads(c, t)
    \/ Advance \/ ProxiesChange
    \/ \E k \in Keys, h \in Hotels, s \in JobStatus : JobEnds(k, h, s)

Spec == Init /\ [][Next]_vars

-----------------------------------------------------------------------------
(* Properties.                                                              *)

\* A run, of whatever kind, that scans h and started at s or later.
HasRunSince(h, s) ==
    \E k \in Keys : start[k] # None /\ start[k] >= s /\ job[k][h] # "none"

Latest(t, s) == s \in Slots[t] /\ s <= now /\ \A q \in Slots[t] : q <= now => q <= s

\* After a tick that succeeded and found a proxy, every watched hotel has a run
\* for the tenant's latest slot, however long the scheduler was stopped, its
\* proxies down and its memory lost before: the window of compute_triggers, the
\* deferred slots and the catch-up leave no gap. Only slots given up are excepted:
\* put off for longer than defer_max, skipped because the channel was paused, or
\* forgotten by a tick that failed after it had cleared them from its memory.
LatestSlotServed ==
    [][ TickEnd /\ ~down =>
          \A t \in Tenants, s \in Time : Latest(t, s) /\ s \notin givenUp =>
              \A h \in Watch[t] : HasRunSince(h, s) ]_vars

\* A catch-up run never repeats a scan: of a tenant who watches the hotel, no
\* other run between the missed slot and the catch-up has a job of the hotel
\* that did not fail, not even a run created after it (a deferred slot).
NoSlotScannedTwice ==
    \A c \in Time, h \in Hotels : job[<<"catchup", c>>][h] # "none" =>
        \E t \in Tenants : \E s \in Slots[t] :
            /\ h \in Watch[t] /\ s + Lookback <= c
            /\ \A k \in Keys : start[k] # None /\ s <= start[k] /\ start[k] < c
                               => job[k][h] \in {"none", "failed"}

\* A tick that catches up leaves each hotel of a missed slot with data or with
\* a job that still has time: the jobs of a run that died are not counted as
\* scanned (expire_runs comes first). Only a second catch-up within the unit of
\* its key is not made.
DeadRunsAreReplaced ==
    [][ CatchUp /\ ~Paused /\ start[<<"catchup", now>>] = None =>
          \A t \in Tenants, s \in Time : Missed(t, s) =>
              \A h \in Watch[t] : \E k \in Keys :
                  /\ start'[k] # None /\ start'[k] >= s
                  /\ \/ job'[k][h] = "done"
                     \/ job'[k][h] = "pending" /\ start'[k] + Deadline >= now ]_vars

\* test_scheduler_service.py: the deadline of a run made up for counts from its
\* creation, not from the slot missed; operations.md: a deferred slot gets its
\* run at once when a proxy works. No run is expired by the tick that created it.
NewRunHasTime ==
    [][ Expire =>
          \A k \in created, h \in Hotels : job'[k][h] = job[k][h] ]_vars

=============================================================================

------------------------- MODULE ScanScheduleProofs -------------------------
(* Proofs about ScanSchedule, for every set of tenants, hotels, watchlists    *)
(* and slots, every lookback, deadline, defer_max and pause.                  *)
EXTENDS ScanSchedule, TLAPS

USE ConstantAssumption

-----------------------------------------------------------------------------
(* The inductive invariant.                                                  *)

LatestAt(t, s, n) == s \in Slots[t] /\ s <= n /\ \A q \in Slots[t] : q <= n => q <= s
Served(t, s) == \A h \in Watch[t] : HasRunSince(h, s)
Known == {d.at : d \in deferred}

\* The runs: what their keys and jobs say of each other.
RunsInv ==
    /\ \A k \in Keys, h \in Hotels : job[k][h] # "none" => start[k] # None
    /\ \A s \in Time : start[<<"slot", s>>] # None =>
           start[<<"slot", s>>] = s /\ \A h \in HotelsAt(s) : job[<<"slot", s>>][h] # "none"
    /\ \A c \in Time : start[<<"catchup", c>>] # None => start[<<"catchup", c>>] = c /\ c <= now
    /\ lastTick # None => lastTick <= now

\* A tick: which of the slots that are due are still to be started, and that
\* the runs past their deadline are settled before it catches up.
SlotHandled(s) ==
    \/ s \in todo
    \/ Paused /\ s \in givenUp
    \/ start[<<"slot", s>>] # None
    \/ HotelsAt(s) = {}

TickInv ==
    /\ phase # "slots" => todo = {}
    /\ phase = "catch_up" => ~ down
    /\ phase # "idle" /\ ~ down => deferred = {} /\ \A s \in Due : SlotHandled(s)
    /\ phase # "idle" /\ down => todo = {} /\ \A s \in Due : s \in Known \/ s \in givenUp
    /\ phase \in {"missed", "catch_up", "end"} =>
           \A k \in Keys, h \in Hotels : job[k][h] = "pending" => ~ Overdue(k)

\* A catch-up run: what it is for was not scanned, and no slot before it can
\* still get a run.
NotRepeated(c, h) ==
    \E t \in Tenants : \E s \in Slots[t] :
        /\ h \in Watch[t] /\ s + Lookback <= c
        /\ \A k \in Keys : start[k] # None /\ s <= start[k] /\ start[k] < c => job[k][h] \in {"none", "failed"}

NoLateSlot(c) ==
    \A s \in Time : s < c /\ start[<<"slot", s>>] = None /\ HotelsAt(s) # {} =>
        s + Lookback <= c /\ s \notin todo /\ s \notin Known

CatchUpInv ==
    \A c \in Time, h \in Hotels : job[<<"catchup", c>>][h] # "none" => NotRepeated(c, h) /\ NoLateSlot(c)

\* What a catch-up run was for has been served.
ServeInv ==
    \A c \in Time : start[<<"catchup", c>>] # None =>
        \A t \in Tenants, s \in Time : LatestAt(t, s, c) /\ s + Lookback <= c => Served(t, s)

\* While the scheduler does not have to look for missed slots, the latest slot
\* of a tenant its last tick could see is served, given up, or remembered.
Held(t, s) ==
    \/ Served(t, s) \/ s \in givenUp \/ s \in Known \/ s \in todo
    \/ catchUpPending \/ phase = "catch_up"

AccountInv ==
    ~ MissedWindow => \A t \in Tenants, s \in Time : LatestAt(t, s, now) /\ s <= lastTick => Held(t, s)

EndInv ==
    phase = "end" => \A t \in Tenants, s \in Time : LatestAt(t, s, now) =>
        \/ Served(t, s) \/ s \in givenUp
        \/ down /\ (s \in Known \/ catchUpPending)

ScheduleInv ==
    TypeOK /\ RunsInv /\ TickInv /\ CatchUpInv /\ ServeInv /\ AccountInv /\ EndInv

-----------------------------------------------------------------------------
(* Keys, jobs and types.                                                     *)

LEMMA KeyShapes ==
    /\ \A s \in Time : <<"slot", s>> \in Keys /\ <<"catchup", s>> \in Keys
    /\ \A c \in Requests : <<"manual", c>> \in Keys
    /\ \A k \in Keys : \/ \E s \in Time : k = <<"slot", s>> \/ k = <<"catchup", s>>
                       \/ \E c \in Requests : k = <<"manual", c>>
BY DEF Keys

LEMMA SlotSets ==
    /\ \A t \in Tenants : Slots[t] \subseteq Time /\ Watch[t] \subseteq Hotels
    /\ \A s \in Time : HotelsAt(s) \subseteq Hotels
    /\ Due \subseteq Time
    /\ \A t \in Tenants : \A s \in Slots[t] : s <= now /\ now < s + Lookback => s \in Due
    /\ \A t \in Tenants : \A s \in Slots[t] : Watch[t] \subseteq HotelsAt(s)
<1>1. \A t \in Tenants : Slots[t] \subseteq Time /\ Watch[t] \subseteq Hotels
  OBVIOUS
<1> QED
  BY <1>1 DEF Due, HotelsAt, TenantsAt

\* The runs there are stay, with their jobs; a failed job stays failed.
RunsKept ==
    \A k \in Keys : start[k] # None =>
        /\ start'[k] = start[k]
        /\ \A h \in Hotels : /\ job'[k][h] = "none" <=> job[k][h] = "none"
                             /\ job[k][h] = "failed" => job'[k][h] = "failed"
                             /\ job'[k][h] = "pending" => job[k][h] = "pending"

\* A run is created for the hotels H, or none is.
Makes(k, at, H) ==
    /\ start[k] = None /\ start' = [start EXCEPT ![k] = at]
    /\ job' \in [Keys -> [Hotels -> JobStatus]]
    /\ \A h \in Hotels : job'[k][h] = IF h \in H THEN "pending" ELSE job[k][h]
    /\ \A j \in Keys, h \in Hotels : j # k => job'[j][h] = job[j][h]

LEMMA NewJobs ==
    ASSUME TypeOK, NEW k \in Keys, NEW H \in SUBSET Hotels,
           job' = [job EXCEPT ![k] = [h \in Hotels |-> IF h \in H THEN "pending" ELSE job[k][h]]]
    PROVE  /\ job' \in [Keys -> [Hotels -> JobStatus]]
           /\ \A h \in Hotels : job'[k][h] = IF h \in H THEN "pending" ELSE job[k][h]
           /\ \A j \in Keys, h \in Hotels : j # k => job'[j][h] = job[j][h]
<1>1. job[k] \in [Hotels -> JobStatus] /\ "pending" \in JobStatus
  BY DEF TypeOK, JobStatus
<1>2. [h \in Hotels |-> IF h \in H THEN "pending" ELSE job[k][h]] \in [Hotels -> JobStatus]
  BY <1>1
<1>3. job' \in [Keys -> [Hotels -> JobStatus]]
  BY <1>2 DEF TypeOK
<1>4. job'[k] = [h \in Hotels |-> IF h \in H THEN "pending" ELSE job[k][h]] /\ \A j \in Keys : j # k => job'[j] = job[j]
  BY DEF TypeOK
<1> QED
  BY <1>3, <1>4

LEMMA CreateMakes ==
    ASSUME TypeOK, NEW k \in Keys, NEW at, NEW H \in SUBSET Hotels, Create(k, at, H)
    PROVE  \/ Makes(k, at, H)
           \/ UNCHANGED <<start, job, created>> /\ (start[k] # None \/ H = {})
BY NewJobs DEF Create, Makes

\* Making a run keeps the others.
LEMMA MakesKeeps ==
    ASSUME TypeOK, NEW k \in Keys, NEW at \in Time, NEW H \in SUBSET Hotels, Makes(k, at, H)
    PROVE  /\ RunsKept /\ start' \in [Keys -> Time \union {None}] /\ start'[k] = at /\ at # None
           /\ \A j \in Keys : j # k => start'[j] = start[j]
BY DEF Makes, RunsKept, TypeOK

\* What a step is.
LEMMA Steps ==
    ASSUME [Next]_vars
    PROVE  \/ TickStart \/ SlotsDone \/ Expire \/ LookForMissed \/ CatchUp \/ TickEnd
           \/ \E s \in Time : StartSlot(s)
           \/ TickError \/ Restart
           \/ \E c \in Requests : RequestCreates(c) \/ \E t \in Tenants : RequestReads(c, t)
           \/ Advance \/ ProxiesChange
           \/ \E k \in Keys, h \in Hotels, s \in JobStatus : JobEnds(k, h, s)
           \/ UNCHANGED vars
BY DEF Next

CatchUpHotels ==
    {h \in Hotels : \E t \in Tenants, s \in Time : h \in Watch[t] /\ Missed(t, s) /\ ~ ScannedSince(h, s)}

\* What the actions that touch the runs do to them.
LEMMA SlotRun ==
    ASSUME TypeOK, NEW s \in Time, StartSlot(s)
    PROVE  \/ Makes(<<"slot", s>>, s, HotelsAt(s)) /\ ~ Paused /\ UNCHANGED givenUp
           \/ /\ UNCHANGED <<start, job, created>>
              /\ \/ Paused /\ givenUp' = givenUp \union {s}
                 \/ (start[<<"slot", s>>] # None \/ HotelsAt(s) = {}) /\ UNCHANGED givenUp
<1>1. CASE Paused
  BY <1>1 DEF StartSlot
<1>2. CASE ~ Paused
  <2>1. Create(<<"slot", s>>, s, HotelsAt(s)) /\ UNCHANGED givenUp
    BY <1>2 DEF StartSlot
  <2> QED
    BY <1>2, <2>1, CreateMakes, KeyShapes, SlotSets
<1> QED
  BY <1>1, <1>2

LEMMA CatchUpRun ==
    ASSUME TypeOK, CatchUp
    PROVE  \/ Makes(<<"catchup", now>>, now, CatchUpHotels) /\ ~ Paused /\ UNCHANGED givenUp
           \/ /\ UNCHANGED <<start, job, created>>
              /\ \/ Paused /\ givenUp' = givenUp \union MissedSlots
                 \/ (start[<<"catchup", now>>] # None \/ CatchUpHotels = {}) /\ ~ Paused /\ UNCHANGED givenUp
<1>1. CASE Paused
  BY <1>1 DEF CatchUp
<1>2. CASE ~ Paused
  <2>1. Create(<<"catchup", now>>, now, CatchUpHotels) /\ UNCHANGED givenUp
    BY <1>2 DEF CatchUp, CatchUpHotels
  <2>2. CatchUpHotels \in SUBSET Hotels /\ <<"catchup", now>> \in Keys
    BY KeyShapes DEF CatchUpHotels, TypeOK
  <2> QED
    BY <1>2, <2>1, <2>2, CreateMakes
<1> QED
  BY <1>1, <1>2

LEMMA RequestRun ==
    ASSUME TypeOK, NEW c \in Requests, RequestCreates(c)
    PROVE  Makes(<<"manual", c>>, now, Watch[request[c]])
<1>1. request[c] \in Tenants /\ <<"manual", c>> \in Keys
  BY KeyShapes DEF RequestCreates, TypeOK, RequestStates
<1>2. Watch[request[c]] \in SUBSET Hotels
  BY <1>1
<1> QED
  BY <1>1, <1>2, NewJobs DEF RequestCreates, Makes

-----------------------------------------------------------------------------
(* Types, and the runs.                                                      *)

\* The actions that neither create a run nor settle a job.
Quiet ==
    \/ TickStart \/ SlotsDone \/ LookForMissed \/ TickEnd \/ TickError \/ Restart
    \/ \E c \in Requests, t \in Tenants : RequestReads(c, t)
    \/ Advance \/ ProxiesChange \/ UNCHANGED vars

LEMMA QuietRuns == ASSUME Quiet PROVE UNCHANGED <<start, job>>
BY DEF Quiet, TickStart, SlotsDone, LookForMissed, TickEnd, TickError, Restart, RequestReads, Advance,
       ProxiesChange, vars, database

\* The others leave time, the proxies and the scheduler's memory as they are.
Busy ==
    \/ Expire \/ CatchUp \/ \E s \in Time : StartSlot(s)
    \/ \E c \in Requests : RequestCreates(c)
    \/ \E k \in Keys, h \in Hotels, s \in JobStatus : JobEnds(k, h, s)

LEMMA BusyTime ==
    ASSUME Busy PROVE UNCHANGED <<now, down, pausedUntil, deferred, catchUpPending, lastTick, request>>
BY DEF Busy, Expire, CatchUp, StartSlot, RequestCreates, JobEnds, memory

LEMMA QuietOrBusy == ASSUME [Next]_vars PROVE Quiet \/ Busy
BY Steps DEF Quiet, Busy

LEMMA InitTypes == Init => TypeOK
<1> SUFFICES ASSUME Init PROVE TypeOK
    OBVIOUS
<1>1. 0 \in Time /\ 0 \in 0 .. (MaxTime + PauseLength)
  BY DEF Time
<1>2. start \in [Keys -> Time \union {None}] /\ job \in [Keys -> [Hotels -> JobStatus]]
  BY DEF Init, JobStatus
<1>3. request \in [Requests -> RequestStates] /\ phase \in Phases
  BY DEF Init, RequestStates, Phases
<1> QED
  BY <1>1, <1>2, <1>3 DEF Init, TypeOK, Deferral

LEMMA QuietTypes == ASSUME TypeOK, Quiet PROVE TypeOK'
<1>0. start' \in [Keys -> Time \union {None}] /\ job' \in [Keys -> [Hotels -> JobStatus]]
  BY QuietRuns DEF TypeOK
<1>1. CASE TickStart
  <2> DEFINE all == deferred \union {[at |-> s, since |-> now] : s \in Due \ Known}
             old == {d \in all : d.since + DeferMax < now}
  <2>1. all \subseteq Deferral
    BY SlotSets DEF TypeOK, Deferral
  <2>2. {d.at : d \in old} \subseteq Time /\ Due \union Known \subseteq Time
    BY <2>1, SlotSets DEF TypeOK, Deferral, Known
  <2> HIDE DEF all
  <2>3. deferred' \subseteq Deferral /\ givenUp' \subseteq Time /\ todo' \subseteq Time
    <3>1. CASE down
      <4>1. deferred' = all \ old /\ givenUp' = givenUp \union {d.at : d \in old} /\ todo' = {}
        BY <1>1, <3>1 DEF TickStart, Known, all
      <4> QED
        BY <2>1, <2>2, <4>1 DEF TypeOK
    <3>2. CASE ~ down
      <4>1. deferred' = {} /\ givenUp' = givenUp /\ todo' = Due \union Known
        BY <1>1, <3>2 DEF TickStart, Known
      <4> QED
        BY <2>2, <4>1 DEF TypeOK
    <3> QED
      BY <3>1, <3>2
  <2> QED
    BY <1>0, <1>1, <2>3 DEF TickStart, TypeOK, Phases
<1>2. CASE SlotsDone \/ TickError \/ Restart
  <2>1. MissedSlots \subseteq Time
    BY DEF MissedSlots
  <2>2. CASE TickError
    BY <1>0, <2>1, <2>2 DEF TickError, memory, TypeOK, Phases
  <2>3. CASE SlotsDone \/ Restart
    BY <1>0, <2>3 DEF SlotsDone, Restart, memory, TypeOK, Phases, Deferral
  <2> QED
    BY <1>2, <2>2, <2>3
<1>3. CASE LookForMissed
  <2>1. (catchUpPending' \in BOOLEAN) /\ (phase' \in Phases)
    BY <1>3 DEF LookForMissed, MissedWindow, Phases
  <2> QED
    BY <1>0, <1>3, <2>1 DEF LookForMissed, TypeOK
<1>4. CASE TickEnd
  <2>1. pausedUntil' \in 0 .. (MaxTime + PauseLength)
    BY <1>4 DEF TickEnd, TypeOK, Time
  <2> QED
    BY <1>0, <1>4, <2>1 DEF TickEnd, TypeOK, Phases
<1>5. ASSUME NEW c \in Requests, NEW t \in Tenants, RequestReads(c, t) PROVE TypeOK'
  BY <1>0, <1>5 DEF RequestReads, memory, tick, TypeOK, RequestStates
<1>6. CASE Advance
  <2>1. now' \in Time
    BY <1>6 DEF Advance, TypeOK, Time
  <2> QED
    BY <1>0, <1>6, <2>1 DEF Advance, memory, tick, TypeOK
<1>7. CASE ProxiesChange
  <2>1. down' \in BOOLEAN
    BY <1>7 DEF ProxiesChange
  <2> QED
    BY <1>0, <1>7, <2>1 DEF ProxiesChange, memory, tick, TypeOK
<1>8. CASE UNCHANGED vars
  BY <1>0, <1>8 DEF vars, memory, tick, TypeOK
<1> QED
  BY <1>1, <1>2, <1>3, <1>4, <1>5, <1>6, <1>7, <1>8 DEF Quiet

\* Making a run does not put anything out of its range.
LEMMA MakesTypes ==
    ASSUME TypeOK, NEW k \in Keys, NEW at \in Time, NEW H \in SUBSET Hotels, Makes(k, at, H)
    PROVE  start' \in [Keys -> Time \union {None}] /\ job' \in [Keys -> [Hotels -> JobStatus]]
BY DEF Makes, TypeOK

LEMMA BusyTypes == ASSUME TypeOK, Busy PROVE TypeOK'
<1> DEFINE R == start' \in [Keys -> Time \union {None}] /\ job' \in [Keys -> [Hotels -> JobStatus]]
<1>1. CASE Expire
  <2>1. \A k \in Keys, h \in Hotels : job[k][h] \in JobStatus /\ "failed" \in JobStatus
    BY DEF TypeOK, JobStatus
  <2>2. R
    BY <1>1, <2>1 DEF Expire, TypeOK
  <2> QED
    BY <1>1, <2>2, BusyTime DEF Expire, TypeOK, Phases
<1>2. CASE CatchUp
  <2>1. now \in Time /\ CatchUpHotels \in SUBSET Hotels /\ <<"catchup", now>> \in Keys
    BY KeyShapes DEF TypeOK, CatchUpHotels
  <2>2. R
    BY <1>2, <2>1, CatchUpRun, MakesTypes DEF TypeOK
  <2>3. created' \subseteq Keys /\ givenUp' \subseteq Time
    BY <1>2, <2>1 DEF CatchUp, Create, TypeOK, MissedSlots
  <2> QED
    BY <1>2, <2>2, <2>3, BusyTime DEF CatchUp, TypeOK, Phases
<1>3. ASSUME NEW s \in Time, StartSlot(s) PROVE TypeOK'
  <2>1. HotelsAt(s) \in SUBSET Hotels /\ <<"slot", s>> \in Keys
    BY KeyShapes, SlotSets
  <2>2. R
    BY <1>3, <2>1, SlotRun, MakesTypes DEF TypeOK
  <2>3. created' \subseteq Keys /\ givenUp' \subseteq Time /\ todo' \subseteq Time
    BY <1>3, <2>1 DEF StartSlot, Create, TypeOK
  <2> QED
    BY <1>3, <2>2, <2>3, BusyTime DEF StartSlot, Busy, TypeOK
<1>4. ASSUME NEW c \in Requests, RequestCreates(c) PROVE TypeOK'
  <2>1. request[c] \in Tenants /\ <<"manual", c>> \in Keys /\ now \in Time
    BY <1>4, KeyShapes DEF RequestCreates, TypeOK, RequestStates
  <2>2. R
    BY <1>4, <2>1, SlotSets, RequestRun, MakesTypes
  <2> QED
    BY <1>4, <2>2, BusyTime DEF RequestCreates, tick, Busy, TypeOK
<1>5. ASSUME NEW k \in Keys, NEW h \in Hotels, NEW s \in JobStatus, JobEnds(k, h, s) PROVE TypeOK'
  <2>1. R
    BY <1>5 DEF JobEnds, TypeOK
  <2> QED
    BY <1>5, <2>1, BusyTime DEF JobEnds, tick, Busy, TypeOK
<1> QED
  BY <1>1, <1>2, <1>3, <1>4, <1>5 DEF Busy

\* Every variable of the schedule stays in its range: the slots put off and the
\* triggers of a tick are slots, a job has one of its statuses.
THEOREM ScheduleTypes == Spec => []TypeOK
<1>1. TypeOK /\ [Next]_vars => TypeOK'
  BY QuietOrBusy, QuietTypes, BusyTypes
<1> QED
  BY InitTypes, <1>1, PTL DEF Spec

\* No step takes a run away, or brings a job back.
LEMMA RunsStay == ASSUME TypeOK, [Next]_vars PROVE RunsKept
<1>1. CASE Quiet
  BY <1>1, QuietRuns DEF RunsKept
<1>2. CASE UNCHANGED <<start, job>>
  BY <1>2 DEF RunsKept
<1>3. CASE Expire
  BY <1>3 DEF Expire, TypeOK, RunsKept
<1>4. CASE CatchUp
  <2>1. now \in Time /\ CatchUpHotels \in SUBSET Hotels /\ <<"catchup", now>> \in Keys
    BY KeyShapes DEF TypeOK, CatchUpHotels
  <2> QED
    BY <1>2, <1>4, <2>1, CatchUpRun, MakesKeeps
<1>5. ASSUME NEW s \in Time, StartSlot(s) PROVE RunsKept
  BY <1>2, <1>5, SlotRun, MakesKeeps, KeyShapes, SlotSets
<1>6. ASSUME NEW c \in Requests, RequestCreates(c) PROVE RunsKept
  <2>1. request[c] \in Tenants /\ <<"manual", c>> \in Keys /\ now \in Time
    BY <1>6, KeyShapes DEF RequestCreates, TypeOK, RequestStates
  <2> QED
    BY <1>6, <2>1, RequestRun, MakesKeeps, SlotSets
<1>7. ASSUME NEW k \in Keys, NEW h \in Hotels, NEW s \in JobStatus, JobEnds(k, h, s) PROVE RunsKept
  <2>1. \A j \in Keys, g \in Hotels : job'[j][g] = IF j = k /\ g = h THEN s ELSE job[j][g]
    BY <1>7 DEF JobEnds, TypeOK
  <2> QED
    BY <1>7, <2>1 DEF JobEnds, RunsKept
<1> QED
  BY <1>1, <1>3, <1>4, <1>5, <1>6, <1>7, QuietOrBusy DEF Busy

\* A step makes at most one run.
Made(k, at) ==
    /\ start[k] = None /\ start'[k] = at
    /\ \A j \in Keys : j # k => start'[j] = start[j] /\ \A h \in Hotels : job'[j][h] = job[j][h]

LEMMA MakesMade ==
    ASSUME TypeOK, NEW k \in Keys, NEW at \in Time, NEW H \in SUBSET Hotels, Makes(k, at, H)
    PROVE  Made(k, at) /\ RunsKept
<1>1. \A j \in Keys : j # k => \A h \in Hotels : job'[j][h] = job[j][h]
  BY DEF Makes
<1>2. start[k] = None
  BY DEF Makes
<1> QED
  BY <1>1, <1>2, MakesKeeps DEF Made

\* Whatever a step does, a run that is new is a slot's, at its time, or from now.
LEMMA RunsMade ==
    ASSUME TypeOK, [Next]_vars
    PROVE  \/ start' = start
           \/ \E s \in Time : StartSlot(s) /\ Makes(<<"slot", s>>, s, HotelsAt(s)) /\ Made(<<"slot", s>>, s)
           \/ CatchUp /\ Makes(<<"catchup", now>>, now, CatchUpHotels) /\ Made(<<"catchup", now>>, now)
           \/ \E c \in Requests : RequestCreates(c) /\ Made(<<"manual", c>>, now)
<1>1. CASE Quiet
  BY <1>1, QuietRuns
<1>2. CASE CatchUp
  <2>1. now \in Time /\ CatchUpHotels \in SUBSET Hotels /\ <<"catchup", now>> \in Keys
    BY KeyShapes DEF TypeOK, CatchUpHotels
  <2> QED
    BY <1>2, <2>1, CatchUpRun, MakesMade
<1>3. ASSUME NEW s \in Time, StartSlot(s)
      PROVE  start' = start \/ (Makes(<<"slot", s>>, s, HotelsAt(s)) /\ Made(<<"slot", s>>, s))
  <2>1. <<"slot", s>> \in Keys /\ HotelsAt(s) \in SUBSET Hotels
    BY KeyShapes, SlotSets
  <2>2. Makes(<<"slot", s>>, s, HotelsAt(s)) => Made(<<"slot", s>>, s)
    BY <2>1, MakesMade
  <2> QED
    BY <1>3, <2>2, SlotRun
<1>4. ASSUME NEW c \in Requests, RequestCreates(c) PROVE Made(<<"manual", c>>, now)
  <2>1. request[c] \in Tenants /\ <<"manual", c>> \in Keys /\ now \in Time
    BY <1>4, KeyShapes DEF RequestCreates, TypeOK, RequestStates
  <2> QED
    BY <1>4, <2>1, RequestRun, MakesMade, SlotSets
<1>5. CASE Expire \/ \E k \in Keys, h \in Hotels, s \in JobStatus : JobEnds(k, h, s)
  BY <1>5 DEF Expire, JobEnds
<1> QED
  BY <1>1, <1>2, <1>3, <1>4, <1>5, QuietOrBusy DEF Busy

\* Where the jobs of the runs are.
LEMMA JobsStay ==
    ASSUME TypeOK, RunsInv, [Next]_vars, start' = start
    PROVE  \A k \in Keys, h \in Hotels : job'[k][h] = "none" <=> job[k][h] = "none"
<1>1. CASE Quiet
  BY <1>1, QuietRuns
<1>2. CASE UNCHANGED job
  BY <1>2
<1>3. CASE Expire
  BY <1>3 DEF Expire, TypeOK
<1>4. ASSUME NEW k \in Keys, NEW h \in Hotels, NEW s \in JobStatus, JobEnds(k, h, s)
      PROVE  \A j \in Keys, g \in Hotels : job'[j][g] = "none" <=> job[j][g] = "none"
  <2>1. \A j \in Keys, g \in Hotels : job'[j][g] = IF j = k /\ g = h THEN s ELSE job[j][g]
    BY <1>4 DEF JobEnds, TypeOK
  <2> QED
    BY <1>4, <2>1 DEF JobEnds
<1>5. ASSUME NEW k \in Keys, NEW at \in Time, NEW H \in SUBSET Hotels, Makes(k, at, H) PROVE FALSE
  <2>1. start'[k] = at /\ start[k] = None /\ at # None
    BY <1>5, MakesKeeps, ZenonT(60) DEF Makes
  <2> QED
    BY <2>1
<1>6. CASE CatchUp
  <2>1. now \in Time /\ CatchUpHotels \in SUBSET Hotels /\ <<"catchup", now>> \in Keys
    BY KeyShapes DEF TypeOK, CatchUpHotels
  <2> QED
    BY <1>2, <1>5, <1>6, <2>1, CatchUpRun
<1>7. ASSUME NEW s \in Time, StartSlot(s) PROVE UNCHANGED job
  BY <1>5, <1>7, SlotRun, KeyShapes, SlotSets
<1>8. ASSUME NEW c \in Requests, RequestCreates(c) PROVE FALSE
  <2>1. request[c] \in Tenants /\ <<"manual", c>> \in Keys /\ now \in Time
    BY <1>8, KeyShapes DEF RequestCreates, TypeOK, RequestStates
  <2> QED
    BY <1>5, <1>8, <2>1, RequestRun, SlotSets
<1> QED
  BY <1>1, <1>2, <1>3, <1>4, <1>6, <1>7, <1>8, QuietOrBusy DEF Busy

\* Time and the last tick.
LEMMA Clock ==
    ASSUME TypeOK, [Next]_vars
    PROVE  /\ now <= now' /\ now \in Nat /\ now' \in Nat
           /\ lastTick' \in {None, lastTick, now}
           /\ now' # now => phase = "idle" /\ Advance
           /\ lastTick' # lastTick => TickEnd \/ Restart
<1>0. now \in Nat
  BY DEF TypeOK, Time
<1>1. CASE Busy
  BY <1>0, <1>1, BusyTime
<1>2. CASE Quiet
  BY <1>0, <1>2 DEF Quiet, TickStart, SlotsDone, LookForMissed, TickEnd, TickError, Restart, RequestReads,
                    Advance, ProxiesChange, vars, memory
<1> QED
  BY <1>1, <1>2, QuietOrBusy

LEMMA RunsInvStep == ASSUME TypeOK, RunsInv, [Next]_vars PROVE RunsInv'
<1>1. lastTick' # None => lastTick' <= now'
  <2>1. \A n \in Time : n \in Nat
    BY DEF Time
  <2> QED
    BY <2>1, Clock DEF RunsInv, TypeOK
<1>2. \A s \in Time : HotelsAt(s)' = HotelsAt(s)
  BY DEF HotelsAt, TenantsAt
<1>3. CASE start' = start
  <2>1. \A k \in Keys, h \in Hotels : job'[k][h] = "none" <=> job[k][h] = "none"
    BY <1>3, JobsStay
  <2>2. \A k \in Keys, h \in Hotels : job'[k][h] # "none" => start'[k] # None
    BY <1>3, <2>1 DEF RunsInv
  <2>3. \A s \in Time : start'[<<"slot", s>>] # None =>
            start'[<<"slot", s>>] = s /\ \A h \in HotelsAt(s) : job'[<<"slot", s>>][h] # "none"
    <3> SUFFICES ASSUME NEW s \in Time, start'[<<"slot", s>>] # None
                 PROVE  start'[<<"slot", s>>] = s /\ \A h \in HotelsAt(s) : job'[<<"slot", s>>][h] # "none"
        OBVIOUS
    <3>1. start[<<"slot", s>>] = s /\ \A h \in HotelsAt(s) : job[<<"slot", s>>][h] # "none"
      BY <1>3 DEF RunsInv
    <3>2. <<"slot", s>> \in Keys /\ HotelsAt(s) \subseteq Hotels
      BY KeyShapes, SlotSets
    <3> QED
      BY <1>3, <2>1, <3>1, <3>2
  <2>4. \A c \in Time : start'[<<"catchup", c>>] # None => start'[<<"catchup", c>>] = c /\ c <= now'
    <3>1. \A c \in Time : c \in Nat
      BY DEF Time
    <3> QED
      BY <1>3, <3>1, Clock DEF RunsInv
  <2> QED
    BY <1>1, <1>2, <2>2, <2>3, <2>4 DEF RunsInv
<1>4. ASSUME NEW s \in Time, StartSlot(s), Makes(<<"slot", s>>, s, HotelsAt(s)), Made(<<"slot", s>>, s)
      PROVE  RunsInv'
  <2> DEFINE k0 == <<"slot", s>>
  <2>0. k0 \in Keys /\ s # None /\ UNCHANGED now
    BY <1>4, KeyShapes DEF StartSlot
  <2>1. \A k \in Keys, h \in Hotels : job'[k][h] # "none" => start'[k] # None
    BY <1>4, <2>0 DEF Made, RunsInv
  <2>2. \A r \in Time : r # s => <<"slot", r>> # k0
    OBVIOUS
  <2>3. \A r \in Time : start'[<<"slot", r>>] # None =>
            start'[<<"slot", r>>] = r /\ \A h \in HotelsAt(r) : job'[<<"slot", r>>][h] # "none"
    <3> SUFFICES ASSUME NEW r \in Time, start'[<<"slot", r>>] # None
                 PROVE  start'[<<"slot", r>>] = r /\ \A h \in HotelsAt(r) : job'[<<"slot", r>>][h] # "none"
        OBVIOUS
    <3>1. CASE r = s
      BY <1>4, <3>1, SlotSets DEF Made, Makes
    <3>2. CASE r # s
      <4>1. <<"slot", r>> \in Keys /\ HotelsAt(r) \subseteq Hotels /\ <<"slot", r>> # k0
        BY <2>2, <3>2, KeyShapes, SlotSets
      <4>2. start'[<<"slot", r>>] = start[<<"slot", r>>] /\ \A h \in Hotels : job'[<<"slot", r>>][h] = job[<<"slot", r>>][h]
        BY <1>4, <4>1 DEF Made
      <4>3. start[<<"slot", r>>] = r /\ \A h \in HotelsAt(r) : job[<<"slot", r>>][h] # "none"
        BY <4>2 DEF RunsInv
      <4> QED
        BY <4>1, <4>2, <4>3
    <3> QED
      BY <3>1, <3>2
  <2>4. \A c \in Time : start'[<<"catchup", c>>] # None => start'[<<"catchup", c>>] = c /\ c <= now'
    BY <1>4, <2>0, KeyShapes DEF Made, RunsInv
  <2> QED
    BY <1>1, <1>2, <2>1, <2>3, <2>4 DEF RunsInv
<1>5. ASSUME NEW k0 \in Keys, \A s \in Time : k0 # <<"slot", s>>, Made(k0, now), now' = now,
             \A c \in Time : k0 = <<"catchup", c>> => c = now
      PROVE  RunsInv'
  <2>0. now # None /\ now \in Nat
    BY DEF TypeOK, Time
  <2>1. \A k \in Keys, h \in Hotels : job'[k][h] # "none" => start'[k] # None
    BY <1>5, <2>0 DEF Made, RunsInv
  <2>2. \A r \in Time : start'[<<"slot", r>>] # None =>
            start'[<<"slot", r>>] = r /\ \A h \in HotelsAt(r) : job'[<<"slot", r>>][h] # "none"
    <3> SUFFICES ASSUME NEW r \in Time, start'[<<"slot", r>>] # None
                 PROVE  start'[<<"slot", r>>] = r /\ \A h \in HotelsAt(r) : job'[<<"slot", r>>][h] # "none"
        OBVIOUS
    <3>1. <<"slot", r>> \in Keys /\ HotelsAt(r) \subseteq Hotels /\ <<"slot", r>> # k0
      BY <1>5, KeyShapes, SlotSets
    <3>2. start'[<<"slot", r>>] = start[<<"slot", r>>] /\ \A h \in Hotels : job'[<<"slot", r>>][h] = job[<<"slot", r>>][h]
      BY <1>5, <3>1 DEF Made
    <3>3. start[<<"slot", r>>] = r /\ \A h \in HotelsAt(r) : job[<<"slot", r>>][h] # "none"
      BY <3>2 DEF RunsInv
    <3> QED
      BY <3>1, <3>2, <3>3
  <2>3. \A c \in Time : start'[<<"catchup", c>>] # None => start'[<<"catchup", c>>] = c /\ c <= now'
    <3> SUFFICES ASSUME NEW c \in Time, start'[<<"catchup", c>>] # None
                 PROVE  start'[<<"catchup", c>>] = c /\ c <= now'
        OBVIOUS
    <3>1. CASE k0 = <<"catchup", c>>
      BY <1>5, <2>0, <3>1 DEF Made
    <3>2. CASE k0 # <<"catchup", c>>
      <4>1. start'[<<"catchup", c>>] = start[<<"catchup", c>>]
        BY <1>5, <3>2, KeyShapes DEF Made
      <4> QED
        BY <1>5, <4>1 DEF RunsInv
    <3> QED
      BY <3>1, <3>2
  <2> QED
    BY <1>1, <1>2, <2>1, <2>2, <2>3 DEF RunsInv
<1>6. CASE CatchUp /\ Made(<<"catchup", now>>, now)
  <2>1. /\ <<"catchup", now>> \in Keys /\ now' = now
        /\ \A s \in Time : <<"catchup", now>> # <<"slot", s>>
    BY <1>6, KeyShapes DEF CatchUp, TypeOK
  <2> QED
    BY <1>5, <1>6, <2>1
<1>7. ASSUME NEW c \in Requests, RequestCreates(c), Made(<<"manual", c>>, now) PROVE RunsInv'
  <2>1. /\ <<"manual", c>> \in Keys /\ now' = now
        /\ \A s \in Time : <<"manual", c>> # <<"slot", s>> /\ <<"manual", c>> # <<"catchup", s>>
    BY <1>7, KeyShapes DEF RequestCreates, TypeOK
  <2> QED
    BY <1>5, <1>7, <2>1
<1> QED
  BY <1>3, <1>4, <1>6, <1>7, RunsMade

-----------------------------------------------------------------------------
(* The tick.                                                                 *)

LEMMA Numbers ==
    /\ \A n \in Time : n \in Nat /\ n # None
    /\ Lookback \in Nat /\ Deadline \in Nat /\ DeferMax \in Nat
BY DEF Time

\* What was handled stays handled.
LEMMA HandledStays ==
    ASSUME RunsKept, now' = now, pausedUntil' = pausedUntil, givenUp \subseteq givenUp',
           NEW s \in Time, SlotHandled(s), s \in todo => s \in todo'
    PROVE  SlotHandled(s)'
<1>1. start[<<"slot", s>>] # None => start'[<<"slot", s>>] # None
  BY KeyShapes DEF RunsKept
<1>2. HotelsAt(s)' = HotelsAt(s)
  BY DEF HotelsAt, TenantsAt
<1> QED
  BY <1>1, <1>2 DEF SlotHandled, Paused

\* No run is overdue that was not, except the one of a slot.
LEMMA NoneOverdue ==
    ASSUME TypeOK, [Next]_vars, now' = now, phase # "slots",
           \A k \in Keys, h \in Hotels : job[k][h] = "pending" => ~ Overdue(k)
    PROVE  \A k \in Keys, h \in Hotels : job'[k][h] = "pending" => ~ Overdue(k)'
<1> SUFFICES ASSUME NEW k \in Keys, NEW h \in Hotels, job'[k][h] = "pending", Overdue(k)'
             PROVE  FALSE
    OBVIOUS
<1>1. start'[k] # None /\ start'[k] + Deadline < now
  BY DEF Overdue
<1>2. start[k] = None
  <2>1. start[k] # None => job[k][h] = "pending" /\ start'[k] = start[k]
    BY RunsStay DEF RunsKept
  <2> QED
    BY <1>1, <2>1 DEF Overdue
<1>3. start'[k] = now
  <2>1. start' # start
    BY <1>1, <1>2
  <2>2. \A s \in Time : ~ StartSlot(s)
    BY DEF StartSlot
  <2>3. CASE Made(<<"catchup", now>>, now)
    BY <1>1, <1>2, <2>3 DEF Made
  <2>4. ASSUME NEW c \in Requests, Made(<<"manual", c>>, now) PROVE start'[k] = now
    BY <1>1, <1>2, <2>4 DEF Made
  <2> QED
    BY <2>1, <2>2, <2>3, <2>4, RunsMade
<1> QED
  BY <1>1, <1>3, Numbers DEF TypeOK

\* The invariant of a tick while it, and what it knows, stay as they are.
LEMMA TickGoesOn ==
    ASSUME TypeOK, TickInv, [Next]_vars, now' = now, UNCHANGED <<down, pausedUntil, deferred>>,
           givenUp \subseteq givenUp', phase # "slots", todo' = todo,
           phase' = phase \/ (phase' = "end" /\ phase \in {"missed", "catch_up"})
    PROVE  TickInv'
<1>1. RunsKept
  BY RunsStay
<1>2. Due' = Due /\ Known' = Known /\ Due \subseteq Time
  BY SlotSets DEF Due, Known
<1>3. phase \in {"missed", "catch_up", "end"} =>
          \A k \in Keys, h \in Hotels : job'[k][h] = "pending" => ~ Overdue(k)'
  BY NoneOverdue DEF TickInv
<1>4. phase # "idle" /\ ~ down => \A s \in Due : SlotHandled(s)'
  BY <1>1, <1>2, HandledStays DEF TickInv
<1>5. phase \in {"missed", "catch_up", "end"} <=> phase' \in {"missed", "catch_up", "end"}
  OBVIOUS
<1>6. phase' # "idle" <=> phase # "idle"
  OBVIOUS
<1>7. /\ phase' # "slots" => todo' = {}
      /\ phase' = "catch_up" => ~ down
      /\ phase # "idle" /\ down => todo' = {} /\ \A s \in Due : s \in Known \/ s \in givenUp'
      /\ phase # "idle" /\ ~ down => deferred = {}
  BY DEF TickInv
<1> QED
  BY <1>2, <1>3, <1>4, <1>5, <1>6, <1>7 DEF TickInv

LEMMA TickStarts == ASSUME TypeOK, TickStart PROVE TickInv'
<1> DEFINE all == deferred \union {[at |-> s, since |-> now] : s \in Due \ Known}
           old == {d \in all : d.since + DeferMax < now}
<1>0. phase' = "slots" /\ now' = now /\ down' = down /\ Due' = Due
  BY DEF TickStart, Due
<1>1. CASE down
  <2>1. deferred' = all \ old /\ givenUp' = givenUp \union {d.at : d \in old} /\ todo' = {}
    BY <1>1 DEF TickStart, Known
  <2>2. ASSUME NEW s \in Due PROVE \E d \in all : d.at = s
    <3>1. CASE s \in Known
      BY <3>1 DEF Known
    <3>2. CASE s \notin Known
      <4>1. [at |-> s, since |-> now] \in all
        BY <3>2
      <4> QED
        BY <4>1
    <3> QED
      BY <3>1, <3>2
  <2> HIDE DEF all, old
  <2>3. ASSUME NEW s \in Due PROVE s \in Known' \/ s \in givenUp'
    <3>1. PICK d \in all : d.at = s
      BY <2>2
    <3>2. CASE d \in old
      BY <2>1, <3>1, <3>2
    <3>3. CASE d \notin old
      BY <2>1, <3>1, <3>3 DEF Known
    <3> QED
      BY <3>2, <3>3
  <2> QED
    BY <1>0, <1>1, <2>1, <2>3 DEF TickInv
<1>2. CASE ~ down
  <2>1. deferred' = {} /\ todo' = Due \union Known
    BY <1>2 DEF TickStart, Known
  <2> QED
    BY <1>0, <1>2, <2>1 DEF TickInv, SlotHandled
<1> QED
  BY <1>1, <1>2

LEMMA SlotStarts == ASSUME TypeOK, TickInv, NEW r \in Time, StartSlot(r) PROVE TickInv'
<1>0. /\ phase = "slots" /\ r \in todo /\ todo' = todo \ {r} /\ phase' = phase
      /\ UNCHANGED <<now, down, pausedUntil, deferred>>
  BY DEF StartSlot, memory
<1>1. RunsKept /\ givenUp \subseteq givenUp'
  <2>1. [Next]_vars
    BY DEF Next
  <2> QED
    BY <2>1, RunsStay, SlotRun
<1>2. Due' = Due /\ Due \subseteq Time /\ ~ down /\ deferred = {}
  BY <1>0, SlotSets DEF Due, TickInv
<1>3. ASSUME NEW s \in Due PROVE SlotHandled(s)'
  <2>0. SlotHandled(s) /\ s \in Time
    BY <1>0, <1>2 DEF TickInv
  <2>1. CASE s # r
    BY <1>0, <1>1, <2>0, <2>1, HandledStays
  <2>2. CASE s = r
    <3>1. Makes(<<"slot", r>>, r, HotelsAt(r)) => start'[<<"slot", r>>] # None
      BY MakesKeeps, KeyShapes, SlotSets, ZenonT(60)
    <3>2. start[<<"slot", r>>] # None => start'[<<"slot", r>>] # None
      BY <1>1, KeyShapes DEF RunsKept
    <3>3. HotelsAt(r)' = HotelsAt(r)
      BY DEF HotelsAt, TenantsAt
    <3>4. \/ start'[<<"slot", r>>] # None \/ HotelsAt(r) = {}
          \/ Paused /\ r \in givenUp'
      BY <3>1, <3>2, SlotRun
    <3> QED
      BY <1>0, <2>2, <3>3, <3>4 DEF SlotHandled, Paused
  <2> QED
    BY <2>1, <2>2
<1> QED
  BY <1>0, <1>2, <1>3 DEF TickInv

LEMMA TickInvStep == ASSUME TypeOK, TickInv, [Next]_vars PROVE TickInv'
<1>1. CASE SlotsDone
  <2>1. /\ todo' = {} /\ phase = "slots" /\ phase' = "expire" /\ UNCHANGED <<now, down, pausedUntil, deferred, givenUp, todo>>
    BY <1>1 DEF SlotsDone, memory
  <2>2. RunsKept /\ Due' = Due /\ Known' = Known /\ Due \subseteq Time
    BY <2>1, RunsStay, SlotSets DEF Due, Known
  <2>3. ~ down => \A s \in Due : SlotHandled(s)'
    BY <2>1, <2>2, HandledStays DEF TickInv
  <2> QED
    BY <2>1, <2>2, <2>3 DEF TickInv
<1>2. CASE Expire
  <2>1. /\ todo' = todo /\ phase = "expire" /\ phase' = "missed"
        /\ UNCHANGED <<now, down, pausedUntil, deferred, givenUp, start>>
    BY <1>2 DEF Expire, memory
  <2>2. RunsKept /\ Due' = Due /\ Known' = Known /\ Due \subseteq Time
    BY <2>1, RunsStay, SlotSets DEF Due, Known
  <2>3. ~ down => \A s \in Due : SlotHandled(s)'
    BY <2>1, <2>2, HandledStays DEF TickInv
  <2>4. \A k \in Keys, h \in Hotels : job'[k][h] = "pending" => ~ Overdue(k)'
    BY <1>2, <2>1 DEF Expire, Overdue
  <2> QED
    BY <2>1, <2>2, <2>3, <2>4 DEF TickInv
<1>3. CASE LookForMissed
  <2>1. /\ todo' = todo /\ phase = "missed" /\ UNCHANGED <<now, down, pausedUntil, deferred, givenUp, start, job>>
        /\ phase' = "end" \/ (phase' = "catch_up" /\ ~ down)
    BY <1>3 DEF LookForMissed, database
  <2>2. RunsKept /\ Due' = Due /\ Known' = Known /\ Due \subseteq Time
    BY <2>1, RunsStay, SlotSets DEF Due, Known
  <2>3. ~ down => \A s \in Due : SlotHandled(s)'
    BY <2>1, <2>2, HandledStays DEF TickInv
  <2>4. \A k \in Keys, h \in Hotels : job'[k][h] = "pending" => ~ Overdue(k)'
    BY <2>1 DEF TickInv, Overdue
  <2> QED
    BY <2>1, <2>2, <2>3, <2>4 DEF TickInv
<1>4. CASE CatchUp
  <2>1. /\ phase = "catch_up" /\ phase' = "end" /\ todo' = todo /\ UNCHANGED <<now, down, pausedUntil, deferred>>
        /\ givenUp \subseteq givenUp'
    BY <1>4, CatchUpRun DEF CatchUp, memory
  <2> QED
    BY <2>1, TickGoesOn
<1>5. CASE TickEnd \/ TickError \/ Restart
  <2>1. phase' = "idle" /\ todo' = {}
    BY <1>5 DEF TickEnd, TickError, Restart, TickInv
  <2> QED
    BY <2>1 DEF TickInv
<1>6. CASE Advance \/ ProxiesChange
  <2>1. phase = "idle" /\ phase' = "idle" /\ todo' = todo
    BY <1>6 DEF Advance, ProxiesChange, tick
  <2> QED
    BY <2>1 DEF TickInv
<1>7. CASE \/ \E c \in Requests : RequestCreates(c) \/ \E t \in Tenants : RequestReads(c, t)
           \/ \E k \in Keys, h \in Hotels, s \in JobStatus : JobEnds(k, h, s)
           \/ UNCHANGED vars
  <2>1. UNCHANGED <<now, down, pausedUntil, deferred, givenUp, todo, phase>>
    BY <1>7 DEF RequestCreates, RequestReads, JobEnds, vars, memory, tick
  <2>2. CASE phase # "slots"
    BY <2>1, <2>2, TickGoesOn
  <2>3. CASE phase = "slots"
    <3>1. RunsKept /\ Due' = Due /\ Known' = Known /\ Due \subseteq Time
      BY <2>1, RunsStay, SlotSets DEF Due, Known
    <3>2. ~ down => \A s \in Due : SlotHandled(s)'
      BY <2>1, <2>3, <3>1, HandledStays DEF TickInv
    <3> QED
      BY <2>1, <2>3, <3>1, <3>2 DEF TickInv
  <2> QED
    BY <2>2, <2>3
<1> QED
  BY <1>1, <1>2, <1>3, <1>4, <1>5, <1>6, <1>7, TickStarts, SlotStarts, Steps

-----------------------------------------------------------------------------
(* A catch-up and the runs before it.                                        *)

\* What a tick is to start, and what is remembered, was so before or is due.
LEMMA TodoFrom == ASSUME TypeOK, [Next]_vars PROVE todo' \union Known' \subseteq todo \union Known \union Due
<1>1. CASE TickStart
  <2> DEFINE all == deferred \union {[at |-> s, since |-> now] : s \in Due \ Known}
             old == {d \in all : d.since + DeferMax < now}
  <2>1. {d.at : d \in all} \subseteq Known \union Due
    BY DEF Known
  <2> HIDE DEF all
  <2>2. CASE down
    <3>1. deferred' = all \ old /\ todo' = {}
      BY <1>1, <2>2 DEF TickStart, Known, all
    <3> QED
      BY <2>1, <3>1 DEF Known
  <2>3. CASE ~ down
    <3>1. deferred' = {} /\ todo' = Due \union Known
      BY <1>1, <2>3 DEF TickStart, Known
    <3> QED
      BY <3>1 DEF Known
  <2> QED
    BY <2>2, <2>3
<1>2. ASSUME NEW s \in Time, StartSlot(s) PROVE todo' \subseteq todo /\ deferred' = deferred
  BY <1>2 DEF StartSlot, memory
<1>3. CASE TickError \/ Restart
  <2>1. todo' = {} /\ deferred' \subseteq deferred
    BY <1>3 DEF TickError, Restart, memory
  <2> QED
    BY <2>1 DEF Known
<1>4. CASE \/ SlotsDone \/ Expire \/ LookForMissed \/ CatchUp \/ TickEnd \/ Advance \/ ProxiesChange
           \/ \E c \in Requests : RequestCreates(c) \/ \E t \in Tenants : RequestReads(c, t)
           \/ \E k \in Keys, h \in Hotels, s \in JobStatus : JobEnds(k, h, s)
           \/ UNCHANGED vars
  <2>1. todo' = todo /\ deferred' = deferred
    BY <1>4 DEF SlotsDone, Expire, LookForMissed, CatchUp, TickEnd, Advance, ProxiesChange, RequestCreates,
                RequestReads, JobEnds, vars, memory, tick
  <2> QED
    BY <2>1 DEF Known
<1> QED
  BY <1>1, <1>2, <1>3, <1>4, Steps DEF Known

LEMMA LateSlotStep ==
    ASSUME TypeOK, [Next]_vars, NEW c \in Time, c <= now, NoLateSlot(c) PROVE NoLateSlot(c)'
<1> SUFFICES ASSUME NEW s \in Time, s < c, start'[<<"slot", s>>] = None, HotelsAt(s)' # {}
             PROVE  s + Lookback <= c /\ s \notin todo' /\ s \notin Known'
    BY DEF NoLateSlot
<1>1. start[<<"slot", s>>] = None
  BY RunsStay, KeyShapes DEF RunsKept
<1>2. HotelsAt(s)' = HotelsAt(s)
  BY DEF HotelsAt, TenantsAt
<1>3. s + Lookback <= c /\ s \notin todo /\ s \notin Known
  BY <1>1, <1>2 DEF NoLateSlot
<1>4. s \notin Due
  <2>1. s + Lookback <= now
    BY <1>3, Numbers DEF TypeOK
  <2> QED
    BY <2>1, Numbers DEF Due, TypeOK
<1> QED
  BY <1>3, <1>4, TodoFrom

LEMMA NotRepeatedStep ==
    ASSUME TypeOK, RunsInv, [Next]_vars, NEW c \in Time, c <= now, NEW h \in Hotels,
           NotRepeated(c, h), NoLateSlot(c)
    PROVE  NotRepeated(c, h)'
<1>1. PICK t \in Tenants : \E s \in Slots[t] :
          /\ h \in Watch[t] /\ s + Lookback <= c
          /\ \A k \in Keys : start[k] # None /\ s <= start[k] /\ start[k] < c => job[k][h] \in {"none", "failed"}
  BY DEF NotRepeated
<1>2. PICK s \in Slots[t] :
          /\ h \in Watch[t] /\ s + Lookback <= c
          /\ \A k \in Keys : start[k] # None /\ s <= start[k] /\ start[k] < c => job[k][h] \in {"none", "failed"}
  BY <1>1
<1>3. ASSUME NEW k \in Keys, start'[k] # None, s <= start'[k], start'[k] < c
      PROVE  job'[k][h] \in {"none", "failed"}
  <2>1. CASE start[k] # None
    <3>1. start'[k] = start[k] /\ (job'[k][h] = "none" <=> job[k][h] = "none")
          /\ (job[k][h] = "failed" => job'[k][h] = "failed")
      BY <2>1, RunsStay DEF RunsKept
    <3>2. job[k][h] \in {"none", "failed"}
      BY <1>2, <1>3, <2>1, <3>1
    <3> QED
      BY <3>1, <3>2
  <2>2. CASE start[k] = None
    <3>1. start' # start /\ job[k][h] = "none"
      BY <1>3, <2>2 DEF RunsInv
    <3>2. ASSUME NEW r \in Time, StartSlot(r), Makes(<<"slot", r>>, r, HotelsAt(r)), Made(<<"slot", r>>, r)
          PROVE  job'[k][h] = "none"
      <4>1. k = <<"slot", r>> /\ start'[k] = r /\ start[<<"slot", r>>] = None
        BY <1>3, <2>2, <3>2 DEF Made
      <4>2. r < c /\ r \in todo
        BY <1>3, <3>2, <4>1 DEF StartSlot
      <4>3. HotelsAt(r) = {}
        BY <4>1, <4>2 DEF NoLateSlot
      <4> QED
        BY <3>1, <3>2, <4>1, <4>3 DEF Makes
    <3>3. ASSUME NEW k0 \in Keys, Made(k0, now) PROVE FALSE
      <4>1. start'[k] = now
        BY <1>3, <2>2, <3>3 DEF Made
      <4> QED
        BY <1>3, <4>1, Numbers DEF TypeOK
    <3>4. ~ Made(<<"catchup", now>>, now) /\ \A q \in Requests : ~ Made(<<"manual", q>>, now)
      BY <3>3, KeyShapes DEF TypeOK
    <3> QED
      BY <3>1, <3>2, <3>4, RunsMade
  <2> QED
    BY <2>1, <2>2
<1> QED
  BY <1>2, <1>3 DEF NotRepeated

\* The catch-up run of this tick.
LEMMA CatchUpIsNew ==
    ASSUME TypeOK, RunsInv, TickInv, CatchUp, Makes(<<"catchup", now>>, now, CatchUpHotels), ~ Paused,
           NEW h \in CatchUpHotels, NEW c \in Time, c = now
    PROVE  NotRepeated(c, h)' /\ NoLateSlot(c)'
<1> DEFINE k0 == <<"catchup", now>>
<1>0. /\ now \in Time /\ k0 \in Keys /\ CatchUpHotels \in SUBSET Hotels
      /\ phase = "catch_up" /\ todo' = todo /\ deferred' = deferred /\ now' = now
  BY KeyShapes DEF TypeOK, CatchUpHotels, CatchUp, memory
<1>1. Made(k0, now) /\ RunsKept
  BY <1>0, MakesMade
<1>2. todo = {} /\ deferred = {} /\ \A s \in Due : SlotHandled(s)
  BY <1>0 DEF TickInv
<1>3. NotRepeated(c, h)'
  <2>1. PICK t \in Tenants, s \in Time : h \in Watch[t] /\ Missed(t, s) /\ ~ ScannedSince(h, s)
    BY DEF CatchUpHotels
  <2>2. s \in Slots[t] /\ s + Lookback <= now
    BY <2>1 DEF Missed
  <2>3. ASSUME NEW k \in Keys, start'[k] # None, s <= start'[k], start'[k] < now
        PROVE  job'[k][h] \in {"none", "failed"}
    <3>1. k # k0
      BY <1>0, <1>1, <2>3, Numbers DEF Made
    <3>2. start'[k] = start[k] /\ job'[k][h] = job[k][h] /\ start'[k] \in Time
      BY <1>0, <1>1, <2>3, <3>1 DEF Made, TypeOK
    <3>3. start[k] >= s
      BY <2>3, <3>2, Numbers
    <3> QED
      BY <2>1, <2>3, <3>2, <3>3 DEF ScannedSince
  <2> QED
    BY <1>0, <2>1, <2>2, <2>3 DEF NotRepeated
<1>4. NoLateSlot(c)'
  <2> SUFFICES ASSUME NEW s \in Time, s < c, start'[<<"slot", s>>] = None, HotelsAt(s)' # {}
               PROVE  s + Lookback <= c /\ s \notin todo' /\ s \notin Known'
      BY DEF NoLateSlot
  <2>1. start[<<"slot", s>>] = None /\ HotelsAt(s) # {}
    BY <1>1, KeyShapes DEF RunsKept, HotelsAt, TenantsAt
  <2>2. s \notin Due
    BY <1>2, <2>1 DEF SlotHandled
  <2>3. PICK t \in Tenants : s \in Slots[t]
    BY <2>1 DEF HotelsAt, TenantsAt
  <2>4. ~ (now < s + Lookback)
    BY <1>0, <2>2, <2>3, SlotSets, Numbers
  <2> QED
    BY <1>0, <1>2, <2>4, Numbers DEF Known
<1> QED
  BY <1>3, <1>4

LEMMA CatchUpInvStep == ASSUME TypeOK, RunsInv, TickInv, CatchUpInv, [Next]_vars PROVE CatchUpInv'
<1> SUFFICES ASSUME NEW c \in Time, NEW h \in Hotels, job'[<<"catchup", c>>][h] # "none"
             PROVE  NotRepeated(c, h)' /\ NoLateSlot(c)'
    BY DEF CatchUpInv
<1> DEFINE k0 == <<"catchup", c>>
<1>0. k0 \in Keys
  BY KeyShapes
<1>1. CASE job[k0][h] # "none"
  <2>1. start[k0] # None
    BY <1>0, <1>1 DEF RunsInv
  <2>2. c <= now
    BY <2>1 DEF RunsInv
  <2>3. NotRepeated(c, h) /\ NoLateSlot(c)
    BY <1>1 DEF CatchUpInv
  <2> QED
    BY <2>2, <2>3, LateSlotStep, NotRepeatedStep
<1>2. CASE job[k0][h] = "none"
  <2>1. start' # start
    BY <1>0, <1>2, JobsStay
  <2>2. \A k \in Keys : \A at : Made(k, at) => k = k0
    BY <1>0, <1>2 DEF Made
  <2>3. ASSUME NEW s \in Time, Made(<<"slot", s>>, s) PROVE FALSE
    BY <2>2, <2>3, KeyShapes
  <2>4. ASSUME NEW q \in Requests, Made(<<"manual", q>>, now) PROVE FALSE
    BY <2>2, <2>4, KeyShapes
  <2>5. CatchUp /\ Makes(<<"catchup", now>>, now, CatchUpHotels) /\ Made(<<"catchup", now>>, now)
    BY <2>1, <2>3, <2>4, RunsMade
  <2>6. c = now
    BY <2>2, <2>5, KeyShapes DEF TypeOK
  <2>7. h \in CatchUpHotels /\ ~ Paused
    <3>1. h \in CatchUpHotels
      BY <1>2, <2>5, <2>6 DEF Makes
    <3>2. start'[<<"catchup", now>>] # start[<<"catchup", now>>]
      BY <2>5, Numbers DEF Made, TypeOK
    <3> QED
      BY <2>5, <3>1, <3>2, CatchUpRun
  <2> QED
    BY <2>5, <2>6, <2>7, CatchUpIsNew
<1> QED
  BY <1>1, <1>2

-----------------------------------------------------------------------------
(* The slots that were missed.                                               *)

LEMMA ServedStays == ASSUME RunsKept, NEW t \in Tenants, NEW s \in Time, Served(t, s) PROVE Served(t, s)'
<1> SUFFICES ASSUME NEW h \in Watch[t] PROVE HasRunSince(h, s)'
    BY DEF Served
<1>1. h \in Hotels /\ HasRunSince(h, s)
  BY SlotSets DEF Served
<1>2. PICK k \in Keys : start[k] # None /\ start[k] >= s /\ job[k][h] # "none"
  BY <1>1 DEF HasRunSince
<1>3. start'[k] = start[k] /\ job'[k][h] # "none"
  BY <1>1, <1>2 DEF RunsKept
<1> QED
  BY <1>2, <1>3 DEF HasRunSince

\* A slot's own run serves its tenants.
LEMMA SlotServes ==
    ASSUME RunsInv, NEW t \in Tenants, NEW s \in Slots[t], start[<<"slot", s>>] # None \/ HotelsAt(s) = {}
    PROVE  Served(t, s)
<1> SUFFICES ASSUME NEW h \in Watch[t] PROVE HasRunSince(h, s)
    BY DEF Served
<1>1. s \in Time /\ h \in HotelsAt(s) /\ <<"slot", s>> \in Keys
  BY SlotSets, KeyShapes
<1>2. start[<<"slot", s>>] = s /\ job[<<"slot", s>>][h] # "none" /\ s # None /\ s >= s
  BY <1>1, Numbers DEF RunsInv
<1> QED
  BY <1>1, <1>2 DEF HasRunSince

\* The run of a catch-up serves the slots it was made for.
LEMMA CatchUpRunServes ==
    ASSUME TypeOK, CatchUp, NEW t \in Tenants, NEW s \in Time, LatestAt(t, s, now), s + Lookback <= now,
           Makes(<<"catchup", now>>, now, CatchUpHotels) \/ CatchUpHotels = {}
    PROVE  Served(t, s)'
<1>0. RunsKept /\ now \in Time /\ CatchUpHotels \in SUBSET Hotels /\ <<"catchup", now>> \in Keys
  BY RunsStay, KeyShapes DEF Next, TypeOK, CatchUpHotels
<1>1. Missed(t, s) /\ now # None /\ now >= s
  BY <1>0, Numbers DEF LatestAt, Missed
<1>2. ASSUME NEW h \in Watch[t], h \notin CatchUpHotels PROVE HasRunSince(h, s)'
  <2>1. ScannedSince(h, s) /\ h \in Hotels
    BY <1>1, <1>2, SlotSets DEF CatchUpHotels
  <2> QED
    BY <1>0, <2>1 DEF ScannedSince, HasRunSince, RunsKept
<1>3. ASSUME NEW h \in Watch[t], h \in CatchUpHotels PROVE HasRunSince(h, s)'
  <2>1. Makes(<<"catchup", now>>, now, CatchUpHotels)
    BY <1>3
  <2>2. Made(<<"catchup", now>>, now)
    BY <1>0, <2>1, MakesMade
  <2> QED
    BY <1>0, <1>1, <1>3, <2>1, <2>2 DEF HasRunSince, Made, Makes
<1> QED
  BY <1>2, <1>3 DEF Served

\* A catch-up leaves no missed slot unserved, unless the channel is paused.
LEMMA CatchUpServes ==
    ASSUME TypeOK, ServeInv, CatchUp, NEW t \in Tenants, NEW s \in Time, LatestAt(t, s, now), s + Lookback <= now
    PROVE  s \in givenUp' \/ Served(t, s)'
<1>0. RunsKept /\ now \in Time
  BY RunsStay DEF Next, TypeOK
<1>1. CASE Makes(<<"catchup", now>>, now, CatchUpHotels) \/ CatchUpHotels = {}
  BY <1>1, CatchUpRunServes
<1>2. CASE givenUp' = givenUp \union MissedSlots
  BY <1>2 DEF MissedSlots, Missed, LatestAt
<1>3. CASE start[<<"catchup", now>>] # None
  <2>1. Served(t, s)
    BY <1>0, <1>3 DEF ServeInv
  <2> QED
    BY <1>0, <2>1, ServedStays
<1> QED
  BY <1>1, <1>2, <1>3, CatchUpRun

LEMMA ServeInvStep == ASSUME TypeOK, ServeInv, [Next]_vars PROVE ServeInv'
<1> SUFFICES ASSUME NEW c \in Time, start'[<<"catchup", c>>] # None, NEW t \in Tenants, NEW s \in Time,
                    LatestAt(t, s, c), s + Lookback <= c
             PROVE  Served(t, s)'
    BY DEF ServeInv, LatestAt
<1>0. RunsKept /\ <<"catchup", c>> \in Keys
  BY RunsStay, KeyShapes
<1>1. CASE start[<<"catchup", c>>] # None
  BY <1>0, <1>1, ServedStays DEF ServeInv
<1>2. CASE start[<<"catchup", c>>] = None
  <2>1. \A k \in Keys : \A at : Made(k, at) => k = <<"catchup", c>>
    BY <1>0, <1>2 DEF Made
  <2>2. start' # start
    BY <1>2
  <2>3. CatchUp /\ Makes(<<"catchup", now>>, now, CatchUpHotels) /\ Made(<<"catchup", now>>, now)
    BY <2>1, <2>2, KeyShapes, RunsMade
  <2>4. c = now
    BY <2>1, <2>3, KeyShapes DEF TypeOK
  <2> QED
    BY <2>3, <2>4, CatchUpRunServes
<1> QED
  BY <1>1, <1>2

-----------------------------------------------------------------------------
(* What the scheduler remembers of the slots.                                *)

LEMMA GivenUpGrows == ASSUME TypeOK, [Next]_vars PROVE givenUp \subseteq givenUp'
<1>1. CASE TickStart
  BY <1>1 DEF TickStart
<1>2. CASE TickError
  BY <1>2 DEF TickError
<1>3. CASE CatchUp
  BY <1>3, CatchUpRun
<1>4. ASSUME NEW s \in Time, StartSlot(s) PROVE givenUp \subseteq givenUp'
  BY <1>4, SlotRun
<1>5. CASE \/ SlotsDone \/ Expire \/ LookForMissed \/ TickEnd \/ Restart \/ Advance \/ ProxiesChange
           \/ \E c \in Requests : RequestCreates(c) \/ \E t \in Tenants : RequestReads(c, t)
           \/ \E k \in Keys, h \in Hotels, s \in JobStatus : JobEnds(k, h, s)
           \/ UNCHANGED vars
  BY <1>5 DEF SlotsDone, Expire, LookForMissed, TickEnd, Restart, Advance, ProxiesChange, RequestCreates,
              RequestReads, JobEnds, vars
<1> QED
  BY <1>1, <1>2, <1>3, <1>4, <1>5, Steps

\* A slot put off is remembered when a tick starts, or given up.
LEMMA KnownAtStart ==
    ASSUME TickStart, NEW s \in Known PROVE s \in Known' \/ s \in givenUp' \/ s \in todo'
<1> DEFINE all == deferred \union {[at |-> r, since |-> now] : r \in Due \ Known}
           old == {d \in all : d.since + DeferMax < now}
<1>1. PICK d \in all : d.at = s
  BY DEF Known
<1> HIDE DEF all
<1>2. CASE down
  <2>1. deferred' = all \ old /\ givenUp' = givenUp \union {e.at : e \in old}
    BY <1>2 DEF TickStart, Known, all
  <2> QED
    BY <1>1, <2>1 DEF Known
<1>3. CASE ~ down
  BY <1>3 DEF TickStart, Known
<1> QED
  BY <1>2, <1>3

\* A slot in the window of a tick has its run, or is given up.
LEMMA DueServed ==
    ASSUME RunsInv, NEW t \in Tenants, NEW s \in Slots[t], SlotHandled(s), s \notin todo
    PROVE  Served(t, s) \/ s \in givenUp
BY SlotServes DEF SlotHandled

\* The end of a tick that caught up.
LEMMA CatchUpEnds ==
    ASSUME TypeOK, RunsInv, TickInv, ServeInv, CatchUp, NEW t \in Tenants, NEW s \in Time, LatestAt(t, s, now)
    PROVE  s \in givenUp' \/ Served(t, s)'
<1>0. phase = "catch_up" /\ s \in Slots[t] /\ s <= now /\ now \in Time
  BY DEF CatchUp, LatestAt, TypeOK
<1>1. RunsKept /\ givenUp \subseteq givenUp'
  BY RunsStay, GivenUpGrows DEF Next
<1>2. CASE now < s + Lookback
  <2>1. s \in Due
    BY <1>0, <1>2, SlotSets
  <2>2. SlotHandled(s) /\ s \notin todo
    BY <1>0, <2>1 DEF TickInv
  <2>3. Served(t, s) \/ s \in givenUp
    BY <1>0, <2>2, DueServed
  <2> QED
    BY <1>1, <2>3, ServedStays
<1>3. CASE ~ (now < s + Lookback)
  <2>1. s + Lookback <= now
    BY <1>0, <1>3, Numbers
  <2> QED
    BY <2>1, CatchUpServes
<1> QED
  BY <1>2, <1>3

\* A tick that ends without catching up.
LEMMA NothingToCatchUp ==
    ASSUME TypeOK, RunsInv, TickInv, AccountInv, LookForMissed, phase' = "end",
           NEW t \in Tenants, NEW s \in Time, LatestAt(t, s, now)
    PROVE  \/ Served(t, s) \/ s \in givenUp
           \/ down /\ (s \in Known \/ catchUpPending')
<1>0. /\ phase = "missed" /\ s \in Slots[t] /\ s <= now /\ now \in Time /\ todo = {}
      /\ catchUpPending' = ((MissedWindow \/ catchUpPending) /\ down)
      /\ ~ ((MissedWindow \/ catchUpPending) /\ ~ down)
  BY DEF LookForMissed, LatestAt, TypeOK, TickInv
<1>1. CASE MissedWindow \/ catchUpPending
  BY <1>0, <1>1
<1>2. CASE ~ MissedWindow /\ ~ catchUpPending /\ now < s + Lookback
  <2>1. s \in Due
    BY <1>0, <1>2, SlotSets
  <2>2. CASE down
    BY <1>0, <2>1, <2>2 DEF TickInv
  <2>3. CASE ~ down
    <3>1. SlotHandled(s) /\ s \notin todo
      BY <1>0, <2>1, <2>3 DEF TickInv
    <3> QED
      BY <1>0, <3>1, DueServed
  <2> QED
    BY <2>2, <2>3
<1>3. CASE ~ MissedWindow /\ ~ catchUpPending /\ ~ (now < s + Lookback)
  <2>1. lastTick \in Time /\ ~ (lastTick + Lookback < now)
    BY <1>3 DEF MissedWindow, TypeOK
  <2>2. s <= lastTick
    BY <1>0, <1>3, <2>1, Numbers
  <2>3. Held(t, s)
    BY <1>3, <2>2 DEF AccountInv
  <2>4. s \in Known => down
    BY <1>0 DEF Known, TickInv, TypeOK
  <2> QED
    BY <1>0, <1>3, <2>3, <2>4 DEF Held
<1> QED
  BY <1>1, <1>2, <1>3

LEMMA EndInvStep ==
    ASSUME TypeOK, RunsInv, TickInv, ServeInv, AccountInv, EndInv, [Next]_vars PROVE EndInv'
<1> SUFFICES ASSUME phase' = "end", NEW t \in Tenants, NEW s \in Time, LatestAt(t, s, now')
             PROVE  \/ Served(t, s)' \/ s \in givenUp'
                    \/ down' /\ (s \in Known' \/ catchUpPending')
    BY DEF EndInv, LatestAt
<1>0. RunsKept /\ givenUp \subseteq givenUp'
  BY RunsStay, GivenUpGrows
<1>1. CASE CatchUp
  <2>1. now' = now
    BY <1>1 DEF CatchUp
  <2> QED
    BY <1>1, <2>1, CatchUpEnds
<1>2. CASE LookForMissed
  <2>1. now' = now /\ down' = down /\ Known' = Known
    BY <1>2 DEF LookForMissed, Known
  <2>2. \/ Served(t, s) \/ s \in givenUp
        \/ down /\ (s \in Known \/ catchUpPending')
    BY <1>2, <2>1, NothingToCatchUp
  <2> QED
    BY <1>0, <2>1, <2>2, ServedStays
<1>3. CASE \/ \E c \in Requests : RequestCreates(c) \/ \E u \in Tenants : RequestReads(c, u)
           \/ \E k \in Keys, h \in Hotels, j \in JobStatus : JobEnds(k, h, j)
           \/ UNCHANGED vars
  <2>1. now' = now /\ down' = down /\ Known' = Known /\ phase' = phase /\ catchUpPending' = catchUpPending
    BY <1>3 DEF RequestCreates, RequestReads, JobEnds, vars, memory, tick, Known
  <2>2. Served(t, s) \/ s \in givenUp \/ (down /\ (s \in Known \/ catchUpPending))
    BY <2>1 DEF EndInv
  <2> QED
    BY <1>0, <2>1, <2>2, ServedStays
<1>4. ~ (\/ TickStart \/ SlotsDone \/ Expire \/ TickEnd \/ TickError \/ Restart \/ Advance \/ ProxiesChange
         \/ \E r \in Time : StartSlot(r))
  BY DEF TickStart, SlotsDone, Expire, TickEnd, TickError, Restart, Advance, ProxiesChange, StartSlot, tick
<1> QED
  BY <1>1, <1>2, <1>3, <1>4, Steps

\* What becomes of a slot put off, of one to be started, of a pending catch-up
\* and of one that is made.
LEMMA KnownStays ==
    ASSUME TypeOK, [Next]_vars, ~ Restart, NEW s \in Known PROVE s \in Known' \/ s \in givenUp' \/ s \in todo'
<1>1. CASE TickStart
  BY <1>1, KnownAtStart
<1>2. CASE ~ TickStart
  <2>1. deferred' = deferred
    BY <1>2, Steps DEF SlotsDone, Expire, LookForMissed, CatchUp, TickEnd, StartSlot, TickError, RequestCreates,
                       RequestReads, Advance, ProxiesChange, JobEnds, vars, memory
  <2> QED
    BY <2>1 DEF Known
<1> QED
  BY <1>1, <1>2

LEMMA TodoStays ==
    ASSUME TypeOK, RunsInv, RunsInv', TickInv, [Next]_vars, ~ Restart, lastTick # None,
           NEW t \in Tenants, NEW s \in Slots[t], s \in todo, s <= lastTick
    PROVE  s \in todo' \/ s \in givenUp' \/ Served(t, s)'
<1>0. s \in Time /\ phase = "slots" /\ RunsKept
  BY SlotSets, RunsStay DEF TickInv
<1>1. ASSUME start'[<<"slot", s>>] # None \/ HotelsAt(s) = {} PROVE Served(t, s)'
  <2>1. HotelsAt(s)' = HotelsAt(s)
    BY DEF HotelsAt, TenantsAt
  <2>2. start'[<<"slot", s>>] # None \/ HotelsAt(s)' = {}
    BY <1>1, <2>1
  <2>3. \A h \in Watch[t] : start'[<<"slot", s>>] # None /\ start'[<<"slot", s>>] = s /\ job'[<<"slot", s>>][h] # "none"
    <3> SUFFICES ASSUME NEW h \in Watch[t]
                 PROVE  start'[<<"slot", s>>] # None /\ start'[<<"slot", s>>] = s /\ job'[<<"slot", s>>][h] # "none"
        OBVIOUS
    <3>1. h \in HotelsAt(s)
      BY SlotSets
    <3>2. start'[<<"slot", s>>] # None /\ h \in HotelsAt(s)'
      BY <2>1, <2>2, <3>1
    <3> QED
      BY <1>0, <3>2 DEF RunsInv
  <2>4. <<"slot", s>> \in Keys
    BY <1>0, KeyShapes
  <2>5. s \in Nat
    BY <1>0, Numbers
  <2>6. s >= s
    BY <2>5
  <2> QED
    BY <2>3, <2>4, <2>6 DEF Served, HasRunSince
<1>2. ASSUME NEW r \in Time, StartSlot(r) PROVE s \in todo' \/ s \in givenUp' \/ Served(t, s)'
  <2>1. todo' = todo \ {r}
    BY <1>2 DEF StartSlot
  <2>2. CASE r # s
    BY <2>1, <2>2
  <2>3. CASE r = s
    <3>0. <<"slot", s>> \in Keys /\ HotelsAt(s) \in SUBSET Hotels
      BY <1>0, KeyShapes, SlotSets
    <3>1. Makes(<<"slot", s>>, s, HotelsAt(s)) => start'[<<"slot", s>>] # None
      BY <1>0, <3>0, MakesKeeps
    <3>2. start[<<"slot", s>>] # None => start'[<<"slot", s>>] # None
      BY <1>0, KeyShapes DEF RunsKept
    <3>3. s \in givenUp' \/ start'[<<"slot", s>>] # None \/ HotelsAt(s) = {}
      BY <1>2, <2>3, <3>1, <3>2, SlotRun
    <3> QED
      BY <1>1, <3>3
  <2> QED
    BY <2>2, <2>3
<1>3. CASE TickError
  <2>1. start[<<"slot", s>>] = None => s \in givenUp'
    BY <1>3 DEF TickError
  <2>2. start' = start
    BY <1>3 DEF TickError, database
  <2> QED
    BY <1>1, <2>1, <2>2
<1>4. CASE ~ TickError /\ \A r \in Time : ~ StartSlot(r)
  <2>1. todo' = todo
    BY <1>0, <1>4, Steps DEF TickStart, SlotsDone, Expire, LookForMissed, CatchUp, TickEnd, RequestCreates,
                       RequestReads, Advance, ProxiesChange, JobEnds, vars, tick
  <2> QED
    BY <2>1
<1> QED
  BY <1>2, <1>3, <1>4

LEMMA PendingStays ==
    ASSUME [Next]_vars, ~ Restart, catchUpPending PROVE catchUpPending' \/ phase' = "catch_up"
<1>1. CASE LookForMissed
  BY <1>1 DEF LookForMissed
<1>2. CASE ~ LookForMissed
  BY <1>2, Steps DEF TickStart, SlotsDone, Expire, CatchUp, TickEnd, StartSlot, TickError, RequestCreates,
                     RequestReads, Advance, ProxiesChange, JobEnds, vars, memory
<1> QED
  BY <1>1, <1>2

LEMMA CatchUpStays ==
    ASSUME TypeOK, RunsInv, TickInv, ServeInv, [Next]_vars, ~ Restart, ~ MissedWindow, phase = "catch_up",
           NEW t \in Tenants, NEW s \in Time, LatestAt(t, s, now)
    PROVE  phase' = "catch_up" \/ s \in givenUp' \/ Served(t, s)'
<1>1. CASE CatchUp
  BY <1>1, CatchUpEnds
<1>2. CASE TickError
  <2>0. s \in Slots[t] /\ s <= now /\ now \in Time /\ RunsKept /\ givenUp \subseteq givenUp'
    BY RunsStay, GivenUpGrows DEF LatestAt, TypeOK
  <2>1. CASE now < s + Lookback
    <3>1. s \in Due
      BY <2>0, <2>1, SlotSets
    <3>2. SlotHandled(s) /\ s \notin todo
      BY <3>1 DEF TickInv
    <3>3. Served(t, s) \/ s \in givenUp
      BY <2>0, <3>2, DueServed
    <3> QED
      BY <2>0, <3>3, ServedStays
  <2>2. CASE ~ (now < s + Lookback)
    <3>1. Missed(t, s)
      BY <2>0, <2>2, Numbers DEF Missed, LatestAt
    <3>2. s \in MissedSlots
      BY <3>1 DEF MissedSlots
    <3>3. MissedSlots \subseteq givenUp'
      BY <1>2 DEF TickError
    <3> QED
      BY <3>2, <3>3
  <2> QED
    BY <2>1, <2>2
<1>3. CASE ~ CatchUp /\ ~ TickError
  BY <1>3, Steps DEF TickStart, SlotsDone, Expire, LookForMissed, TickEnd, StartSlot, RequestCreates,
                     RequestReads, Advance, ProxiesChange, JobEnds, vars, tick
<1> QED
  BY <1>1, <1>2, <1>3

LEMMA AccountInvStep ==
    ASSUME TypeOK, RunsInv, RunsInv', TickInv, ServeInv, AccountInv, EndInv, [Next]_vars PROVE AccountInv'
<1> SUFFICES ASSUME ~ MissedWindow', NEW t \in Tenants, NEW s \in Time, LatestAt(t, s, now'), s <= lastTick'
             PROVE  Held(t, s)'
    BY DEF AccountInv, LatestAt
<1>0. RunsKept /\ givenUp \subseteq givenUp'
  BY RunsStay, GivenUpGrows
<1>1. lastTick' # None /\ ~ (lastTick' + Lookback < now')
  BY DEF MissedWindow
<1>2. CASE TickEnd
  <2>1. phase = "end" /\ now' = now /\ Known' = Known /\ catchUpPending' = catchUpPending
    BY <1>2 DEF TickEnd, Known
  <2>2. Served(t, s) \/ s \in givenUp \/ s \in Known \/ catchUpPending
    BY <2>1 DEF EndInv
  <2> QED
    BY <1>0, <2>1, <2>2, ServedStays DEF Held
<1>3. CASE ~ TickEnd
  <2>1. ~ Restart
    BY <1>1 DEF Restart
  <2>2. lastTick' = lastTick
    BY <1>3, <2>1, Clock
  <2>3. /\ lastTick # None /\ lastTick \in Time /\ lastTick <= now /\ now \in Nat /\ now' \in Nat /\ now <= now'
    BY <1>1, <2>2, Clock DEF RunsInv, TypeOK
  <2>4. ~ MissedWindow
    BY <1>1, <2>2, <2>3, Numbers DEF MissedWindow
  <2>5. LatestAt(t, s, now)
    <3>1. \A q \in Slots[t] : q \in Nat
      BY SlotSets, Numbers
    <3>2. s \in Slots[t] /\ s <= now /\ \A q \in Slots[t] : q <= now' => q <= s
      BY <2>2, <2>3, Numbers DEF LatestAt
    <3> QED
      BY <2>3, <3>1, <3>2 DEF LatestAt
  <2>6. s \in Slots[t] /\ s <= lastTick
    BY <2>2 DEF LatestAt
  <2>7. Held(t, s)
    BY <2>4, <2>5, <2>6 DEF AccountInv
  <2>8. CASE Served(t, s) \/ s \in givenUp
    BY <1>0, <2>8, ServedStays DEF Held
  <2>9. CASE s \in Known
    BY <2>1, <2>9, KnownStays DEF Held
  <2>10. CASE s \in todo
    BY <2>1, <2>3, <2>6, <2>10, TodoStays DEF Held
  <2>11. CASE catchUpPending
    BY <2>1, <2>11, PendingStays DEF Held
  <2>12. CASE phase = "catch_up"
    BY <2>1, <2>4, <2>5, <2>12, CatchUpStays DEF Held
  <2> QED
    BY <2>7, <2>8, <2>9, <2>10, <2>11, <2>12 DEF Held
<1> QED
  BY <1>2, <1>3

-----------------------------------------------------------------------------
(* The invariant, and what follows from it.                                  *)

LEMMA InitInv == Init => ScheduleInv
<1> SUFFICES ASSUME Init PROVE ScheduleInv
    OBVIOUS
<1>1. TypeOK
  BY InitTypes
<1>2. \A k \in Keys : start[k] = None /\ \A h \in Hotels : job[k][h] = "none"
  BY DEF Init
<1>3. phase = "idle" /\ todo = {} /\ lastTick = None
  BY DEF Init
<1>4. RunsInv
  BY <1>2, <1>3, KeyShapes DEF RunsInv
<1>5. CatchUpInv /\ ServeInv
  BY <1>2, KeyShapes DEF CatchUpInv, ServeInv
<1>6. TickInv /\ AccountInv /\ EndInv
  BY <1>3 DEF TickInv, AccountInv, EndInv, MissedWindow
<1> QED
  BY <1>1, <1>4, <1>5, <1>6 DEF ScheduleInv

LEMMA InvStep == ScheduleInv /\ [Next]_vars => ScheduleInv'
<1> SUFFICES ASSUME ScheduleInv, [Next]_vars PROVE ScheduleInv'
    OBVIOUS
<1>1. TypeOK /\ RunsInv /\ TickInv /\ CatchUpInv /\ ServeInv /\ AccountInv /\ EndInv
  BY DEF ScheduleInv
<1>2. TypeOK' /\ RunsInv' /\ TickInv'
  BY <1>1, QuietOrBusy, QuietTypes, BusyTypes, RunsInvStep, TickInvStep
<1>3. CatchUpInv' /\ ServeInv'
  BY <1>1, CatchUpInvStep, ServeInvStep
<1>4. AccountInv' /\ EndInv'
  BY <1>1, <1>2, AccountInvStep, EndInvStep
<1> QED
  BY <1>2, <1>3, <1>4 DEF ScheduleInv

\* The books of the scheduler agree with the runs: between ticks, within one,
\* after an error or a restart, every slot that the last tick could see has its
\* run, was given up, or is remembered somewhere.
THEOREM ScheduleInvariant == Spec => []ScheduleInv
  BY InitInv, InvStep, PTL DEF Spec

\* A catch-up run never repeats a scan, for any number of tenants with any
\* slots: _catch_up asks hotels_scanned_since, and no slot before the catch-up
\* is left that could still get its run.
THEOREM NoneScannedTwice == Spec => []NoSlotScannedTwice
<1>1. ScheduleInv => NoSlotScannedTwice
  BY DEF ScheduleInv, CatchUpInv, NotRepeated, NoSlotScannedTwice
<1> QED
  BY <1>1, ScheduleInvariant, PTL

\* After a tick that succeeded and found a proxy, every watched hotel has a run
\* for the latest slot of each tenant, unless it was given up: the window of
\* compute_triggers, the deferred slots and the catch-up leave no gap.
THEOREM LatestIsServed == Spec => LatestSlotServed
<1>1. ASSUME ScheduleInv, TickEnd, ~ down, NEW t \in Tenants, NEW s \in Time, Latest(t, s), s \notin givenUp
      PROVE  \A h \in Watch[t] : HasRunSince(h, s)
  <2>1. phase = "end" /\ EndInv /\ LatestAt(t, s, now)
    BY <1>1 DEF TickEnd, ScheduleInv, Latest, LatestAt
  <2> QED
    BY <1>1, <2>1 DEF EndInv, Served
<1>2. ScheduleInv /\ [Next]_vars =>
        [ TickEnd /\ ~down =>
          \A t \in Tenants, s \in Time : Latest(t, s) /\ s \notin givenUp =>
              \A h \in Watch[t] : HasRunSince(h, s) ]_vars
  BY <1>1
<1> QED
  BY <1>2, ScheduleInvariant, PTL DEF Spec, LatestSlotServed

\* A tick that catches up leaves each hotel of a missed slot with data or with a
\* job that has time: expire_runs comes before _catch_up, so the jobs of a run
\* that died are not taken for scanned.
THEOREM DeadOnesAreReplaced == Spec => DeadRunsAreReplaced
<1>1. ASSUME ScheduleInv, CatchUp, ~ Paused, start[<<"catchup", now>>] = None,
             NEW t \in Tenants, NEW s \in Time, Missed(t, s), NEW h \in Watch[t]
      PROVE  \E k \in Keys : /\ start'[k] # None /\ start'[k] >= s
                             /\ \/ job'[k][h] = "done"
                                \/ job'[k][h] = "pending" /\ start'[k] + Deadline >= now
  <2>0. /\ TypeOK /\ TickInv /\ now \in Time /\ now \in Nat /\ now # None /\ s \in Nat /\ h \in Hotels
        /\ CatchUpHotels \in SUBSET Hotels /\ <<"catchup", now>> \in Keys
        /\ phase = "catch_up" /\ s <= now /\ Deadline \in Nat /\ Lookback \in Nat
    <3>1. TypeOK /\ TickInv
      BY <1>1 DEF ScheduleInv
    <3>2. now \in Time /\ CatchUpHotels \in SUBSET Hotels
      BY <3>1 DEF TypeOK, CatchUpHotels
    <3>3. <<"catchup", now>> \in Keys /\ now \in Nat /\ now # None /\ s \in Nat
      BY <3>2, KeyShapes, Numbers
    <3>4. Watch[t] \subseteq Hotels /\ Slots[t] \subseteq Time
      BY SlotSets
    <3>5. phase = "catch_up" /\ s \in Slots[t] /\ s + Lookback <= now
      BY <1>1 DEF CatchUp, Missed
    <3>6. Lookback \in Nat /\ Deadline \in Nat /\ s <= now
      BY <3>3, <3>5, Numbers
    <3> QED
      BY <3>1, <3>2, <3>3, <3>4, <3>5, <3>6
  <2>1. CASE h \in CatchUpHotels
    <3>1. Makes(<<"catchup", now>>, now, CatchUpHotels)
      BY <1>1, <2>0, <2>1, CatchUpRun
    <3>2. start'[<<"catchup", now>>] = now /\ job'[<<"catchup", now>>][h] = "pending"
      BY <2>0, <2>1, <3>1, MakesKeeps DEF Makes
    <3> QED
      BY <2>0, <3>2
  <2>2. CASE h \notin CatchUpHotels
    <3>1. PICK k \in Keys : start[k] # None /\ start[k] >= s /\ job[k][h] \notin {"none", "failed"}
      BY <1>1, <2>0, <2>2 DEF CatchUpHotels, ScannedSince
    <3>2. job[k][h] \in {"pending", "done"} /\ start[k] \in Nat
      <4>1. job[k][h] \in JobStatus /\ start[k] \in Time
        BY <2>0, <3>1 DEF TypeOK
      <4> QED
        BY <3>1, <4>1, Numbers DEF JobStatus
    <3>3. job[k][h] = "pending" => start[k] + Deadline >= now
      BY <2>0, <3>1, <3>2 DEF TickInv, Overdue
    <3>4. start'[k] = start[k] /\ job'[k][h] = job[k][h]
      <4>1. CASE Makes(<<"catchup", now>>, now, CatchUpHotels)
        BY <1>1, <2>0, <3>1, <4>1, MakesMade DEF Made
      <4>2. CASE UNCHANGED <<start, job>>
        BY <4>2
      <4> QED
        BY <1>1, <2>0, <4>1, <4>2, CatchUpRun
    <3> QED
      BY <3>1, <3>2, <3>3, <3>4
  <2> QED
    BY <2>1, <2>2
<1>2. ScheduleInv /\ [Next]_vars =>
        [ CatchUp /\ ~Paused /\ start[<<"catchup", now>>] = None =>
          \A t \in Tenants, s \in Time : Missed(t, s) =>
              \A h \in Watch[t] : \E k \in Keys :
                  /\ start'[k] # None /\ start'[k] >= s
                  /\ \/ job'[k][h] = "done"
                     \/ job'[k][h] = "pending" /\ start'[k] + Deadline >= now ]_vars
  BY <1>1
<1> QED
  BY <1>2, ScheduleInvariant, PTL DEF Spec, DeadRunsAreReplaced

=============================================================================

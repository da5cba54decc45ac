---------------------------- MODULE DailyInsight ----------------------------
(***************************************************************************)
(* The AI insights of one tenant (insight/service.py, jobs/settings.py,    *)
(* api/routers/insights.py and the request store of insight/client.py).    *)
(* A cron pushes the daily job once its hour has come and again after a    *)
(* failure; a user asks for one through the API.  A job is one transaction *)
(* around a call of the language model: its row is seen when it commits.   *)
(***************************************************************************)
EXTENDS Integers, FiniteSets

CONSTANTS
    InsightSlots,       \* jobs the worker executes at a time
    Callers,            \* concurrent calls of the API
    UseBatch,           \* settings.insight_use_batch
    MaxDailyFailures,   \* MAX_DAILY_FAILURES
    InsightTries,       \* max_tries of the worker
    LastDay,            \* bound: local days 0..LastDay
    MaxRows,            \* bound: rows of the insights table
    InsightFaults       \* bound: crashes, exceptions, failed calls, lost keys

ASSUME InsightBounds ==
    /\ UseBatch \in BOOLEAN /\ {MaxDailyFailures, InsightTries, MaxRows} \subseteq Nat \ {0}
    /\ LastDay \in Nat /\ InsightFaults \in Nat \ {0}

VARIABLES
    insights, \* the committed rows: [id, daily, day, status, old]
    ijob,     \* for an arq job id: where it is
    islot,    \* for a slot: its job, the day and the row it works on
    caller,   \* for a call of POST /generate: where it is
    store,    \* ids of the rows whose batch result Redis keeps
    today,    \* the tenant's local day
    due,      \* insight_hour of today has passed
    late,     \* a daily job ran on a later day than its key says (history)
    again,    \* a job ran again after it had committed what then failed (history)
    ifaults

insightVars == <<insights, ijob, islot, caller, store, today, due, late, again, ifaults>>

Days == 0..LastDay
Settled == {"completed", "failed"}
IFault == ifaults < InsightFaults /\ ifaults' = ifaults + 1

(* insight:<tenant>:daily:<day>:a<attempt>, insight:<tenant>:req<row>.     *)
DailyJobs == [daily : {TRUE}, day : Days, n : 0..(MaxDailyFailures - 1)]
RequestJobs == [daily : {FALSE}, day : {0}, n : 1..MaxRows]
InsightJobs == DailyJobs \cup RequestJobs
NotPushed == [at |-> "none", tries |-> 0, wrote |-> FALSE]
FreeInsightSlot == [pc |-> "free", day |-> 0, row |-> 0]

InsightInit ==
    /\ insights = {} /\ ijob = [j \in InsightJobs |-> NotPushed]
    /\ islot = [s \in InsightSlots |-> FreeInsightSlot] /\ caller = [c \in Callers |-> 0]
    /\ store = {} /\ due = FALSE /\ late = FALSE /\ again = FALSE
    /\ \/ today = LastDay /\ ifaults = 0
       \/ today = 0 /\ ifaults = 1     \* bound: a fault less where midnight is seen

Daily(day, statuses) == {x \in insights : x.daily /\ x.day = day /\ x.status \in statuses}
Row(id) == {x \in insights : x.id = id}
UsedIds == {x.id : x \in insights} \cup {islot[s].row : s \in InsightSlots}
NextId == CHOOSE id \in 1..(MaxRows + 1) : id \notin UsedIds /\ 1..(id - 1) \subseteq UsedIds
PushInsight(j) == IF ijob[j].at = "none" THEN [ijob EXCEPT ![j].at = "queued"] ELSE ijob

----------------------------------------------------------------------------
(* select_daily_dispatch: due, nothing made or under way, and not failed   *)
(* too often; the id carries the number of failures.                       *)
MadeAny(day) == Daily(day, {"completed", "batch_pending", "pending", "failed"}) # {} \* Mutant: failed, too
Made(day) == Daily(day, {"completed", "batch_pending", "pending"}) # {}

DispatchDaily ==
    LET failures == Cardinality(Daily(today, {"failed"}))
        j == [daily |-> TRUE, day |-> today, n |-> failures]
    IN /\ due /\ ~Made(today)
       /\ failures < MaxDailyFailures /\ ijob[j].at = "none"
       /\ ijob' = PushInsight(j)
       /\ UNCHANGED <<insights, islot, caller, store, today, due, late, again, ifaults>>

(* generate: the insight of the key's day exists already, ...              *)
NeverDone(j) == FALSE \* Mutant: not asked
AlreadyDone(j) == j.daily /\ Daily(j.day, {"completed", "batch_pending"}) # {}

SkipInsight(s, j) ==
    /\ islot[s].pc = "free" /\ ijob[j].at = "queued" /\ AlreadyDone(j)
    /\ ijob' = [ijob EXCEPT ![j].at = "kept"]
    /\ UNCHANGED <<insights, islot, caller, store, today, due, late, again, ifaults>>

(* ... or the request's pending row is taken, or a new one is made, of the *)
(* period that begins on the day it is now.                                *)
StartInsight(s, j) ==
    LET asked == {x \in Row(j.n) : ~j.daily /\ x.status = "pending"}
        id == IF asked # {} THEN j.n ELSE NextId
    IN /\ islot[s].pc = "free" /\ ijob[j].at = "queued" /\ ~AlreadyDone(j) /\ id <= MaxRows
       /\ ijob' = [ijob EXCEPT ![j].at = "executing", ![j].tries = @ + 1]
       /\ islot' = [islot EXCEPT ![s] = [pc |-> "call", day |-> today, row |-> id, job |-> j]]
       /\ late' = (late \/ (j.daily /\ j.day < today))
       /\ again' = (again \/ (ijob[j].wrote /\ Daily(j.day, {"failed"}) # {}))
       /\ UNCHANGED <<insights, caller, store, today, due, ifaults>>

(* The model answers, the answer is validated and the row committed; it is *)
(* "failed" when the call failed, the answer is no valid output, or there  *)
(* is nothing to report on.  A batch puts its results in Redis first.      *)
Written(s, status) ==
    LET t == islot[s] IN
    (insights \ Row(t.row)) \cup
      {[id |-> t.row, daily |-> t.job.daily, day |-> t.day, status |-> status, old |-> FALSE]}

CommitInsight(s, status) ==
    LET batched == UseBatch /\ islot[s].job.daily IN
    /\ islot[s].pc = "call"
    /\ IF status = "failed" THEN IFault ELSE UNCHANGED ifaults
    /\ status = "batch_pending" <=> batched /\ status # "failed"
    /\ insights' = Written(s, status)
    /\ store' = IF status = "batch_pending" THEN store \cup {islot[s].row} ELSE store
    /\ islot' = [islot EXCEPT ![s].pc = "done"]
    /\ ijob' = [ijob EXCEPT ![islot[s].job].wrote = TRUE]
    /\ UNCHANGED <<caller, today, due, late, again>>

EndInsight(s) ==
    /\ islot[s].pc = "done"
    /\ ijob' = [ijob EXCEPT ![islot[s].job].at = "kept"]
    /\ islot' = [islot EXCEPT ![s] = FreeInsightSlot]
    /\ UNCHANGED <<insights, caller, store, today, due, late, again, ifaults>>

(* An exception ends the job without a row; after a crash arq starts it    *)
(* again, up to max_tries.                                                 *)
InsightStops(s) ==
    LET j == islot[s].job IN
    /\ islot[s].pc # "free" /\ IFault
    /\ \/ islot[s].pc = "call" /\ ijob' = [ijob EXCEPT ![j].at = "kept"]
       \/ ijob' = [ijob EXCEPT ![j].at = IF ijob[j].tries < InsightTries THEN "queued" ELSE "kept"]
    /\ islot' = [islot EXCEPT ![s] = FreeInsightSlot]
    /\ UNCHANGED <<insights, caller, store, today, due, late, again>>

ForgetInsightJob(j) ==
    /\ ijob[j].at = "kept"
    /\ ijob' = [ijob EXCEPT ![j] = NotPushed]
    /\ UNCHANGED <<insights, islot, caller, store, today, due, late, again, ifaults>>

(* poll_batches: a batch whose results are gone counts as in progress.     *)
PollBatch(id, status) ==
    /\ id \in store /\ status \in Settled
    /\ \E x \in Row(id) :
         /\ x.status = "batch_pending"
         /\ IF status = "failed" THEN IFault ELSE UNCHANGED ifaults
         /\ insights' = (insights \ {x}) \cup {[x EXCEPT !.status = status]}
    /\ UNCHANGED <<ijob, islot, caller, store, today, due, late, again>>

StoreLoses(id) ==
    /\ id \in store /\ IFault
    /\ store' = store \ {id}
    /\ UNCHANGED <<insights, ijob, islot, caller, today, due, late, again>>

----------------------------------------------------------------------------
(* POST /generate: pending rows of more than 10 minutes are failed; one    *)
(* that is pending is returned, two are an error; ...                      *)
TimedOut == {IF x.status = "pending" /\ x.old THEN [x EXCEPT !.status = "failed"] ELSE x : x \in insights}

AskInsight(c) ==
    /\ caller[c] = 0 /\ {x \in insights : x.status = "pending" /\ ~x.old} = {}
    /\ IFault
    /\ insights' = TimedOut
    /\ caller' = [caller EXCEPT ![c] = -1]
    /\ UNCHANGED <<ijob, islot, store, today, due, late, again>>

(* ... else a row is committed and, in a second step, its job pushed, or   *)
(* the row is failed when there is no queue.                               *)
AddRequest(c) ==
    /\ caller[c] = -1 /\ NextId <= MaxRows
    /\ insights' = insights \cup
         {[id |-> NextId, daily |-> FALSE, day |-> today, status |-> "pending", old |-> FALSE]}
    /\ caller' = [caller EXCEPT ![c] = NextId]
    /\ UNCHANGED <<ijob, islot, store, today, due, late, again, ifaults>>

PushRequest(c) ==
    /\ caller[c] > 0
    /\ \/ ijob' = PushInsight([daily |-> FALSE, day |-> 0, n |-> caller[c]]) /\ UNCHANGED <<insights, ifaults>>
       \/ IFault /\ insights' = {IF x.id = caller[c] THEN [x EXCEPT !.status = "failed"] ELSE x : x \in insights}
          /\ UNCHANGED ijob
    /\ caller' = [caller EXCEPT ![c] = 0]
    /\ UNCHANGED <<islot, store, today, due, late, again>>

----------------------------------------------------------------------------
(* Ten minutes pass for a pending row, the hour comes, the day ends.       *)
RowGrowsOld(x) ==
    /\ x \in insights /\ x.status = "pending" /\ ~x.old
    /\ insights' = (insights \ {x}) \cup {[x EXCEPT !.old = TRUE]}
    /\ UNCHANGED <<ijob, islot, caller, store, today, due, late, again, ifaults>>

HourComes ==
    /\ ~due /\ due' = TRUE
    /\ UNCHANGED <<insights, ijob, islot, caller, store, today, late, again, ifaults>>

Midnight ==
    /\ due /\ today < LastDay
    /\ today' = today + 1 /\ due' = FALSE
    /\ UNCHANGED <<insights, ijob, islot, caller, store, late, again, ifaults>>

InsightSlotStep(s) ==
    \/ \E j \in InsightJobs : SkipInsight(s, j) \/ StartInsight(s, j)
    \/ \E status \in {"completed", "batch_pending"} : CommitInsight(s, status)
    \/ EndInsight(s)
Polls == \E id \in store : PollBatch(id, "completed")

InsightNext ==
    \/ DispatchDaily \/ Polls \/ HourComes \/ Midnight
    \/ \E s \in InsightSlots : InsightSlotStep(s) \/ InsightStops(s) \/ CommitInsight(s, "failed")
    \/ \E j \in InsightJobs : ForgetInsightJob(j)
    \/ \E id \in store : PollBatch(id, "failed") \/ StoreLoses(id)
    \/ \E c \in Callers : AskInsight(c) \/ AddRequest(c) \/ PushRequest(c)
    \/ \E x \in insights : RowGrowsOld(x)

(* The crons come round, the worker takes and executes jobs, results       *)
(* expire.  No user need ask, no day need end.                             *)
InsightFairness ==
    /\ WF_insightVars(DispatchDaily) /\ WF_insightVars(Polls)
    /\ \A s \in InsightSlots : WF_insightVars(InsightSlotStep(s))
    /\ WF_insightVars(\E j \in InsightJobs : ForgetInsightJob(j))

InsightSpec == InsightInit /\ [][InsightNext]_insightVars /\ InsightFairness

----------------------------------------------------------------------------
InsightTypeOK ==
    /\ insights \subseteq [id : 1..MaxRows, daily : BOOLEAN, day : Days, old : BOOLEAN,
                           status : Settled \cup {"pending", "batch_pending"}]
    /\ \A x, y \in insights : x.id = y.id => x = y
    /\ \A j \in InsightJobs : /\ ijob[j].at \in {"none", "queued", "executing", "kept"}
                              /\ ijob[j].tries \in 0..InsightTries /\ ijob[j].wrote \in BOOLEAN
    /\ \A s \in InsightSlots : islot[s].pc \in {"free", "call", "done"} /\ islot[s].row \in 0..MaxRows
    /\ caller \in [Callers -> -1..MaxRows] /\ store \subseteq 1..MaxRows
    /\ today \in Days /\ {due, late, again} \subseteq BOOLEAN /\ ifaults \in 0..InsightFaults

(* A day has one daily insight and not more than MaxDailyFailures failed   *)
(* ones, crashes or not (service.py: idempotent by tenant and local day);  *)
(* save for a job started on another day than its own, and for one that    *)
(* crashes between its commit and its end and by then has failed.          *)
DailyIdempotent == \A d \in Days : Cardinality(Daily(d, {"completed", "batch_pending"})) <= 1
AttemptsBounded == \A d \in Days : Cardinality(Daily(d, {"failed"})) <= MaxDailyFailures
OneDailyInsight == ~late /\ ~again => DailyIdempotent /\ AttemptsBounded

(* Once its hour has come a day gets its insight, or its allowed failures, *)
(* unless the day ends first or the result of its batch was lost.          *)
DayServed == \E x \in insights : x.daily /\ x.day = today /\ (x.status = "completed" \/ x.id \notin store)
GivenUpToday == Cardinality(Daily(today, {"failed"})) >= MaxDailyFailures

=============================================================================

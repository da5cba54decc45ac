--------------------------- MODULE ScanRunProofs ---------------------------
(* Proofs about ScanRun, for every set of runs, hotels and workers, any      *)
(* number of tries and any set of events.                                    *)
EXTENDS ScanRun, TLAPS

USE ConstantAssumption

LEMMA TaskParts ==
    \A t \in Tasks : t[1] \in Runs /\ t[2] \in Hotels /\ t = <<t[1], t[2]>>
BY DEF Tasks

\* A worker that is not idle has a job.
LEMMA BusyHasTask ==
    ASSUME IInv, NEW w \in Workers, pc[w] # "idle"
    PROVE  on[w] \in Tasks /\ on[w][1] \in Runs /\ on[w][2] \in Hotels
BY TaskParts DEF IInv, OneWorkerPerJob

\* Every step is one that touches neither rows of runs and jobs nor a worker,
\* or one of the fourteen below.
LEMMA StepCases ==
    ASSUME [Next]_vars
    PROVE  \/ UNCHANGED <<run, total, job, worker>>
           \/ \E r \in Runs, H \in SUBSET Hotels : CreateRun(r, H)
           \/ ExpireCommit
           \/ \E w \in Workers :
                  \/ \E t \in Tasks : TakeJob(w, t)
                  \/ WorkerStep(w) \/ WorkerCrash(w) \/ WorkerError(w)
<1>1. CASE UNCHANGED vars
  BY <1>1 DEF vars, db
<1>2. CASE WorkerNext
  BY <1>2 DEF WorkerNext
<1>3. CASE QueueNext
  BY <1>3 DEF QueueNext, ResultExpires, DropJob, PauseChannel, PauseExpires, db
<1>4. CASE ProducerNext
  <2>1. ASSUME NEW t \in Tasks, PushProbe(t) \/ PushLost(t) \/ Requeue(t)
        PROVE  UNCHANGED <<run, total, job, worker>>
    BY <2>1 DEF PushProbe, PushLost, Requeue, db
  <2>2. ASSUME NEW r \in Runs, Age(r) \/ ExpireHook(r) \/ TopUp(r)
        PROVE  UNCHANGED <<run, total, job, worker>>
    BY <2>2 DEF Age, ExpireHook, TopUp, db
  <2>3. ASSUME ExpireSelect \/ SchedulerCrash \/ \E h \in Hotels : ListingChanges(h)
        PROVE  UNCHANGED <<run, total, job, worker>>
    BY <2>3 DEF ExpireSelect, SchedulerCrash, ListingChanges, db
  <2> QED
    BY <1>4, <2>1, <2>2, <2>3 DEF ProducerNext
<1>5. CASE AnalyticsNext
  BY <1>5 DEF AnalyticsNext, RunAnalytics, AnalyticsError, AnalyticsCatchUp,
              AnalyticsResultExpires, db
<1> QED
  BY <1>1, <1>2, <1>3, <1>4, <1>5 DEF Next

-----------------------------------------------------------------------------
(* Types. Most steps change one or two variables; those of the workers need *)
(* that a busy worker has a job and that a verdict was reached.             *)

LEMMA TypeInit == Init => TypeOK
<1> SUFFICES ASSUME Init PROVE TypeOK
    OBVIOUS
<1>1. /\ run \in [Runs -> RunStatus]
      /\ job \in [Tasks -> JobStatus]
      /\ arq \in [Tasks -> {"absent", "queued", "taken", "result"}]
      /\ tries \in [Tasks -> 0 .. MaxTries]
      /\ ana \in [Runs -> {"absent", "queued", "result"}]
      /\ age \in [Runs -> 0 .. 2]
  BY DEF Init, RunStatus, JobStatus
<1>2. /\ pc \in [Workers -> PCs]
      /\ seen \in [Workers -> JobStatus]
      /\ out \in [Workers -> Outcomes]
      /\ verdict \in [Workers -> Verdicts]
  BY DEF Init, PCs, JobStatus, Outcomes, Verdicts
<1> QED
  BY <1>1, <1>2 DEF Init, TypeOK

LEMMA TypeQueue == TypeOK /\ QueueNext => TypeOK'
<1> SUFFICES ASSUME TypeOK, QueueNext PROVE TypeOK'
    OBVIOUS
<1>1. ASSUME NEW t \in Tasks, ResultExpires(t) PROVE TypeOK'
  BY <1>1 DEF ResultExpires, TypeOK, db, worker, producer
<1>2. ASSUME NEW t \in Tasks, DropJob(t) PROVE TypeOK'
  BY <1>2 DEF DropJob, ArqDone, TypeOK, db, worker, producer
<1>3. ASSUME PauseChannel \/ PauseExpires PROVE TypeOK'
  BY <1>3 DEF PauseChannel, PauseExpires, TypeOK, db, worker, producer
<1> QED
  BY <1>1, <1>2, <1>3 DEF QueueNext

LEMMA TypeAnalytics == TypeOK /\ AnalyticsNext => TypeOK'
<1> SUFFICES ASSUME TypeOK, AnalyticsNext PROVE TypeOK'
    OBVIOUS
<1>1. ASSUME NEW r \in Runs, RunAnalytics(r) PROVE TypeOK'
  BY <1>1 DEF RunAnalytics, TypeOK, worker, producer
<1>2. ASSUME NEW r \in Runs, AnalyticsError(r) \/ AnalyticsResultExpires(r) PROVE TypeOK'
  BY <1>2 DEF AnalyticsError, AnalyticsResultExpires, TypeOK, db, worker, producer
<1>3. ASSUME NEW r \in Runs, AnalyticsCatchUp(r) PROVE TypeOK'
  BY <1>3 DEF AnalyticsCatchUp, EnqueueAnalytics, TypeOK, db, worker, producer
<1> QED
  BY <1>1, <1>2, <1>3 DEF AnalyticsNext

LEMMA TypeProducer == TypeOK /\ ProducerNext => TypeOK'
<1> SUFFICES ASSUME TypeOK, ProducerNext PROVE TypeOK'
    OBVIOUS
<1>1. ASSUME NEW r \in Runs, NEW H \in SUBSET Hotels, CreateRun(r, H) PROVE TypeOK'
  <2>1. {r} \X H \subseteq Tasks
    BY DEF Tasks
  <2>2. job' \in [Tasks -> JobStatus]
    BY <1>1 DEF CreateRun, TypeOK, JobStatus, Pending
  <2>3. run' \in [Runs -> RunStatus]
    BY <1>1 DEF CreateRun, TypeOK, RunStatus
  <2> QED
    BY <1>1, <2>1, <2>2, <2>3 DEF CreateRun, TypeOK, redis, worker
<1>2. ASSUME NEW t \in Tasks, PushProbe(t) \/ PushLost(t) \/ Requeue(t) PROVE TypeOK'
  BY <1>2 DEF PushProbe, PushLost, Requeue, Enqueue, TypeOK, db, redis, worker, producer
<1>3. ASSUME NEW r \in Runs, Age(r) PROVE TypeOK'
  <2>1. age' \in [Runs -> 0 .. 2]
    BY <1>3 DEF Age, TypeOK
  <2> QED
    BY <1>3, <2>1 DEF Age, TypeOK, redis, worker, producer
<1>4. ASSUME NEW r \in Runs, ExpireHook(r) \/ TopUp(r) PROVE TypeOK'
  <2>1. ana' \in [Runs -> {"absent", "queued", "result"}]
    BY <1>4 DEF ExpireHook, TopUp, EnqueueAnalytics, TypeOK
  <2>2. arq' \in [Tasks -> {"absent", "queued", "taken", "result"}]
    BY <1>4 DEF ExpireHook, TopUp, Enqueue, TypeOK
  <2> QED
    BY <1>4, <2>1, <2>2 DEF ExpireHook, TopUp, TypeOK, db, worker, producer
<1>5. ASSUME ExpireSelect \/ SchedulerCrash PROVE TypeOK'
  BY <1>5 DEF ExpireSelect, SchedulerCrash, TypeOK, db, redis, worker
<1>6. ASSUME ExpireCommit PROVE TypeOK'
  <2>1. job' \in [Tasks -> JobStatus]
    BY <1>6 DEF ExpireCommit, TypeOK, JobStatus, Pending
  <2>2. run' \in [Runs -> RunStatus]
    BY <1>6 DEF ExpireCommit, FinishVerdict, TypeOK, RunStatus
  <2>3. total' \in [Runs -> SUBSET Hotels]
    BY <1>6 DEF ExpireCommit, TypeOK
  <2> QED
    BY <1>6, <2>1, <2>2, <2>3 DEF ExpireCommit, TypeOK, redis, worker
<1>7. ASSUME NEW h \in Hotels, ListingChanges(h) PROVE TypeOK'
  BY <1>7 DEF ListingChanges, TypeOK, redis, worker, producer
<1> QED
  BY <1>1, <1>2, <1>3, <1>4, <1>5, <1>6, <1>7 DEF ProducerNext

LEMMA TypeReset ==
    ASSUME TypeOK, NEW w \in Workers, Reset(w)
    PROVE  /\ pc' \in [Workers -> PCs]
           /\ on' \in [Workers -> Tasks \union {NoTask}]
           /\ seen' \in [Workers -> JobStatus]
           /\ out' \in [Workers -> Outcomes]
           /\ verdict' \in [Workers -> Verdicts]
           /\ tally' \in [Workers -> SUBSET Hotels]
           /\ lock' \in [Runs -> Workers \union {NoTask}]
BY DEF Reset, TypeOK, PCs, JobStatus, Outcomes, Verdicts

LEMMA TypeWorker == IInv /\ WorkerNext => TypeOK'
<1> SUFFICES ASSUME IInv, NEW w \in Workers,
                    \/ WorkerStep(w) \/ WorkerCrash(w) \/ WorkerError(w)
                    \/ \E t \in Tasks : TakeJob(w, t)
             PROVE  TypeOK'
    BY DEF WorkerNext
<1>t. TypeOK
  BY DEF IInv
<1>1. ASSUME NEW t \in Tasks, TakeJob(w, t) PROVE TypeOK'
  <2>1. tries[t] + 1 \in 0 .. MaxTries
    BY <1>t, <1>1 DEF TakeJob, TypeOK
  <2> QED
    BY <1>t, <1>1, <2>1 DEF TakeJob, TypeOK, PCs, db, producer
<1>2. CASE StartRead(w)
  <2>1. on[w] \in Tasks
    BY <1>2, BusyHasTask DEF StartRead
  <2>2. pc' \in [Workers -> PCs]
    BY <1>t, <1>2, <2>1 DEF TypeOK, StartRead, PCs
  <2>3. seen' \in [Workers -> JobStatus]
    BY <1>t, <1>2, <2>1 DEF TypeOK, StartRead
  <2> QED
    BY <1>t, <1>2, <2>2, <2>3 DEF TypeOK, StartRead, db, redis, producer
<1>3. CASE StartRun(w) \/ SettleRetrying(w)
  BY <1>t, <1>3, SMTT(30) DEF StartRun, SettleRetrying, TypeOK, PCs, JobStatus, Pending, redis, producer
<1>4. CASE StartRefused(w) \/ SettleJob(w)
  BY <1>t, <1>4 DEF StartRefused, SettleJob, TypeOK, PCs, JobStatus, Outcomes, db, redis,
                    producer
<1>5. ASSUME NEW o \in Outcomes, NEW wrote \in BOOLEAN, Probe(w, o, wrote) PROVE TypeOK'
  <2>1. on[w] \in Tasks /\ on[w][1] \in Runs /\ on[w][2] \in Hotels
    BY <1>5, BusyHasTask DEF Probe
  <2>2. probed' \in [Runs -> SUBSET Hotels]
    BY <1>t, <1>5, <2>1 DEF Probe, TypeOK
  <2> QED
    BY <1>t, <1>5, <2>2 DEF Probe, TypeOK, PCs, redis, producer
<1>6. CASE LockRun(w)
  <2>1. on[w] \in Tasks /\ on[w][1] \in Runs
    BY <1>6, BusyHasTask DEF LockRun
  <2>2. verdict' \in [Workers -> Verdicts]
    BY <1>t, <1>6 DEF LockRun, FinishVerdict, TypeOK, Verdicts
  <2>3. tally' \in [Workers -> SUBSET Hotels]
    BY <1>t, <1>6, <2>1 DEF LockRun, TypeOK
  <2>4. lock' \in [Runs -> Workers \union {NoTask}]
    BY <1>t, <1>6, <2>1 DEF LockRun, TypeOK
  <2> QED
    BY <1>t, <1>6, <2>2, <2>3, <2>4 DEF LockRun, TypeOK, PCs, db, redis, producer
<1>7. CASE CommitFinish(w)
  <2>1. on[w] \in Tasks /\ on[w][1] \in Runs /\ on[w][2] \in Hotels
    BY <1>7, BusyHasTask DEF CommitFinish
  <2>2. verdict[w] # "leave" => verdict[w] \in RunStatus
    BY <1>7 DEF IInv, VerdictHolds, CommitFinish, RunStatus
  <2>3. job' \in [Tasks -> JobStatus]
    BY <1>t, <1>7 DEF TypeOK, CommitFinish, NewStatus, JobStatus
  <2>4. run' \in [Runs -> RunStatus] /\ total' \in [Runs -> SUBSET Hotels]
    BY <1>t, <1>7, <2>2 DEF TypeOK, CommitFinish
  <2>5. listing' \in [Hotels -> BOOLEAN]
    BY <1>t, <1>7 DEF TypeOK, CommitFinish
  <2>6. lock' \in [Runs -> Workers \union {NoTask}]
    BY <1>t, <1>7 DEF TypeOK, CommitFinish
  <2>7. /\ pc' \in [Workers -> PCs]
        /\ verdict' \in [Workers -> Verdicts]
        /\ tally' \in [Workers -> SUBSET Hotels]
    BY <1>t, <1>7 DEF TypeOK, CommitFinish, PCs, Verdicts
  <2> QED
    BY <1>t, <1>7, <2>3, <2>4, <2>5, <2>6, <2>7 DEF CommitFinish, TypeOK, redis, producer
<1>8. CASE RunFinishedHook(w)
  <2>1. ana' \in [Runs -> {"absent", "queued", "result"}]
    BY <1>t, <1>8 DEF RunFinishedHook, EnqueueAnalytics, TypeOK
  <2> QED
    BY <1>t, <1>8, <2>1 DEF RunFinishedHook, TypeOK, PCs, db, producer
<1>9. CASE Return(w) \/ WorkerCrash(w) \/ WorkerError(w)
  <2>1. Reset(w)
    BY <1>9 DEF Return, WorkerCrash, WorkerError
  <2>2. /\ arq' \in [Tasks -> {"absent", "queued", "taken", "result"}]
        /\ tries' \in [Tasks -> 0 .. MaxTries]
    BY <1>t, <1>9 DEF Return, WorkerCrash, WorkerError, ArqDone, TypeOK
  <2>3. UNCHANGED <<db, ana, paused, producer>>
    BY <1>9 DEF Return, WorkerCrash, WorkerError
  <2> HIDE <1>9
  <2> QED
    BY <1>t, <2>1, <2>2, <2>3, TypeReset DEF TypeOK, db, producer
<1> QED
  BY <1>1, <1>2, <1>3, <1>4, <1>5, <1>6, <1>7, <1>8, <1>9 DEF WorkerStep

LEMMA TypeStep == IInv /\ [Next]_vars => TypeOK'
<1>1. TypeOK /\ UNCHANGED vars => TypeOK'
  BY DEF TypeOK, vars, db, redis, worker, producer
<1> QED
  BY <1>1, TypeQueue, TypeAnalytics, TypeProducer, TypeWorker DEF Next, IInv

-----------------------------------------------------------------------------
(* The queue and the rows.                                                  *)

\* Outside the workers nothing happens to them or to a job they execute.
LEMMA TakenStays ==
    ASSUME TypeOK, QueueNext \/ ProducerNext \/ AnalyticsNext \/ UNCHANGED vars
    PROVE  /\ UNCHANGED worker
           /\ \A t \in Tasks : arq[t] = "taken" => arq'[t] = "taken"
<1>1. CASE UNCHANGED vars
  BY <1>1 DEF vars, redis
<1>2. CASE QueueNext
  BY <1>2 DEF QueueNext, ResultExpires, DropJob, ArqDone, PauseChannel, PauseExpires, TypeOK
<1>3. CASE ProducerNext
  <2>1. ASSUME NEW r \in Runs, NEW H \in SUBSET Hotels, CreateRun(r, H)
        PROVE  UNCHANGED <<worker, arq>>
    BY <2>1 DEF CreateRun, redis
  <2>2. ASSUME NEW t \in Tasks, PushProbe(t) \/ PushLost(t) \/ Requeue(t)
        PROVE  /\ UNCHANGED worker
               /\ \A u \in Tasks : arq[u] = "taken" => arq'[u] = "taken"
    BY <2>2 DEF PushProbe, PushLost, Requeue, Enqueue, redis
  <2>3. ASSUME NEW r \in Runs, Age(r) \/ ExpireHook(r) \/ TopUp(r)
        PROVE  /\ UNCHANGED worker
               /\ \A u \in Tasks : arq[u] = "taken" => arq'[u] = "taken"
    BY <2>3 DEF Age, ExpireHook, TopUp, Enqueue, redis
  <2>4. ASSUME \/ ExpireSelect \/ ExpireCommit \/ SchedulerCrash
               \/ \E h \in Hotels : ListingChanges(h)
        PROVE  UNCHANGED <<worker, arq>>
    BY <2>4 DEF ExpireSelect, ExpireCommit, SchedulerCrash, ListingChanges, redis
  <2> QED
    BY <1>3, <2>1, <2>2, <2>3, <2>4 DEF ProducerNext
<1>4. CASE AnalyticsNext
  BY <1>4 DEF AnalyticsNext, RunAnalytics, AnalyticsError, AnalyticsCatchUp,
              AnalyticsResultExpires
<1> QED
  BY <1>1, <1>2, <1>3, <1>4

\* A step of a worker that goes on executing its job.
LEMMA WorkerGoesOn ==
    ASSUME TypeOK, NEW w \in Workers, WorkerStep(w), ~Return(w)
    PROVE  /\ UNCHANGED <<arq, on, producer, age>>
           /\ pc[w] # "idle" /\ pc'[w] # "idle"
           /\ \A v \in Workers \ {w} : pc'[v] = pc[v]
<1>1. CASE StartRead(w)
  BY <1>1 DEF StartRead, TypeOK, db, redis
<1>2. CASE StartRun(w) \/ StartRefused(w)
  BY <1>2 DEF StartRun, StartRefused, TypeOK, db, redis
<1>3. ASSUME NEW o \in Outcomes, NEW wrote \in BOOLEAN, Probe(w, o, wrote)
      PROVE  /\ UNCHANGED <<arq, on, producer, age>>
             /\ pc[w] # "idle" /\ pc'[w] # "idle"
             /\ \A v \in Workers \ {w} : pc'[v] = pc[v]
  BY <1>3 DEF Probe, TypeOK, redis
<1>4. CASE SettleRetrying(w) \/ SettleJob(w) \/ LockRun(w)
  BY <1>4 DEF SettleRetrying, SettleJob, LockRun, TypeOK, db, redis
<1>5. CASE CommitFinish(w)
  BY <1>5 DEF CommitFinish, TypeOK, redis
<1>6. CASE RunFinishedHook(w)
  BY <1>6 DEF RunFinishedHook, TypeOK, db
<1> QED
  BY <1>1, <1>2, <1>3, <1>4, <1>5, <1>6 DEF WorkerStep

\* A step with which a worker's call ends.
LEMMA WorkerEnds ==
    ASSUME TypeOK, NEW w \in Workers, Return(w) \/ WorkerCrash(w) \/ WorkerError(w)
    PROVE  /\ Reset(w) /\ UNCHANGED <<db, ana, producer>>
           /\ pc[w] # "idle"
           /\ \A t \in Tasks : t # on[w] => arq'[t] = arq[t]
BY DEF Return, WorkerCrash, WorkerError, ArqDone, TypeOK

LEMMA OneWorkerStep == IInv /\ [Next]_vars => OneWorkerPerJob'
<1> SUFFICES ASSUME IInv, [Next]_vars PROVE OneWorkerPerJob'
    OBVIOUS
<1>t. TypeOK /\ OneWorkerPerJob
  BY DEF IInv
<1>1. CASE QueueNext \/ ProducerNext \/ AnalyticsNext \/ UNCHANGED vars
  BY <1>t, <1>1, TakenStays DEF OneWorkerPerJob, worker
<1>2. ASSUME NEW w \in Workers, NEW t \in Tasks, TakeJob(w, t) PROVE OneWorkerPerJob'
  <2>1. /\ pc'[w] = "called" /\ on'[w] = t /\ arq'[t] = "taken" /\ arq[t] = "queued"
        /\ \A v \in Workers \ {w} : pc'[v] = pc[v] /\ on'[v] = on[v]
        /\ \A u \in Tasks \ {t} : arq'[u] = arq[u]
    BY <1>t, <1>2 DEF TakeJob, TypeOK
  <2> QED
    BY <1>t, <2>1 DEF OneWorkerPerJob
<1>3. ASSUME NEW w \in Workers, WorkerStep(w), ~Return(w) PROVE OneWorkerPerJob'
  BY <1>t, <1>3, WorkerGoesOn DEF OneWorkerPerJob
<1>4. ASSUME NEW w \in Workers, Return(w) \/ WorkerCrash(w) \/ WorkerError(w)
      PROVE  OneWorkerPerJob'
  <2>1. /\ Reset(w) /\ pc[w] # "idle"
        /\ \A t \in Tasks : t # on[w] => arq'[t] = arq[t]
    BY <1>t, <1>4, WorkerEnds
  <2>2. /\ pc'[w] = "idle"
        /\ \A v \in Workers \ {w} : pc'[v] = pc[v] /\ on'[v] = on[v]
    BY <1>t, <2>1 DEF Reset, TypeOK
  <2> QED
    BY <1>t, <2>1, <2>2 DEF OneWorkerPerJob
<1> QED
  BY <1>1, <1>2, <1>3, <1>4 DEF Next, WorkerNext, WorkerStep

-----------------------------------------------------------------------------
(* What the steps do to the rows: one lemma per kind of step, then the facts *)
(* the rest of the proof uses.                                               *)

\* expire_runs closes the runs it selected and fails their pending jobs.
LEMMA ExpireEffect ==
    ASSUME IInv, ExpireCommit
    PROVE  /\ UNCHANGED <<worker, arq, toPush, analyzed, ana>>
           /\ overdue' = {} /\ toHook' = overdue
           /\ \A r \in overdue : lock[r] = NoTask
           /\ \A r \in Runs \ overdue : run'[r] = run[r]
           /\ \A r \in Runs : Closed(r) => run'[r] = run[r] /\ total'[r] = total[r]
           /\ \A r \in overdue : run'[r] \in {"completed", "partial"}
           /\ \A r \in overdue : run[r] = "running" /\ run'[r] = "completed" =>
                  \A t \in Tasks : t[1] = r => job'[t] \in {"none", "done"}
           /\ \A t \in Tasks : job'[t] # job[t] =>
                  t[1] \in overdue /\ job[t] \in Pending /\ job'[t] = "failed"
           /\ \A t \in Tasks : t[1] \in overdue => job'[t] \notin Pending
<1> DEFINE J == [t \in Tasks |-> IF t[1] \in overdue /\ job[t] \in Pending
                                 THEN "failed" ELSE job[t]]
           closing == {r \in overdue : FinishVerdict(r, J) # "leave"}
<1>1. /\ UNCHANGED <<worker, arq, toPush, analyzed, ana>>
      /\ overdue' = {} /\ toHook' = overdue
      /\ \A r \in overdue : lock[r] = NoTask
      /\ job' = J
      /\ run' = [r \in Runs |-> IF r \in closing THEN FinishVerdict(r, J) ELSE run[r]]
      /\ total' = [r \in Runs |-> IF r \in closing THEN probed[r] ELSE total[r]]
  BY DEF ExpireCommit, redis
<1>2. TypeOK /\ JobsHaveRuns
  BY DEF IInv
<1>3. \A r \in closing : run[r] = "running" /\ FinishVerdict(r, J) \in {"completed", "partial"}
  BY DEF FinishVerdict
<1>4. /\ \A t \in Tasks : J[t] # job[t] =>
             t[1] \in overdue /\ job[t] \in Pending /\ J[t] = "failed"
      /\ \A t \in Tasks : t[1] \in overdue => J[t] \notin Pending
  BY DEF Pending
<1>5. \A r \in overdue : run[r] = "running" => r \in closing
  <2> SUFFICES ASSUME NEW r \in overdue, run[r] = "running" PROVE FinishVerdict(r, J) # "leave"
      OBVIOUS
  <2>1. \A h \in Hotels : <<r, h>> \in Tasks /\ <<r, h>>[1] = r
    BY <1>2 DEF TypeOK, Tasks
  <2>2. {J[<<r, h>>] : h \in Hotels} \cap Pending = {}
    BY <1>4, <2>1, ZenonT(60)
  <2> HIDE DEF J
  <2> QED
    BY <2>2 DEF FinishVerdict
<1>6. ASSUME NEW r \in overdue, FinishVerdict(r, J) = "completed", NEW t \in Tasks, t[1] = r
      PROVE  J[t] \in {"none", "done"}
  <2>1. PICK h \in Hotels : t = <<r, h>>
    BY <1>6, TaskParts
  <2>2. J[t] \in JobStatus
    BY <1>2 DEF TypeOK, JobStatus, Pending
  <2>3. J[t] \in {J[<<r, g>>] : g \in Hotels}
    BY <2>1
  <2> HIDE DEF J
  <2>4. J[t] = "none" \/ (J[t] \notin Pending /\ J[t] # "failed")
    BY <1>6, <2>3 DEF FinishVerdict
  <2> QED
    BY <2>2, <2>4 DEF JobStatus
<1> HIDE DEF J, closing
<1>7. \A r \in overdue : run[r] \in {"running", "completed", "partial"}
  BY <1>2 DEF JobsHaveRuns, TypeOK, RunStatus
<1>8. \A r \in Runs : Closed(r) => r \notin closing
  BY <1>3 DEF Closed
<1>9. overdue \subseteq Runs
  BY <1>2 DEF TypeOK
<1>10. closing \subseteq overdue
  BY DEF closing
<1> QED
  BY <1>1, <1>3, <1>4, <1>5, <1>6, <1>7, <1>8, <1>9, <1>10

\* A worker changes the row of its own job, which is not done yet, and closes a
\* run, that of its job, only at a commit whose verdict says so.
LEMMA WorkerEffect ==
    ASSUME IInv, NEW w \in Workers, WorkerStep(w) \/ WorkerCrash(w) \/ WorkerError(w)
    PROVE  /\ on[w] \in Tasks /\ pc[w] # "idle"
           /\ UNCHANGED <<producer, age>>
           /\ \A t \in Tasks \ {on[w]} : job'[t] = job[t]
           /\ job'[on[w]] # job[on[w]] =>
                  /\ job[on[w]] # "done"
                  /\ job'[on[w]] \in {"running", "retrying", "done", "failed"}
                  /\ job'[on[w]] \in {"running", "retrying"} \/ CommitFinish(w)
           /\ \A r \in Runs : run'[r] # run[r] \/ total'[r] # total[r] =>
                  /\ CommitFinish(w)
                  /\ r = on[w][1] /\ verdict[w] # "leave" /\ run'[r] = verdict[w]
<1>t. TypeOK /\ WorkedJobIsNotDone
  BY DEF IInv
<1>i. pc[w] # "idle"
  BY <1>t, WorkerGoesOn, WorkerEnds
<1>o. on[w] \in Tasks /\ on[w][1] \in Runs
  BY <1>i, BusyHasTask
<1>p. UNCHANGED <<producer, age>>
  BY <1>t, WorkerGoesOn, WorkerEnds DEF db
<1>1. CASE \/ StartRead(w) \/ StartRefused(w) \/ SettleJob(w) \/ LockRun(w)
           \/ RunFinishedHook(w) \/ Return(w) \/ WorkerCrash(w) \/ WorkerError(w)
           \/ \E o \in Outcomes, wrote \in BOOLEAN : Probe(w, o, wrote)
  <2>1. UNCHANGED <<run, total, job>>
    BY <1>1 DEF StartRead, StartRefused, SettleJob, LockRun, RunFinishedHook, Return,
                WorkerCrash, WorkerError, Probe, db
  <2> QED
    BY <1>i, <1>o, <1>p, <2>1
<1>2. CASE StartRun(w) \/ SettleRetrying(w)
  <2>1. UNCHANGED <<run, total>> /\ pc[w] \in {"start", "settle"}
    BY <1>2 DEF StartRun, SettleRetrying
  <2>2. /\ \A t \in Tasks \ {on[w]} : job'[t] = job[t]
        /\ job'[on[w]] # job[on[w]] => job'[on[w]] \in {"running", "retrying"}
    BY <1>t, <1>o, <1>2 DEF StartRun, SettleRetrying, TypeOK
  <2>3. job[on[w]] # "done"
    BY <1>t, <2>1 DEF WorkedJobIsNotDone
  <2> QED
    BY <1>i, <1>o, <1>p, <2>1, <2>2, <2>3
<1>3. CASE CommitFinish(w)
  <2>1. job[on[w]] # "done"
    BY <1>t, <1>3 DEF WorkedJobIsNotDone, CommitFinish
  <2>2. /\ \A t \in Tasks \ {on[w]} : job'[t] = job[t]
        /\ job'[on[w]] \in {"done", "failed"}
    BY <1>t, <1>o, <1>3 DEF CommitFinish, NewStatus, TypeOK
  <2>3. \A r \in Runs : run'[r] # run[r] \/ total'[r] # total[r] =>
            r = on[w][1] /\ verdict[w] # "leave" /\ run'[r] = verdict[w]
    BY <1>t, <1>o, <1>3 DEF CommitFinish, TypeOK
  <2> QED
    BY <1>i, <1>o, <1>p, <1>3, <2>1, <2>2, <2>3
<1> QED
  BY <1>1, <1>2, <1>3 DEF WorkerStep

LEMMA CreateEffect ==
    ASSUME IInv, NEW r \in Runs, NEW H \in SUBSET Hotels, CreateRun(r, H)
    PROVE  /\ UNCHANGED <<worker, arq, ana, analyzed, total, overdue, toHook>>
           /\ run[r] = "absent" /\ run'[r] = "running"
           /\ \A q \in Runs \ {r} : run'[q] = run[q]
           /\ \A t \in Tasks : t[1] # r => job'[t] = job[t]
           /\ \A t \in Tasks : t[1] = r =>
                  job[t] = "none" /\ job'[t] \in {"none", "queued"}
           /\ \E h \in Hotels : job'[<<r, h>>] = "queued"
           /\ \A t \in toPush' \ toPush : job'[t] = "queued"
           /\ \A t \in toPush' : t \in Tasks
<1>1. TypeOK /\ JobsHaveRuns
  BY DEF IInv
<1>2. {r} \X H \subseteq Tasks /\ H # {}
  BY DEF CreateRun, Tasks
<1>3. \A t \in Tasks : t \in {r} \X H => t[1] = r
  BY <1>2
<1>4. \A t \in Tasks : t[1] = r => job[t] = "none"
  BY <1>1 DEF JobsHaveRuns, CreateRun
<1>5. \A t \in Tasks : t \in {r} \X H => job'[t] = "queued"
  BY <1>1 DEF CreateRun
<1>6. \E h \in Hotels : <<r, h>> \in {r} \X H
  BY <1>2
<1> QED
  BY <1>1, <1>2, <1>3, <1>4, <1>5, <1>6 DEF CreateRun, TypeOK, redis

\* A closed run keeps its status and its counts: only a commit and expire_runs
\* write them, and both find the run "running" under its lock.
LEMMA ClosedStays ==
    ASSUME IInv, [Next]_vars
    PROVE  \A r \in Runs : Closed(r) => run'[r] = run[r] /\ total'[r] = total[r]
<1>1. ASSUME NEW q \in Runs, NEW H \in SUBSET Hotels, CreateRun(q, H)
      PROVE  \A r \in Runs : Closed(r) => run'[r] = run[r] /\ total'[r] = total[r]
  BY <1>1, CreateEffect DEF Closed
<1>2. CASE ExpireCommit
  BY <1>2, ExpireEffect
<1>3. ASSUME NEW w \in Workers, NEW t \in Tasks, TakeJob(w, t)
      PROVE  \A r \in Runs : Closed(r) => run'[r] = run[r] /\ total'[r] = total[r]
  BY <1>3 DEF TakeJob, db
<1>4. ASSUME NEW w \in Workers, WorkerStep(w) \/ WorkerCrash(w) \/ WorkerError(w)
      PROVE  \A r \in Runs : Closed(r) => run'[r] = run[r] /\ total'[r] = total[r]
  <2>1. CommitFinish(w) /\ verdict[w] # "leave" => run[on[w][1]] = "running"
    BY DEF IInv, VerdictHolds, CommitFinish
  <2> QED
    BY <1>4, <2>1, WorkerEffect DEF Closed
<1> QED
  BY <1>1, <1>2, <1>3, <1>4, StepCases

\* A row once inserted stays, and a done job stays done.
LEMMA RowsStay ==
    ASSUME IInv, [Next]_vars
    PROVE  /\ \A r \in Runs : run[r] # "absent" => run'[r] # "absent"
           /\ \A t \in Tasks : job[t] # "none" => job'[t] # "none"
           /\ \A t \in Tasks : job[t] = "done" => job'[t] = "done"
<1> DEFINE Goal == /\ \A r \in Runs : run[r] # "absent" => run'[r] # "absent"
                   /\ \A t \in Tasks : job[t] # "none" => job'[t] # "none"
                   /\ \A t \in Tasks : job[t] = "done" => job'[t] = "done"
<1>1. ASSUME NEW q \in Runs, NEW H \in SUBSET Hotels, CreateRun(q, H) PROVE Goal
  BY <1>1, CreateEffect
<1>2. CASE ExpireCommit
  BY <1>2, ExpireEffect DEF Pending
<1>3. ASSUME NEW w \in Workers, NEW t \in Tasks, TakeJob(w, t) PROVE Goal
  BY <1>3 DEF TakeJob, db
<1>4. ASSUME NEW w \in Workers, WorkerStep(w) \/ WorkerCrash(w) \/ WorkerError(w)
      PROVE  Goal
  <2>1. CommitFinish(w) /\ verdict[w] # "leave" => verdict[w] \in {"completed", "partial"}
    BY DEF IInv, VerdictHolds, CommitFinish
  <2> QED
    BY <1>4, <2>1, WorkerEffect
<1> QED
  BY <1>1, <1>2, <1>3, <1>4, StepCases

LEMMA JobsHaveRunsStep == IInv /\ [Next]_vars => JobsHaveRuns'
<1> SUFFICES ASSUME IInv, [Next]_vars PROVE JobsHaveRuns'
    OBVIOUS
<1>t. TypeOK /\ JobsHaveRuns
  BY DEF IInv
<1>1. \A t \in Tasks : job'[t] # "none" => run'[t[1]] # "absent"
  <2>1. ASSUME NEW q \in Runs, NEW H \in SUBSET Hotels, CreateRun(q, H),
               NEW t \in Tasks, job'[t] # "none"
        PROVE  run'[t[1]] # "absent"
    BY <1>t, <2>1, CreateEffect, TaskParts DEF JobsHaveRuns
  <2>2. ASSUME ~\E q \in Runs, H \in SUBSET Hotels : CreateRun(q, H)
        PROVE  \A t \in Tasks : job'[t] # "none" => job[t] # "none"
    <3>1. CASE ExpireCommit
      BY <3>1, ExpireEffect DEF Pending
    <3>2. ASSUME NEW w \in Workers, NEW t \in Tasks, TakeJob(w, t) PROVE UNCHANGED job
      BY <3>2 DEF TakeJob, db
    <3>3. ASSUME NEW w \in Workers, WorkerStep(w) \/ WorkerCrash(w) \/ WorkerError(w)
          PROVE  \A t \in Tasks : job'[t] # "none" => job[t] # "none"
      <4>1. job[on[w]] # "none"
        BY <1>t, <3>3, WorkerEffect DEF OneWorkerPerJob, IInv, JobsHaveRuns
      <4> QED
        BY <3>3, <4>1, WorkerEffect
    <3> QED
      BY <2>2, <3>1, <3>2, <3>3, StepCases
  <2> QED
    BY <1>t, <2>1, <2>2, RowsStay, TaskParts DEF JobsHaveRuns
<1>2. \A r \in overdue' : run'[r] # "absent"
  <2>1. \A r \in overdue' : run[r] # "absent"
    <3>1. CASE UNCHANGED overdue
      BY <1>t, <3>1 DEF JobsHaveRuns
    <3>2. CASE ExpireSelect
      BY <3>2 DEF ExpireSelect
    <3>3. CASE overdue' = {}
      BY <3>3
    <3>4. overdue' = overdue \/ overdue' = {} \/ ExpireSelect
      <4>1. CASE WorkerNext
        <5>1. ASSUME NEW w \in Workers, NEW t \in Tasks, TakeJob(w, t) PROVE UNCHANGED overdue
          BY <5>1 DEF TakeJob, producer
        <5> QED
          BY <4>1, <5>1, WorkerEffect DEF WorkerNext, producer
      <4>2. CASE QueueNext \/ AnalyticsNext
        BY <4>2 DEF QueueNext, AnalyticsNext, ResultExpires, DropJob, PauseChannel,
                    PauseExpires, RunAnalytics, AnalyticsError, AnalyticsCatchUp,
                    AnalyticsResultExpires, producer
      <4>3. CASE ProducerNext
        BY <4>3 DEF ProducerNext, CreateRun, PushProbe, PushLost, Requeue, Age, ExpireHook,
                    TopUp, ExpireCommit, SchedulerCrash, ListingChanges, producer
      <4> QED
        BY <4>1, <4>2, <4>3 DEF Next, vars, producer
    <3> QED
      BY <3>1, <3>2, <3>3, <3>4
  <2>2. overdue' \subseteq Runs
    BY TypeStep DEF TypeOK
  <2> QED
    BY <2>1, <2>2, RowsStay
<1>3. \A t \in Tasks : arq'[t] # "absent" \/ t \in toPush' => job'[t] # "none"
  <2>1. ASSUME NEW q \in Runs, NEW H \in SUBSET Hotels, CreateRun(q, H)
        PROVE  \A t \in Tasks : arq'[t] # "absent" \/ t \in toPush' => job'[t] # "none"
    BY <1>t, <2>1, CreateEffect, RowsStay DEF JobsHaveRuns
  <2>2. ASSUME ~\E q \in Runs, H \in SUBSET Hotels : CreateRun(q, H)
        PROVE  /\ toPush' \subseteq toPush
               /\ \A t \in Tasks : arq'[t] # "absent" =>
                      arq[t] # "absent" \/ t \in toPush \/ job[t] = "queued"
    <3>1. CASE WorkerNext
      <4>1. ASSUME NEW w \in Workers, NEW t \in Tasks, TakeJob(w, t)
            PROVE  /\ UNCHANGED toPush
                   /\ \A u \in Tasks : arq'[u] # "absent" => arq[u] # "absent"
        BY <1>t, <4>1 DEF TakeJob, producer, TypeOK
      <4>2. ASSUME NEW w \in Workers, WorkerStep(w) \/ WorkerCrash(w) \/ WorkerError(w)
            PROVE  /\ UNCHANGED toPush
                   /\ \A u \in Tasks : arq'[u] # "absent" => arq[u] # "absent"
        <5>1. pc[w] # "idle" /\ UNCHANGED producer
          BY <4>2, WorkerEffect
        <5>2. arq[on[w]] = "taken"
          BY <5>1 DEF IInv, OneWorkerPerJob
        <5> QED
          BY <1>t, <4>2, <5>1, <5>2, WorkerGoesOn, WorkerEnds DEF producer
      <4> QED
        BY <3>1, <4>1, <4>2 DEF WorkerNext
    <3>2. CASE QueueNext \/ AnalyticsNext
      BY <1>t, <3>2 DEF QueueNext, AnalyticsNext, ResultExpires, DropJob, ArqDone,
                  PauseChannel, PauseExpires, RunAnalytics, AnalyticsError,
                  AnalyticsCatchUp, AnalyticsResultExpires, producer, TypeOK
    <3>3. CASE ProducerNext
      <4>1. ASSUME NEW t \in Tasks, PushProbe(t) \/ PushLost(t) \/ Requeue(t)
            PROVE  /\ toPush' \subseteq toPush
                   /\ \A u \in Tasks : arq'[u] # "absent" =>
                          arq[u] # "absent" \/ u \in toPush \/ job[u] = "queued"
        BY <4>1 DEF PushProbe, PushLost, Requeue, Enqueue, redis, producer
      <4>2. ASSUME NEW r \in Runs, TopUp(r)
            PROVE  /\ toPush' \subseteq toPush
                   /\ \A u \in Tasks : arq'[u] # "absent" =>
                          arq[u] # "absent" \/ u \in toPush \/ job[u] = "queued"
        BY <4>2 DEF TopUp, Enqueue, Window, producer
      <4>3. ASSUME \/ ExpireSelect \/ ExpireCommit \/ SchedulerCrash
                   \/ \E h \in Hotels : ListingChanges(h)
                   \/ \E r \in Runs : Age(r) \/ ExpireHook(r)
            PROVE  UNCHANGED <<toPush, arq>>
        BY <4>3 DEF ExpireSelect, ExpireCommit, SchedulerCrash, ListingChanges, Age,
                    ExpireHook, redis, producer
      <4> QED
        BY <2>2, <3>3, <4>1, <4>2, <4>3 DEF ProducerNext
    <3> QED
      BY <3>1, <3>2, <3>3 DEF Next, vars, redis, producer
  <2>3. \A t \in Tasks : job[t] = "queued" => job[t] # "none"
    OBVIOUS
  <2> QED
    BY <1>t, <2>1, <2>2, <2>3, RowsStay DEF JobsHaveRuns
<1> QED
  BY <1>1, <1>2, <1>3 DEF JobsHaveRuns

-----------------------------------------------------------------------------
(* The workers.                                                             *)

\* The steps of a worker leave the other workers alone.
LEMMA OthersStay ==
    ASSUME IInv, NEW w \in Workers,
           \/ WorkerStep(w) \/ WorkerCrash(w) \/ WorkerError(w)
           \/ \E t \in Tasks : TakeJob(w, t)
    PROVE  \A v \in Workers \ {w} :
               /\ pc'[v] = pc[v] /\ on'[v] = on[v] /\ out'[v] = out[v]
               /\ verdict'[v] = verdict[v] /\ tally'[v] = tally[v]
               /\ \A r \in Runs : lock[r] = v => lock'[r] = v
<1>t. TypeOK
  BY DEF IInv
<1>1. CASE StartRead(w) \/ StartRun(w) \/ StartRefused(w) \/ SettleRetrying(w) \/ SettleJob(w)
  BY <1>t, <1>1 DEF StartRead, StartRun, StartRefused, SettleRetrying, SettleJob, TypeOK
<1>2. CASE \/ RunFinishedHook(w) \/ \E t \in Tasks : TakeJob(w, t)
           \/ \E o \in Outcomes, wrote \in BOOLEAN : Probe(w, o, wrote)
  BY <1>t, <1>2 DEF RunFinishedHook, TakeJob, Probe, TypeOK
<1>3. CASE LockRun(w)
  BY <1>t, <1>3 DEF LockRun, TypeOK
<1>4. CASE CommitFinish(w)
  <2>1. lock[on[w][1]] = w
    BY <1>4 DEF IInv, VerdictHolds, CommitFinish
  <2> QED
    BY <1>t, <1>4, <2>1 DEF CommitFinish, TypeOK
<1>5. CASE Return(w) \/ WorkerCrash(w) \/ WorkerError(w)
  <2>1. Reset(w)
    BY <1>t, <1>5, WorkerEnds
  <2> QED
    BY <1>t, <2>1 DEF Reset, TypeOK
<1> QED
  BY <1>1, <1>2, <1>3, <1>4, <1>5 DEF WorkerStep

LEMMA WorkedJobStep == IInv /\ [Next]_vars => WorkedJobIsNotDone'
<1> SUFFICES ASSUME IInv, [Next]_vars PROVE WorkedJobIsNotDone'
    OBVIOUS
<1> DEFINE Working == {"start", "refuse", "probe", "settle", "lock", "commit"}
<1>t. TypeOK /\ OneWorkerPerJob /\ WorkedJobIsNotDone
  BY DEF IInv
<1>1. CASE UNCHANGED <<run, total, job, worker>>
  BY <1>t, <1>1 DEF WorkedJobIsNotDone, worker
<1>2. ASSUME NEW r \in Runs, NEW H \in SUBSET Hotels, CreateRun(r, H)
      PROVE  WorkedJobIsNotDone'
  <2>1. UNCHANGED worker /\ \A t \in Tasks : job'[t] = "done" => job[t] = "done"
    BY <1>2, CreateEffect
  <2> QED
    BY <1>t, <2>1, BusyHasTask DEF WorkedJobIsNotDone, worker
<1>3. CASE ExpireCommit
  <2>1. UNCHANGED worker /\ \A t \in Tasks : job'[t] = "done" => job[t] = "done"
    BY <1>3, ExpireEffect
  <2> QED
    BY <1>t, <2>1, BusyHasTask DEF WorkedJobIsNotDone, worker
<1>4. ASSUME NEW w \in Workers, NEW t \in Tasks, TakeJob(w, t) PROVE WorkedJobIsNotDone'
  <2>1. UNCHANGED job /\ pc'[w] = "called"
    BY <1>t, <1>4 DEF TakeJob, db, TypeOK
  <2> QED
    BY <1>t, <1>4, <2>1, OthersStay DEF WorkedJobIsNotDone
<1>5. ASSUME NEW w \in Workers, WorkerStep(w) \/ WorkerCrash(w) \/ WorkerError(w)
      PROVE  WorkedJobIsNotDone'
  <2>1. ASSUME NEW v \in Workers \ {w}, pc'[v] \in Working PROVE job'[on'[v]] # "done"
    <3>1. pc[v] = pc'[v] /\ on'[v] = on[v]
      BY <1>5, OthersStay
    <3>2. on[v] \in Tasks /\ on[v] # on[w]
      BY <1>t, <1>5, <2>1, <3>1, WorkerEffect, BusyHasTask DEF OneWorkerPerJob
    <3> QED
      BY <1>t, <1>5, <2>1, <3>1, <3>2, WorkerEffect DEF WorkedJobIsNotDone
  <2>2. ASSUME pc'[w] \in Working PROVE job'[on'[w]] # "done"
    <3>1. CASE StartRead(w)
      BY <1>t, <2>2, <3>1 DEF StartRead, db, TypeOK
    <3>2. CASE StartRun(w)
      <4>1. on[w] \in Tasks /\ job[on[w]] # "done"
        BY <1>t, <3>2, BusyHasTask DEF StartRun, WorkedJobIsNotDone
      <4> QED
        BY <1>t, <3>2, <4>1 DEF StartRun, TypeOK
    <3>3. CASE \/ StartRefused(w) \/ SettleJob(w) \/ LockRun(w)
               \/ \E o \in Outcomes, wrote \in BOOLEAN : Probe(w, o, wrote)
      <4>1. UNCHANGED <<job, on>> /\ pc[w] \in Working
        BY <3>3 DEF StartRefused, SettleJob, LockRun, Probe, db
      <4> QED
        BY <1>t, <4>1 DEF WorkedJobIsNotDone
    <3>4. CASE \/ SettleRetrying(w) \/ CommitFinish(w) \/ RunFinishedHook(w)
               \/ Return(w) \/ WorkerCrash(w) \/ WorkerError(w)
      <4>1. pc'[w] \in {"return", "hook", "idle"}
        BY <1>t, <3>4 DEF SettleRetrying, CommitFinish, RunFinishedHook, Return, WorkerCrash,
                    WorkerError, Reset, TypeOK
      <4> QED
        BY <2>2, <4>1
    <3> QED
      BY <1>5, <3>1, <3>2, <3>3, <3>4 DEF WorkerStep
  <2> QED
    BY <2>1, <2>2 DEF WorkedJobIsNotDone
<1> QED
  BY <1>1, <1>2, <1>3, <1>4, <1>5, StepCases

\* What LockRun counts is what VerdictHolds says of its verdict.
LEMMA VerdictReached ==
    ASSUME IInv, NEW w \in Workers, LockRun(w)
    PROVE  LET t == on[w]
               others == {o \in Tasks : o[1] = t[1] /\ o # t}
           IN  /\ UNCHANGED <<run, job, on, out>>
               /\ lock'[t[1]] = w
               /\ verdict'[w] = "leave" /\ run[t[1]] = "running" =>
                      \E o \in others : job[o] \in Pending
               /\ verdict'[w] # "leave" =>
                      /\ run[t[1]] = "running"
                      /\ verdict'[w] \in {"completed", "partial"}
                      /\ \A o \in others : job[o] # "queued"
               /\ verdict'[w] = "completed" =>
                      /\ out[w] = "done"
                      /\ \A o \in others : job[o] \in {"none", "done"}
<1> DEFINE t == on[w]
           r == t[1]
           others == {o \in Tasks : o[1] = r /\ o # t}
           J == [job EXCEPT ![t] = NewStatus(w)]
           statuses == {J[<<r, h>>] : h \in Hotels} \ {"none"}
<1>1. TypeOK /\ t \in Tasks /\ r \in Runs
  BY BusyHasTask DEF IInv, LockRun
<1>2. /\ UNCHANGED <<run, job, on, out>>
      /\ lock'[r] = w
      /\ verdict'[w] = FinishVerdict(r, J)
  BY <1>1 DEF LockRun, db, TypeOK
<1>3. J[t] = NewStatus(w) /\ NewStatus(w) \in {"done", "failed"}
  BY <1>1 DEF NewStatus, TypeOK
<1>4. \A o \in others : J[o] = job[o] /\ job[o] \in JobStatus
  BY <1>1 DEF TypeOK
<1>5. \A o \in Tasks : o[1] = r => \E h \in Hotels : o = <<r, h>>
  BY TaskParts
<1>6. \A h \in Hotels : <<r, h>> = t \/ <<r, h>> \in others
  BY <1>1 DEF Tasks
<1> HIDE DEF J
<1>7. FinishVerdict(r, J) = IF run[r] # "running" \/ statuses \cap Pending # {} THEN "leave"
                            ELSE IF "failed" \in statuses THEN "partial" ELSE "completed"
  BY DEF FinishVerdict
<1>8. ASSUME statuses \cap Pending # {} PROVE \E o \in others : job[o] \in Pending
  <2>1. PICK h \in Hotels : J[<<r, h>>] \in Pending
    BY <1>8
  <2>2. <<r, h>> # t
    BY <1>3, <2>1 DEF Pending
  <2> QED
    BY <1>4, <1>6, <2>1, <2>2
<1>9. ASSUME statuses \cap Pending = {}
      PROVE  /\ \A o \in others : job[o] \notin Pending
             /\ "failed" \notin statuses =>
                    J[t] # "failed" /\ \A o \in others : job[o] # "failed"
  <2>1. \A o \in Tasks : o[1] = r => J[o] \in statuses \union {"none"}
    BY <1>5
  <2>2. \A o \in others : o \in Tasks /\ o[1] = r
    OBVIOUS
  <2> HIDE DEF statuses, others
  <2>3. "none" \notin Pending
    BY DEF Pending
  <2> QED
    BY <1>1, <1>4, <1>9, <2>1, <2>2, <2>3
<1>10. out[w] = "done" \/ NewStatus(w) = "failed"
  BY DEF NewStatus
<1> HIDE DEF statuses, others
<1>11. /\ FinishVerdict(r, J) = "leave" /\ run[r] = "running" =>
              \E o \in others : job[o] \in Pending
       /\ FinishVerdict(r, J) # "leave" =>
              /\ run[r] = "running"
              /\ FinishVerdict(r, J) \in {"completed", "partial"}
              /\ \A o \in others : job[o] # "queued"
       /\ FinishVerdict(r, J) = "completed" =>
              /\ out[w] = "done"
              /\ \A o \in others : job[o] \in {"none", "done"}
  BY <1>3, <1>4, <1>7, <1>8, <1>9, <1>10 DEF Pending, JobStatus
<1> QED
  BY <1>2, <1>11 DEF others

\* From the lock of its run to the commit of a worker that run does not change,
\* and its other jobs at most start or are put back for another try.
LEMMA LockedRunWaits ==
    ASSUME IInv, [Next]_vars, NEW v \in Workers, pc'[v] = "commit"
    PROVE  LET t == on[v]
               others == {o \in Tasks : o[1] = t[1] /\ o # t}
           IN  \/ LockRun(v)
               \/ /\ pc[v] = "commit" /\ UNCHANGED <<on[v], out[v], verdict[v], tally[v]>>
                  /\ lock'[t[1]] = v
                  /\ run'[t[1]] = run[t[1]]
                  /\ \A o \in others : \/ job'[o] = job[o]
                                       \/ /\ job'[o] \in {"running", "retrying"}
                                          /\ job[o] \notin {"none", "done"}
<1>t. TypeOK /\ OneWorkerPerJob /\ JobsHaveRuns /\ VerdictHolds
  BY DEF IInv
<1> DEFINE t == on[v]
           r == t[1]
           others == {o \in Tasks : o[1] = r /\ o # t}
           Kept == /\ pc[v] = "commit" /\ UNCHANGED <<on[v], out[v], verdict[v], tally[v]>>
                   /\ lock'[r] = v
                   /\ run'[r] = run[r]
                   /\ \A o \in others : \/ job'[o] = job[o]
                                        \/ /\ job'[o] \in {"running", "retrying"}
                                           /\ job[o] \notin {"none", "done"}
<1>k. ASSUME pc[v] = "commit"
      PROVE  /\ lock[r] = v /\ t \in Tasks /\ r \in Runs /\ run[r] # "absent"
             /\ \A o \in others : o[1] = r
  BY <1>t, <1>k, BusyHasTask DEF VerdictHolds, OneWorkerPerJob, JobsHaveRuns
<1>1. CASE UNCHANGED <<run, total, job, worker>>
  BY <1>k, <1>1 DEF worker
<1>2. ASSUME NEW q \in Runs, NEW H \in SUBSET Hotels, CreateRun(q, H) PROVE Kept
  <2>1. pc[v] = "commit" /\ UNCHANGED worker
    BY <1>2, CreateEffect DEF worker
  <2> QED
    BY <1>k, <1>2, <2>1, CreateEffect DEF worker
<1>3. ASSUME ExpireCommit PROVE Kept
  <2>1. pc[v] = "commit" /\ UNCHANGED worker
    BY <1>3, ExpireEffect DEF worker
  <2>2. r \notin overdue
    BY <1>k, <1>3, <2>1, ExpireEffect
  <2> QED
    BY <1>k, <1>3, <2>1, <2>2, ExpireEffect DEF worker
<1>4. ASSUME NEW w \in Workers, NEW u \in Tasks, TakeJob(w, u) PROVE Kept
  <2>1. w # v /\ UNCHANGED <<run, job>>
    BY <1>t, <1>4 DEF TakeJob, db, TypeOK
  <2> QED
    BY <1>k, <1>4, <2>1, OthersStay
<1>5. ASSUME NEW w \in Workers, w # v, WorkerStep(w) \/ WorkerCrash(w) \/ WorkerError(w)
      PROVE  Kept
  <2>1. /\ pc[v] = "commit" /\ UNCHANGED <<on[v], out[v], verdict[v], tally[v]>>
        /\ \A q \in Runs : lock[q] = v => lock'[q] = v
    BY <1>5, OthersStay
  <2>2. ~(CommitFinish(w) /\ on[w][1] = r)
    BY <1>t, <1>5, <1>k, <2>1 DEF CommitFinish, VerdictHolds
  <2>3. job[on[w]] # "none"
    BY <1>t, <1>5, WorkerEffect DEF OneWorkerPerJob, JobsHaveRuns
  <2>4. run'[r] = run[r]
    BY <1>5, <1>k, <2>1, <2>2, WorkerEffect
  <2>5. ASSUME NEW o \in others, job'[o] # job[o]
        PROVE  job'[o] \in {"running", "retrying"} /\ job[o] \notin {"none", "done"}
    <3>1. o = on[w] /\ on[w][1] = r
      BY <1>5, <2>1, <2>5, <1>k, WorkerEffect
    <3> QED
      BY <1>5, <2>2, <2>3, <2>5, <3>1, WorkerEffect
  <2> QED
    BY <1>k, <2>1, <2>4, <2>5
<1>6. ASSUME WorkerStep(v) \/ WorkerCrash(v) \/ WorkerError(v) PROVE LockRun(v)
  BY <1>t, <1>6 DEF WorkerStep, StartRead, StartRun, StartRefused, Probe, SettleRetrying,
         SettleJob, CommitFinish, RunFinishedHook, Return, WorkerCrash, WorkerError, Reset, TypeOK
<1> HIDE DEF Kept
<1>7. LockRun(v) \/ Kept
  <2>1. CASE UNCHANGED <<run, total, job, worker>>
    BY <1>1, <2>1 DEF Kept
  <2> QED
    BY <1>2, <1>3, <1>4, <1>5, <1>6, <2>1, StepCases
<1> QED
  BY <1>7 DEF Kept

LEMMA VerdictStep == IInv /\ [Next]_vars => VerdictHolds'
<1> SUFFICES ASSUME IInv, [Next]_vars, NEW v \in Workers, pc'[v] = "commit"
             PROVE  LET t == on[v]'
                        others == {o \in Tasks : o[1] = t[1] /\ o # t}
                    IN  /\ lock'[t[1]] = v
                        /\ verdict'[v] = "leave" /\ run'[t[1]] = "running" =>
                               \E o \in others : job'[o] \in Pending
                        /\ verdict'[v] # "leave" =>
                               /\ run'[t[1]] = "running"
                               /\ verdict'[v] \in {"completed", "partial"}
                               /\ \A o \in others : job'[o] # "queued"
                        /\ verdict'[v] = "completed" =>
                               /\ out'[v] = "done"
                               /\ \A o \in others : job'[o] \in {"none", "done"}
    BY DEF VerdictHolds
<1>1. CASE LockRun(v)
  BY <1>1, VerdictReached
<1>2. CASE ~ LockRun(v)
  BY <1>2, LockedRunWaits DEF IInv, VerdictHolds, Pending
<1> QED
  BY <1>1, <1>2

-----------------------------------------------------------------------------
(* The runs and their analytics.                                            *)

LEMMA HooksStep == IInv /\ [Next]_vars => HooksFollowClosing'
<1> SUFFICES ASSUME IInv, [Next]_vars PROVE HooksFollowClosing'
    OBVIOUS
<1>t. TypeOK /\ HooksFollowClosing
  BY DEF IInv
<1>c. \A r \in Runs : Closed(r) => Closed(r)'
  BY ClosedStays DEF Closed
<1>1. \A r \in toHook' : Closed(r)'
  <2>1. CASE ExpireCommit
    BY <1>t, <2>1, ExpireEffect DEF Closed, TypeOK
  <2>2. CASE ~ExpireCommit
    <3>1. toHook' \subseteq toHook
      <4>1. CASE WorkerNext
        <5>1. ASSUME NEW w \in Workers, NEW u \in Tasks, TakeJob(w, u) PROVE UNCHANGED toHook
          BY <5>1 DEF TakeJob, producer
        <5> QED
          BY <4>1, <5>1, WorkerEffect DEF WorkerNext, producer
      <4>2. CASE QueueNext \/ AnalyticsNext
        BY <4>2 DEF QueueNext, AnalyticsNext, ResultExpires, DropJob, PauseChannel,
                    PauseExpires, RunAnalytics, AnalyticsError, AnalyticsCatchUp,
                    AnalyticsResultExpires, producer
      <4>3. CASE ProducerNext
        BY <2>2, <4>3 DEF ProducerNext, CreateRun, PushProbe, PushLost, Requeue, Age,
                    ExpireHook, TopUp, ExpireSelect, SchedulerCrash, ListingChanges, producer
      <4> QED
        BY <4>1, <4>2, <4>3 DEF Next, vars, producer
    <3> QED
      BY <1>t, <1>c, <3>1 DEF HooksFollowClosing, TypeOK
  <2> QED
    BY <2>1, <2>2
<1>2. ASSUME NEW v \in Workers, pc'[v] = "hook" PROVE Closed(on[v][1])'
  <2>1. CASE pc[v] = "hook" /\ on'[v] = on[v]
    BY <1>t, <1>c, <2>1, BusyHasTask DEF HooksFollowClosing, Closed
  <2>2. CASE CommitFinish(v)
    <3>1. verdict[v] # "leave" /\ on'[v] = on[v]
      BY <1>t, <1>2, <2>2 DEF CommitFinish, TypeOK
    <3>2. verdict[v] \in {"completed", "partial"} /\ on[v][1] \in Runs
      BY <2>2, <3>1, BusyHasTask DEF IInv, VerdictHolds, CommitFinish
    <3> QED
      BY <1>t, <2>2, <3>1, <3>2 DEF CommitFinish, Closed, TypeOK
  <2>3. (pc[v] = "hook" /\ on'[v] = on[v]) \/ CommitFinish(v)
    <3>1. CASE UNCHANGED <<run, total, job, worker>>
      BY <1>2, <3>1 DEF worker
    <3>2. CASE ExpireCommit \/ \E r \in Runs, H \in SUBSET Hotels : CreateRun(r, H)
      BY <1>2, <3>2, ExpireEffect, CreateEffect DEF worker
    <3>3. ASSUME NEW w \in Workers, w # v,
                 \/ WorkerStep(w) \/ WorkerCrash(w) \/ WorkerError(w)
                 \/ \E u \in Tasks : TakeJob(w, u)
          PROVE  pc[v] = "hook" /\ on'[v] = on[v]
      BY <1>2, <3>3, OthersStay
    <3>4. ASSUME \/ WorkerStep(v) \/ WorkerCrash(v) \/ WorkerError(v)
                 \/ \E u \in Tasks : TakeJob(v, u)
          PROVE  CommitFinish(v)
      BY <1>t, <1>2, <3>4 DEF WorkerStep, StartRead, StartRun, StartRefused, Probe,
         SettleRetrying, SettleJob, LockRun, RunFinishedHook, Return, WorkerCrash,
         WorkerError, Reset, TakeJob, TypeOK
    <3> QED
      BY <3>1, <3>2, <3>3, <3>4, StepCases
  <2> QED
    BY <2>1, <2>2, <2>3
<1> QED
  BY <1>1, <1>2 DEF HooksFollowClosing, Closed

LEMMA AnalyticsStep == IInv /\ [Next]_vars => AnalyticsOnlyClosed'
<1> SUFFICES ASSUME IInv, [Next]_vars, NEW r \in Runs, ana'[r] # "absent" \/ analyzed'[r] # {}
             PROVE  Closed(r)'
    BY DEF AnalyticsOnlyClosed, Closed
<1>t. TypeOK /\ AnalyticsOnlyClosed /\ HooksFollowClosing
  BY DEF IInv
<1>1. SUFFICES Closed(r)
  BY ClosedStays DEF Closed
<1>2. CASE UNCHANGED <<ana, analyzed>>
  BY <1>t, <1>2 DEF AnalyticsOnlyClosed
<1>3. CASE AnalyticsNext
  BY <1>t, <1>3 DEF AnalyticsNext, RunAnalytics, AnalyticsError, AnalyticsCatchUp,
        AnalyticsResultExpires, EnqueueAnalytics, AnalyticsOnlyClosed, TypeOK, db
<1>4. ASSUME NEW q \in Runs, ExpireHook(q) PROVE Closed(r)
  BY <1>t, <1>4 DEF ExpireHook, EnqueueAnalytics, HooksFollowClosing, AnalyticsOnlyClosed, db
<1>5. ASSUME NEW w \in Workers, RunFinishedHook(w) PROVE Closed(r)
  BY <1>t, <1>5 DEF RunFinishedHook, EnqueueAnalytics, HooksFollowClosing,
                    AnalyticsOnlyClosed, db
<1>6. \/ UNCHANGED <<ana, analyzed>> \/ AnalyticsNext
      \/ \E q \in Runs : ExpireHook(q) \/ \E w \in Workers : RunFinishedHook(w)
  <2>1. CASE UNCHANGED vars
    BY <2>1 DEF vars, db, redis
  <2>2. CASE QueueNext
    BY <2>2 DEF QueueNext, ResultExpires, DropJob, PauseChannel, PauseExpires, db
  <2>3. CASE ProducerNext
    BY <2>3 DEF ProducerNext, CreateRun, PushProbe, PushLost, Requeue, Age, TopUp,
          ExpireSelect, ExpireCommit, SchedulerCrash, ListingChanges, db, redis
  <2>4. CASE WorkerNext
    BY <2>4 DEF WorkerNext, WorkerStep, TakeJob, StartRead, StartRun, StartRefused, Probe,
          SettleRetrying, SettleJob, LockRun, CommitFinish, Return, WorkerCrash,
          WorkerError, db, redis
  <2> QED
    BY <2>1, <2>2, <2>3, <2>4 DEF Next
<1> QED
  BY <1>2, <1>3, <1>4, <1>5, <1>6

LEMMA RunningStep == IInv /\ [Next]_vars => RunningHasPendingJob'
<1> SUFFICES ASSUME IInv, [Next]_vars, NEW r \in Runs, run'[r] = "running"
             PROVE  \E h \in Hotels : job'[<<r, h>>] \in Pending
    BY DEF RunningHasPendingJob
<1>t. TypeOK /\ RunningHasPendingJob /\ VerdictHolds /\ OneWorkerPerJob
  BY DEF IInv
<1>h. \A h \in Hotels : <<r, h>> \in Tasks /\ <<r, h>>[1] = r
  BY DEF Tasks
<1>1. CASE UNCHANGED <<run, total, job, worker>>
  BY <1>t, <1>1 DEF RunningHasPendingJob
<1>2. ASSUME NEW q \in Runs, NEW H \in SUBSET Hotels, CreateRun(q, H)
      PROVE  \E h \in Hotels : job'[<<r, h>>] \in Pending
  <2>1. CASE r = q
    BY <1>2, <2>1, CreateEffect DEF Pending
  <2>2. CASE r # q
    <3>1. run[r] = "running" /\ \A h \in Hotels : job'[<<r, h>>] = job[<<r, h>>]
      BY <1>t, <1>h, <1>2, <2>2, CreateEffect
    <3> QED
      BY <1>t, <3>1 DEF RunningHasPendingJob
  <2> QED
    BY <2>1, <2>2
<1>3. CASE ExpireCommit
  BY <1>t, <1>h, <1>3, ExpireEffect DEF RunningHasPendingJob
<1>4. ASSUME NEW w \in Workers, NEW u \in Tasks, TakeJob(w, u)
      PROVE  \E h \in Hotels : job'[<<r, h>>] \in Pending
  BY <1>t, <1>4 DEF TakeJob, db, RunningHasPendingJob
<1>5. ASSUME NEW w \in Workers, WorkerStep(w) \/ WorkerCrash(w) \/ WorkerError(w)
      PROVE  \E h \in Hotels : job'[<<r, h>>] \in Pending
  <2>1. /\ on[w] \in Tasks
        /\ \A t \in Tasks \ {on[w]} : job'[t] = job[t]
        /\ job'[on[w]] # job[on[w]] =>
               job'[on[w]] \in Pending \/ CommitFinish(w)
        /\ run[r] = "running"
    <3>1. CommitFinish(w) /\ verdict[w] # "leave" => verdict[w] # "running"
      BY <1>t DEF CommitFinish, VerdictHolds
    <3> QED
      BY <1>5, <3>1, WorkerEffect DEF Pending
  <2>2. CASE CommitFinish(w) /\ on[w][1] = r
    <3>1. verdict[w] = "leave"
      BY <1>t, <2>2 DEF CommitFinish, VerdictHolds, TypeOK
    <3>2. PICK o \in Tasks : o[1] = r /\ o # on[w] /\ job[o] \in Pending
      BY <1>t, <2>1, <2>2, <3>1 DEF VerdictHolds, CommitFinish
    <3>3. PICK h \in Hotels : o = <<r, h>>
      BY <3>2, TaskParts
    <3>4. job'[<<r, h>>] \in Pending
      BY <2>1, <3>2, <3>3
    <3> QED
      BY <3>4
  <2>3. CASE ~(CommitFinish(w) /\ on[w][1] = r)
    <3>1. PICK h \in Hotels : job[<<r, h>>] \in Pending
      BY <1>t, <2>1 DEF RunningHasPendingJob
    <3> QED
      BY <1>h, <2>1, <2>3, <3>1
  <2> QED
    BY <2>2, <2>3
<1> QED
  BY <1>1, <1>2, <1>3, <1>4, <1>5, StepCases

LEMMA CompletedStep == IInv /\ [Next]_vars => CompletedMeansAllDone'
<1> SUFFICES ASSUME IInv, [Next]_vars, NEW r \in Runs, run'[r] = "completed",
                    NEW t \in Tasks, t[1] = r
             PROVE  job'[t] \in {"none", "done"}
  <2>1. \A h \in Hotels, q \in Runs : <<q, h>> \in Tasks /\ <<q, h>>[1] = q
    BY DEF Tasks
  <2> QED
    BY <2>1 DEF CompletedMeansAllDone, JobsOf
<1>t. TypeOK /\ CompletedMeansAllDone /\ VerdictHolds /\ OneWorkerPerJob /\ JobsHaveRuns
  BY DEF IInv
<1>d. run[r] = "completed" => job[t] \in {"none", "done"}
  BY <1>t, TaskParts DEF CompletedMeansAllDone, JobsOf
<1>1. CASE UNCHANGED <<run, total, job, worker>>
  BY <1>d, <1>1
<1>2. ASSUME NEW q \in Runs, NEW H \in SUBSET Hotels, CreateRun(q, H)
      PROVE  job'[t] \in {"none", "done"}
  BY <1>d, <1>2, CreateEffect
<1>3. CASE ExpireCommit
  <2>1. CASE run[r] = "completed"
    BY <1>d, <1>3, <2>1, ExpireEffect DEF Pending
  <2>2. CASE run[r] # "completed"
    <3>1. r \in overdue /\ ~Closed(r)
      BY <1>3, <2>2, ExpireEffect DEF Closed
    <3>2. run[r] = "running"
      BY <1>t, <3>1 DEF JobsHaveRuns, TypeOK, RunStatus, Closed
    <3> QED
      BY <1>3, <3>1, <3>2, ExpireEffect
  <2> QED
    BY <2>1, <2>2
<1>4. ASSUME NEW w \in Workers, NEW u \in Tasks, TakeJob(w, u)
      PROVE  job'[t] \in {"none", "done"}
  BY <1>d, <1>4 DEF TakeJob, db
<1>5. ASSUME NEW w \in Workers, WorkerStep(w) \/ WorkerCrash(w) \/ WorkerError(w)
      PROVE  job'[t] \in {"none", "done"}
  <2>1. job[on[w]] # "none"
    BY <1>t, <1>5, WorkerEffect DEF OneWorkerPerJob, JobsHaveRuns
  <2>2. CASE run[r] = "completed"
    BY <1>d, <1>5, <2>1, <2>2, WorkerEffect
  <2>3. CASE run[r] # "completed"
    <3>1. /\ CommitFinish(w) /\ r = on[w][1]
          /\ verdict[w] = "completed" /\ pc[w] = "commit"
      BY <1>5, <2>3, WorkerEffect DEF CommitFinish
    <3>2. t # on[w] => job[t] \in {"none", "done"}
      BY <1>t, <3>1 DEF VerdictHolds
    <3>3. job'[on[w]] = "done"
      BY <1>t, <1>5, <3>1, WorkerEffect DEF CommitFinish, NewStatus, VerdictHolds, TypeOK
    <3> QED
      BY <1>5, <3>2, <3>3, WorkerEffect
  <2> QED
    BY <2>2, <2>3
<1> QED
  BY <1>1, <1>2, <1>3, <1>4, <1>5, StepCases

LEMMA NoQueuedStep == IInv /\ [Next]_vars => ClosedHasNoQueuedJob'
<1> SUFFICES ASSUME IInv, [Next]_vars, NEW t \in Tasks, job'[t] = "queued"
             PROVE  run'[t[1]] = "running"
    BY DEF ClosedHasNoQueuedJob
<1>t. TypeOK /\ ClosedHasNoQueuedJob /\ VerdictHolds
  BY DEF IInv
<1>r. t[1] \in Runs
  BY TaskParts
<1>1. CASE UNCHANGED <<run, total, job, worker>>
  BY <1>t, <1>1 DEF ClosedHasNoQueuedJob
<1>2. ASSUME NEW q \in Runs, NEW H \in SUBSET Hotels, CreateRun(q, H)
      PROVE  run'[t[1]] = "running"
  BY <1>t, <1>r, <1>2, CreateEffect DEF ClosedHasNoQueuedJob
<1>3. CASE ExpireCommit
  <2>1. job[t] = "queued" /\ t[1] \notin overdue
    BY <1>3, ExpireEffect DEF Pending
  <2> QED
    BY <1>t, <1>r, <1>3, <2>1, ExpireEffect DEF ClosedHasNoQueuedJob
<1>4. ASSUME NEW w \in Workers, NEW u \in Tasks, TakeJob(w, u) PROVE run'[t[1]] = "running"
  BY <1>t, <1>4 DEF TakeJob, db, ClosedHasNoQueuedJob
<1>5. ASSUME NEW w \in Workers, WorkerStep(w) \/ WorkerCrash(w) \/ WorkerError(w)
      PROVE  run'[t[1]] = "running"
  <2>1. job[t] = "queued" /\ run[t[1]] = "running"
    BY <1>t, <1>5, WorkerEffect DEF ClosedHasNoQueuedJob
  <2>2. ASSUME CommitFinish(w), t[1] = on[w][1], verdict[w] # "leave" PROVE FALSE
    <3>1. t # on[w]
      BY <1>t, <1>5, <2>2, WorkerEffect DEF CommitFinish, NewStatus, TypeOK
    <3> QED
      BY <1>t, <2>1, <2>2, <3>1 DEF CommitFinish, VerdictHolds
  <2> QED
    BY <1>r, <1>5, <2>1, <2>2, WorkerEffect
<1> QED
  BY <1>1, <1>2, <1>3, <1>4, <1>5, StepCases

-----------------------------------------------------------------------------
(* The theorems.                                                            *)

LEMMA InitInv == Init => IInv
<1> SUFFICES ASSUME Init PROVE IInv
    OBVIOUS
<1>1. TypeOK
  BY TypeInit
<1>2. OneWorkerPerJob /\ WorkedJobIsNotDone /\ VerdictHolds /\ HooksFollowClosing
  BY DEF Init, OneWorkerPerJob, WorkedJobIsNotDone, VerdictHolds, HooksFollowClosing
<1>3. JobsHaveRuns
  BY DEF Init, JobsHaveRuns
<1>4. RunningHasPendingJob /\ CompletedMeansAllDone
  BY DEF Init, RunningHasPendingJob, CompletedMeansAllDone
<1>5. ClosedHasNoQueuedJob /\ AnalyticsOnlyClosed
  BY DEF Init, ClosedHasNoQueuedJob, AnalyticsOnlyClosed
<1> QED
  BY <1>1, <1>2, <1>3, <1>4, <1>5 DEF IInv

LEMMA StepInv == IInv /\ [Next]_vars => IInv'
<1>1. IInv /\ [Next]_vars => /\ TypeOK' /\ OneWorkerPerJob' /\ JobsHaveRuns'
                             /\ WorkedJobIsNotDone' /\ VerdictHolds'
                             /\ HooksFollowClosing' /\ RunningHasPendingJob'
                             /\ CompletedMeansAllDone' /\ ClosedHasNoQueuedJob'
                             /\ AnalyticsOnlyClosed'
  BY TypeStep, OneWorkerStep, JobsHaveRunsStep, WorkedJobStep, VerdictStep, HooksStep,
     RunningStep, CompletedStep, NoQueuedStep, AnalyticsStep
<1> QED
  BY <1>1 DEF IInv

\* Everything below follows from one inductive invariant of the specification.
THEOREM Invariance == Spec => []IInv
<1>1. Init => IInv
  BY InitInv
<1>2. IInv /\ [Next]_vars => IInv'
  BY StepInv
<1> QED
  BY <1>1, <1>2, PTL DEF Spec

\* Every variable keeps its type, whatever the workers, the scheduler and the
\* environment do.
THEOREM TypeCorrect == Spec => []TypeOK
<1>1. IInv => TypeOK
  BY DEF IInv
<1> QED
  BY <1>1, Invariance, PTL

\* A running run always has a job still to be settled (try_finish_run's row lock).
THEOREM NoRunLeftOpen == Spec => []RunningHasPendingJob
<1>1. IInv => RunningHasPendingJob
  BY DEF IInv
<1> QED
  BY <1>1, Invariance, PTL

\* A run reported "completed" has every hotel done, and keeps it so.
THEOREM CompletedIsTrue == Spec => []CompletedMeansAllDone
<1>1. IInv => CompletedMeansAllDone
  BY DEF IInv
<1> QED
  BY <1>1, Invariance, PTL

\* No job of a closed run is queued.
THEOREM NothingQueuedAfterClosing == Spec => []ClosedHasNoQueuedJob
<1>1. IInv => ClosedHasNoQueuedJob
  BY DEF IInv
<1> QED
  BY <1>1, Invariance, PTL

\* Analytics is asked for and has rows only for closed runs.
THEOREM AnalyticsAfterClosing == Spec => []AnalyticsOnlyClosed
<1>1. IInv => AnalyticsOnlyClosed
  BY DEF IInv
<1> QED
  BY <1>1, Invariance, PTL

\* A closed run is never closed again, reopened or recounted.
THEOREM RunsCloseOnce == Spec => ClosedOnce
<1>1. IInv /\ [Next]_vars =>
          [\A r \in Runs : Closed(r) => run'[r] = run[r] /\ total'[r] = total[r]]_vars
  BY ClosedStays
<1> QED
  BY <1>1, Invariance, PTL DEF Spec, ClosedOnce

\* A done job stays done: no repeated delivery, crash or deadline undoes it.
THEOREM DoneJobsStay == Spec => DoneIsFinal
<1>1. IInv /\ [Next]_vars => [\A t \in Tasks : job[t] = "done" => job'[t] = "done"]_vars
  BY RowsStay
<1> QED
  BY <1>1, Invariance, PTL DEF Spec, DoneIsFinal

-----------------------------------------------------------------------------
(* The refinement. What RunLifecycle promises rests on IInv and on two more  *)
(* facts: what was tallied, counted and analysed was probed, by jobs of the  *)
(* run; and a run about to be closed as "partial" has a job that will not be *)
(* done when it is.                                                          *)

CountsAreProbed ==
    /\ \A r \in Runs : /\ probed[r] \subseteq JobsOf(r)
                       /\ total[r] \subseteq probed[r] /\ analyzed[r] \subseteq probed[r]
    /\ \A w \in Workers : pc[w] = "commit" => tally[w] \subseteq probed[on[w][1]]

PartialHolds ==
    \A w \in Workers : pc[w] = "commit" /\ verdict[w] = "partial" =>
        \/ out[w] # "done"
        \/ \E o \in Tasks : o[1] = on[w][1] /\ o # on[w] /\ job[o] \notin {"none", "done"}

RefInv == IInv /\ CountsAreProbed /\ PartialHolds

DoneOf(r) == {h \in Hotels : job[<<r, h>>] = "done"}

\* The jobs of a run and those that are done only grow.
LEMMA JobsGrow ==
    ASSUME IInv, [Next]_vars, NEW r \in Runs
    PROVE  /\ JobsOf(r) \subseteq JobsOf(r)'
           /\ DoneOf(r) \subseteq DoneOf(r)' /\ DoneOf(r)' \subseteq JobsOf(r)'
<1>1. \A h \in Hotels : <<r, h>> \in Tasks
  BY DEF Tasks
<1> QED
  BY <1>1, RowsStay DEF JobsOf, DoneOf

\* The steps that probe, count or analyse.
LEMMA CountCases ==
    ASSUME [Next]_vars
    PROVE  \/ UNCHANGED <<probed, total, analyzed>>
           \/ ExpireCommit
           \/ \E r \in Runs : RunAnalytics(r)
           \/ \E w \in Workers : \/ CommitFinish(w)
                                 \/ \E o \in Outcomes, wrote \in BOOLEAN : Probe(w, o, wrote)
<1>1. CASE UNCHANGED vars
  BY <1>1 DEF vars, db
<1>2. CASE WorkerNext
  BY <1>2 DEF WorkerNext, WorkerStep, TakeJob, StartRead, StartRun, StartRefused,
        SettleRetrying, SettleJob, LockRun, RunFinishedHook, Return, WorkerCrash, WorkerError, db
<1>3. CASE QueueNext
  BY <1>3 DEF QueueNext, ResultExpires, DropJob, PauseChannel, PauseExpires, db
<1>4. CASE ProducerNext
  BY <1>4 DEF ProducerNext, CreateRun, PushProbe, PushLost, Requeue, Age, ExpireHook, TopUp,
        ExpireSelect, SchedulerCrash, ListingChanges, db
<1>5. CASE AnalyticsNext
  BY <1>5 DEF AnalyticsNext, AnalyticsError, AnalyticsCatchUp, AnalyticsResultExpires, db
<1> QED
  BY <1>1, <1>2, <1>3, <1>4, <1>5 DEF Next

LEMMA CountsStep == IInv /\ CountsAreProbed /\ [Next]_vars => CountsAreProbed'
<1> SUFFICES ASSUME IInv, CountsAreProbed, [Next]_vars PROVE CountsAreProbed'
    OBVIOUS
<1>t. TypeOK /\ OneWorkerPerJob /\ JobsHaveRuns
  BY DEF IInv
<1>1. /\ \A r \in Runs : probed[r] \subseteq probed'[r]
      /\ \A r \in Runs : /\ probed'[r] \subseteq JobsOf(r)'
                         /\ total'[r] \subseteq probed'[r] /\ analyzed'[r] \subseteq probed'[r]
  <2> SUFFICES ASSUME NEW r \in Runs
               PROVE  /\ probed[r] \subseteq probed'[r] /\ probed'[r] \subseteq JobsOf(r)'
                      /\ total'[r] \subseteq probed'[r] /\ analyzed'[r] \subseteq probed'[r]
    OBVIOUS
  <2>1. /\ probed[r] \subseteq JobsOf(r)'
        /\ total[r] \subseteq probed[r] /\ analyzed[r] \subseteq probed[r]
    BY JobsGrow DEF CountsAreProbed
  <2>2. CASE UNCHANGED <<probed, total, analyzed>>
    BY <2>1, <2>2
  <2>3. CASE ExpireCommit
    BY <1>t, <2>1, <2>3 DEF ExpireCommit, TypeOK
  <2>4. ASSUME NEW q \in Runs, RunAnalytics(q)
        PROVE  UNCHANGED <<probed, total>> /\ analyzed'[r] \subseteq probed[r]
    BY <1>t, <2>1, <2>4 DEF RunAnalytics, TypeOK
  <2>5. ASSUME NEW w \in Workers, CommitFinish(w)
        PROVE  UNCHANGED <<probed, analyzed>> /\ total'[r] \subseteq probed[r]
    BY <1>t, <2>1, <2>5 DEF CommitFinish, CountsAreProbed, TypeOK
  <2>6. ASSUME NEW w \in Workers, NEW o \in Outcomes, NEW wrote \in BOOLEAN, Probe(w, o, wrote)
        PROVE  /\ UNCHANGED <<total, analyzed>>
               /\ probed[r] \subseteq probed'[r] /\ probed'[r] \subseteq JobsOf(r)'
    <3>1. /\ UNCHANGED <<job, total, analyzed>>
          /\ on[w] \in Tasks /\ job[on[w]] # "none" /\ on[w] = <<on[w][1], on[w][2]>>
          /\ on[w][2] \in Hotels
      BY <1>t, <2>6, TaskParts DEF Probe, OneWorkerPerJob, JobsHaveRuns
    <3>2. on[w][1] = r => on[w][2] \in JobsOf(r)'
      BY <3>1 DEF JobsOf
    <3>3. \/ probed'[r] = probed[r]
          \/ on[w][1] = r /\ probed'[r] = probed[r] \union {on[w][2]}
      BY <1>t, <2>6 DEF Probe, TypeOK
    <3> QED
      BY <2>1, <3>1, <3>2, <3>3
  <2> QED
    BY <2>1, <2>2, <2>3, <2>4, <2>5, <2>6, CountCases
<1>2. ASSUME NEW v \in Workers, pc'[v] = "commit" PROVE tally'[v] \subseteq probed'[on'[v][1]]
  <2>1. CASE LockRun(v)
    <3>1. UNCHANGED <<probed, on>> /\ tally'[v] = probed[on[v][1]]
      BY <1>t, <2>1 DEF LockRun, TypeOK, db
    <3> QED
      BY <3>1
  <2>2. CASE ~ LockRun(v)
    <3>1. pc[v] = "commit" /\ on'[v] = on[v] /\ tally'[v] = tally[v]
      BY <1>2, <2>2, LockedRunWaits
    <3>2. on[v][1] \in Runs
      BY <3>1, BusyHasTask
    <3> QED
      BY <1>1, <3>1, <3>2 DEF CountsAreProbed
  <2> QED
    BY <2>1, <2>2
<1> QED
  BY <1>1, <1>2 DEF CountsAreProbed

\* Whoever decides "partial" under the lock has seen a failed job.
LEMMA PartialReached ==
    ASSUME IInv, NEW w \in Workers, LockRun(w), verdict'[w] = "partial"
    PROVE  \/ out[w] # "done"
           \/ \E o \in Tasks : o[1] = on[w][1] /\ o # on[w] /\ job[o] = "failed"
<1> DEFINE t == on[w]
           r == t[1]
           J == [job EXCEPT ![t] = NewStatus(w)]
<1>1. TypeOK /\ t \in Tasks /\ r \in Runs
  BY BusyHasTask DEF IInv, LockRun
<1>2. FinishVerdict(r, J) = "partial"
  BY <1>1 DEF LockRun, TypeOK
<1>3. PICK h \in Hotels : J[<<r, h>>] = "failed"
  BY <1>2 DEF FinishVerdict
<1>4. <<r, h>> \in Tasks /\ <<r, h>>[1] = r
  BY <1>1 DEF Tasks
<1>5. CASE <<r, h>> = t
  BY <1>1, <1>3, <1>5, SMTT(30) DEF NewStatus, TypeOK
<1>6. CASE <<r, h>> # t
  <2>1. job[<<r, h>>] = "failed"
    BY <1>1, <1>3, <1>4, <1>6 DEF TypeOK
  <2> QED
    BY <1>4, <1>6, <2>1
<1> QED
  BY <1>5, <1>6

LEMMA PartialStep == IInv /\ PartialHolds /\ [Next]_vars => PartialHolds'
<1> SUFFICES ASSUME IInv, PartialHolds, [Next]_vars,
                    NEW v \in Workers, pc'[v] = "commit", verdict'[v] = "partial"
             PROVE  \/ out'[v] # "done"
                    \/ \E o \in Tasks : /\ o[1] = on'[v][1] /\ o # on'[v]
                                        /\ job'[o] \notin {"none", "done"}
    BY DEF PartialHolds
<1>1. CASE LockRun(v)
  <2>1. UNCHANGED <<job, on, out>>
    BY <1>1 DEF LockRun, db
  <2> QED
    BY <1>1, <2>1, PartialReached
<1>2. CASE ~ LockRun(v)
  BY <1>2, LockedRunWaits DEF PartialHolds
<1> QED
  BY <1>1, <1>2

LEMMA RefInvariant == Spec => []RefInv
<1>1. Init => RefInv
  <2>1. Init => CountsAreProbed /\ PartialHolds
    BY DEF Init, CountsAreProbed, PartialHolds
  <2> QED
    BY <2>1, InitInv DEF RefInv
<1>2. RefInv /\ [Next]_vars => RefInv'
  BY StepInv, CountsStep, PartialStep DEF RefInv
<1> QED
  BY <1>1, <1>2, PTL DEF Spec

-----------------------------------------------------------------------------
(* Every step of ScanRun is one of RunLifecycle, or none.                    *)

\* Steps that neither create runs nor analyse them.
LEMMA SettleStep ==
    ASSUME IInv, [Next]_vars, UNCHANGED analyzed,
           \A t \in Tasks : job[t] = "none" => job'[t] = "none",
           \A r \in Runs : \/ run'[r] = run[r] /\ total'[r] = total[r]
                           \/ /\ run[r] = "running" /\ total'[r] \subseteq JobsOf(r)
                              /\ run'[r] = IF DoneOf(r)' = JobsOf(r) THEN "completed" ELSE "partial"
    PROVE  Lifecycle!Settle
<1>1. \A r \in Runs : \A h \in Hotels : <<r, h>> \in Tasks
  BY DEF Tasks
<1>2. \A r \in Runs : JobsOf(r)' = JobsOf(r)
  BY <1>1, RowsStay DEF JobsOf
<1>3. \A r \in Runs : DoneOf(r) \subseteq DoneOf(r)' /\ DoneOf(r)' \subseteq JobsOf(r)
  BY <1>2, JobsGrow
<1> QED
  BY <1>2, <1>3 DEF Lifecycle!Settle, Lifecycle!Closes, Lifecycle!Stays, DoneOf

LEMMA ExpireSettles == RefInv /\ ExpireCommit => Lifecycle!Settle
<1> SUFFICES ASSUME RefInv, ExpireCommit PROVE Lifecycle!Settle
    OBVIOUS
<1>i. /\ IInv /\ TypeOK /\ JobsHaveRuns /\ CountsAreProbed
      /\ [Next]_vars
  BY DEF RefInv, IInv, Next, ProducerNext
<1>1. UNCHANGED analyzed /\ \A t \in Tasks : job[t] = "none" => job'[t] = "none"
  BY <1>i, ExpireEffect DEF Pending
<1>2. ASSUME NEW r \in Runs, ~ (run'[r] = run[r] /\ total'[r] = total[r])
      PROVE  /\ run[r] = "running" /\ total'[r] \subseteq JobsOf(r)
             /\ run'[r] = IF DoneOf(r)' = JobsOf(r) THEN "completed" ELSE "partial"
  <2> DEFINE J == [t \in Tasks |-> IF t[1] \in overdue /\ job[t] \in Pending
                                   THEN "failed" ELSE job[t]]
  <2>1. /\ job' = J /\ r \in overdue /\ FinishVerdict(r, J) # "leave"
        /\ run'[r] = FinishVerdict(r, J) /\ total'[r] = probed[r]
    BY <1>i, <1>2 DEF ExpireCommit, TypeOK
  <2>2. \A h \in Hotels : <<r, h>> \in Tasks
    BY DEF Tasks
  <2>3. run[r] = "running"
    BY <2>1 DEF FinishVerdict
  <2>4. total'[r] \subseteq JobsOf(r)
    BY <1>i, <2>1 DEF CountsAreProbed
  <2>5. JobsOf(r)' = JobsOf(r)
    BY <1>i, <1>1, <2>2, RowsStay DEF JobsOf
  <2>6. CASE FinishVerdict(r, J) = "completed"
    <3>1. \A h \in Hotels : job'[<<r, h>>] \in {"none", "done"}
      BY <1>i, <2>1, <2>2, <2>3, <2>6, ExpireEffect, TaskParts DEF Tasks
    <3>2. DoneOf(r)' = JobsOf(r)'
      BY <3>1 DEF DoneOf, JobsOf
    <3> QED
      BY <2>1, <2>3, <2>4, <2>5, <2>6, <3>2
  <2>7. CASE FinishVerdict(r, J) = "partial"
    <3>1. \E h \in Hotels : job'[<<r, h>>] = "failed"
      BY <2>1, <2>7 DEF FinishVerdict
    <3>2. DoneOf(r)' # JobsOf(r)'
      BY <3>1 DEF DoneOf, JobsOf
    <3> QED
      BY <2>1, <2>3, <2>4, <2>5, <2>7, <3>2
  <2> QED
    BY <2>1, <2>6, <2>7 DEF FinishVerdict
<1> QED
  BY <1>i, <1>1, <1>2, SettleStep

\* A worker's commit closes the run as "completed" exactly if every job is done.
LEMMA WorkerSettles ==
    ASSUME RefInv, NEW w \in Workers, WorkerStep(w) \/ WorkerCrash(w) \/ WorkerError(w)
    PROVE  Lifecycle!Settle
<1>i. /\ IInv /\ TypeOK /\ OneWorkerPerJob /\ JobsHaveRuns /\ VerdictHolds
      /\ CountsAreProbed /\ PartialHolds
      /\ [Next]_vars
  BY DEF RefInv, IInv, Next, WorkerNext
<1>1. /\ on[w] \in Tasks /\ job[on[w]] # "none"
      /\ \A t \in Tasks \ {on[w]} : job'[t] = job[t]
  BY <1>i, WorkerEffect DEF OneWorkerPerJob, JobsHaveRuns
<1>2. UNCHANGED analyzed
  BY DEF WorkerStep, StartRead, StartRun, StartRefused, Probe, SettleRetrying, SettleJob, LockRun,
         CommitFinish, RunFinishedHook, Return, WorkerCrash, WorkerError, db
<1>3. ASSUME NEW r \in Runs, ~ (run'[r] = run[r] /\ total'[r] = total[r])
      PROVE  /\ run[r] = "running" /\ total'[r] \subseteq JobsOf(r)
             /\ run'[r] = IF DoneOf(r)' = JobsOf(r) THEN "completed" ELSE "partial"
  <2>1. /\ CommitFinish(w) /\ pc[w] = "commit"
        /\ r = on[w][1] /\ verdict[w] # "leave" /\ run'[r] = verdict[w]
    BY <1>3, WorkerEffect, <1>i DEF CommitFinish
  <2>2. /\ run[r] = "running" /\ verdict[w] \in {"completed", "partial"}
        /\ verdict[w] = "completed" => /\ out[w] = "done"
                                       /\ \A o \in Tasks : o[1] = r /\ o # on[w] => job[o] \in {"none", "done"}
        /\ verdict[w] = "partial" =>
               \/ out[w] # "done"
               \/ \E o \in Tasks : o[1] = r /\ o # on[w] /\ job[o] \notin {"none", "done"}
    BY <1>i, <2>1 DEF VerdictHolds, PartialHolds
  <2>3. total'[r] = tally[w] /\ tally[w] \subseteq JobsOf(r)
    BY <1>i, <2>1 DEF CommitFinish, CountsAreProbed, TypeOK
  <2>4. job'[on[w]] = NewStatus(w)
    BY <1>i, <1>1, <2>1 DEF CommitFinish, TypeOK
  <2>5. \A h \in Hotels : <<r, h>> \in Tasks /\ <<r, h>>[1] = r
    BY DEF Tasks
  <2>6. JobsOf(r)' = JobsOf(r)
    BY <1>i, <1>1, <2>5, RowsStay DEF JobsOf
  <2>7. CASE verdict[w] = "completed"
    <3>1. \A h \in Hotels : job'[<<r, h>>] \in {"none", "done"}
      BY <1>1, <2>2, <2>4, <2>5, <2>7 DEF NewStatus
    <3>2. DoneOf(r)' = JobsOf(r)'
      BY <3>1 DEF DoneOf, JobsOf
    <3> QED
      BY <2>1, <2>2, <2>3, <2>6, <2>7, <3>2
  <2>8. CASE verdict[w] = "partial"
    <3>1. PICK o \in Tasks : o[1] = r /\ job'[o] \notin {"none", "done"}
      BY <1>1, <2>1, <2>2, <2>4, <2>8 DEF NewStatus
    <3>2. o[2] \in Hotels /\ o = <<r, o[2]>>
      BY <3>1, TaskParts
    <3>3. DoneOf(r)' # JobsOf(r)'
      BY <3>1, <3>2 DEF DoneOf, JobsOf
    <3> QED
      BY <2>1, <2>2, <2>3, <2>6, <2>8, <3>3
  <2> QED
    BY <2>2, <2>7, <2>8
<1> QED
  BY <1>i, <1>1, <1>2, <1>3, SettleStep

LEMMA CreateCreates ==
    ASSUME RefInv, NEW r \in Runs, NEW H \in SUBSET Hotels, CreateRun(r, H)
    PROVE  Lifecycle!Create(r, H)
<1>i. IInv /\ TypeOK
  BY DEF RefInv, IInv
<1>1. \A q \in Runs, h \in Hotels : <<q, h>> \in Tasks /\ <<q, h>>[1] = q
  BY DEF Tasks
<1>2. \A h \in Hotels : job[<<r, h>>] = "none" /\ job'[<<r, h>>] = IF h \in H THEN "queued" ELSE "none"
  BY <1>i, <1>1, CreateEffect DEF CreateRun
<1>3. \A q \in Runs \ {r} : \A h \in Hotels : job'[<<q, h>>] = job[<<q, h>>]
  BY <1>i, <1>1, CreateEffect, ZenonT(60)
<1>4. JobsOf(r)' = H /\ DoneOf(r)' = DoneOf(r)
  BY <1>2 DEF JobsOf, DoneOf
<1>5. \A q \in Runs \ {r} : JobsOf(q)' = JobsOf(q) /\ DoneOf(q)' = DoneOf(q)
  BY <1>3 DEF JobsOf, DoneOf
<1>6. /\ run[r] = "absent" /\ H # {} /\ run' = [run EXCEPT ![r] = "running"]
      /\ UNCHANGED <<total, analyzed>>
  BY DEF CreateRun
<1>7. [q \in Runs |-> JobsOf(q)'] = [[q \in Runs |-> JobsOf(q)] EXCEPT ![r] = H]
  BY <1>4, <1>5
<1>8. [q \in Runs |-> DoneOf(q)'] = [q \in Runs |-> DoneOf(q)]
  BY <1>4, <1>5
<1> QED
  BY <1>6, <1>7, <1>8 DEF Lifecycle!Create, DoneOf

LEMMA LifecycleStep == RefInv /\ [Next]_vars => [Lifecycle!Next]_(Lifecycle!vars)
<1> SUFFICES ASSUME RefInv, [Next]_vars PROVE [Lifecycle!Next]_(Lifecycle!vars)
    OBVIOUS
<1>i. IInv /\ TypeOK /\ AnalyticsOnlyClosed /\ CountsAreProbed
  BY DEF RefInv, IInv
<1>1. ASSUME UNCHANGED <<run, total, job, analyzed>> PROVE UNCHANGED Lifecycle!vars
  BY <1>1 DEF Lifecycle!vars, JobsOf
<1>2. ASSUME NEW r \in Runs, NEW H \in SUBSET Hotels, CreateRun(r, H) PROVE Lifecycle!Next
  BY <1>2, CreateCreates DEF Lifecycle!Next
<1>3. CASE ExpireCommit
  BY <1>3, ExpireSettles DEF Lifecycle!Next
<1>4. ASSUME NEW w \in Workers, WorkerStep(w) \/ WorkerCrash(w) \/ WorkerError(w)
      PROVE  Lifecycle!Next
  BY <1>4, WorkerSettles DEF Lifecycle!Next
<1>5. ASSUME NEW w \in Workers, NEW t \in Tasks, TakeJob(w, t)
      PROVE  UNCHANGED <<run, total, job, analyzed>>
  BY <1>5 DEF TakeJob, db
<1>6. ASSUME NEW r \in Runs, RunAnalytics(r) PROVE Lifecycle!Next
  <2>1. /\ Closed(r) /\ total[r] \union analyzed[r] \subseteq probed[r]
        /\ probed[r] \subseteq JobsOf(r) /\ probed[r] \in SUBSET Hotels
    BY <1>i, <1>6 DEF RunAnalytics, AnalyticsOnlyClosed, CountsAreProbed, TypeOK
  <2>2. UNCHANGED <<run, total, job>> /\ analyzed' = [analyzed EXCEPT ![r] = probed[r]]
    BY <1>6 DEF RunAnalytics
  <2>3. Lifecycle!Analyse(r, probed[r])
    BY <2>1, <2>2 DEF Lifecycle!Analyse, Lifecycle!Closed, Closed, JobsOf
  <2> QED
    BY <2>1, <2>3 DEF Lifecycle!Next
<1>7. \/ UNCHANGED analyzed \/ \E r \in Runs : RunAnalytics(r)
  BY CountCases DEF ExpireCommit, CommitFinish, Probe
<1> QED
  BY <1>1, <1>2, <1>3, <1>4, <1>5, <1>6, <1>7, StepCases

\* The workers, the scheduler, the queue and the analytics job implement what a
\* run promises its readers: created with its hotels, closed once and with the
\* truth, and only then analysed, with every hotel that was counted.
THEOREM RunsKeepTheirPromise == Spec => ImplementsLifecycle
<1>1. Init => Lifecycle!Init
  <2>1. Init => \A r \in Runs : JobsOf(r) = {} /\ DoneOf(r) = {}
    BY DEF Init, JobsOf, DoneOf, Tasks
  <2> QED
    BY <2>1 DEF Init, Lifecycle!Init, DoneOf
<1> QED
  BY <1>1, LifecycleStep, RefInvariant, PTL DEF Spec, ImplementsLifecycle, Lifecycle!Spec

=============================================================================

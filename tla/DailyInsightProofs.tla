------------------------- MODULE DailyInsightProofs -------------------------
(***************************************************************************)
(* Theorems about the insights of a tenant (DailyInsight.tla), for any     *)
(* slots, callers, numbers of tries and allowed failures.                  *)
(***************************************************************************)
EXTENDS DailyInsight, FiniteSetTheorems, WellFoundedInduction, TLAPS

InsightRows == [id : 1..MaxRows, daily : BOOLEAN, day : Days,
                status : Settled \cup {"pending", "batch_pending"}, old : BOOLEAN]
Tasks == [at : {"none", "queued", "executing", "kept"}, tries : Nat, wrote : BOOLEAN]
Calls == [pc : {"call", "done"}, day : Days, row : 1..MaxRows, job : InsightJobs]

Types ==
    /\ insights \subseteq InsightRows /\ IsFiniteSet(insights)
    /\ ijob \in [InsightJobs -> Tasks] /\ islot \in [InsightSlots -> Calls \cup {FreeInsightSlot}]
    /\ caller \in [Callers -> -1..MaxRows] /\ today \in Days
    /\ late \in BOOLEAN /\ again \in BOOLEAN

-----------------------------------------------------------------------------
(* Rows: whose they are.                                                     *)

OneRowEach == \A x, y \in insights : x.id = y.id => x = y
RequestsPend == \A x \in insights : x.status = "pending" => ~x.daily
\* The row a call waits with is there.
AskedRow(c) == caller[c] > 0 => \E x \in insights : x.id = caller[c] /\ ~x.daily
\* A job works on no daily row that is there, and a daily job on one that nobody
\* else has.
OwnRow(s) ==
    islot[s].pc = "call" =>
        /\ \A x \in insights : x.id = islot[s].row => ~x.daily /\ ~islot[s].job.daily
        /\ \A t \in InsightSlots \ {s} : islot[s].job.daily => islot[t].row # islot[s].row

RowsInv ==
    /\ OneRowEach /\ RequestsPend
    /\ \A c \in Callers : AskedRow(c)
    /\ \A s \in InsightSlots : OwnRow(s)

-----------------------------------------------------------------------------
(* Jobs: what has been written by whom.                                      *)

\* Arq gives a job to one slot.
OneSlotEach ==
    /\ \A s \in InsightSlots : islot[s].pc # "free" => ijob[islot[s].job].at = "executing"
    /\ \A s, t \in InsightSlots :
          islot[s].pc # "free" /\ islot[t].pc # "free" /\ islot[s].job = islot[t].job => s = t
    /\ \A s \in InsightSlots : islot[s].pc = "done" => ijob[islot[s].job].wrote
PushedInTime == \A j \in DailyJobs : ijob[j].at # "none" => j.day <= today

Good(d) == Daily(d, {"completed", "batch_pending"})
Failed(d) == Daily(d, {"failed"})

\* The job under way of a day has the number of its failures, and nothing else
\* has been made: there is one job at most.
ToWrite(j) == ijob[j].at \in {"queued", "executing"} /\ ~ijob[j].wrote
OneAttempt == \A j \in DailyJobs : ToWrite(j) => Good(j.day) = {} /\ j.n = Cardinality(Failed(j.day))
WroteRow == \A j \in DailyJobs : ijob[j].wrote => Good(j.day) # {} \/ Failed(j.day) # {}
InItsDay ==
    \A s \in InsightSlots : islot[s].pc = "call" /\ islot[s].job.daily =>
        ~ijob[islot[s].job].wrote /\ islot[s].day = islot[s].job.day
Counts ==
    \A d \in Days : /\ Cardinality(Good(d)) <= 1 /\ Cardinality(Failed(d)) <= MaxDailyFailures
                    /\ Good(d) # {} => Cardinality(Failed(d)) < MaxDailyFailures

Clean == ~late /\ ~again
JobsInv ==
    /\ OneSlotEach /\ PushedInTime
    /\ Clean => OneAttempt /\ WroteRow /\ InItsDay /\ Counts

InsightInv == Types /\ RowsInv /\ JobsInv

-----------------------------------------------------------------------------
(* The operators.                                                            *)

LEMMA Bounds ==
    /\ MaxDailyFailures \in Nat /\ MaxDailyFailures > 0 /\ MaxRows \in Nat /\ MaxRows > 0
    /\ InsightTries \in Nat /\ LastDay \in Nat
BY InsightBounds

\* A set of numbers that is not empty has a least one.
LEMMA LeastElement ==
    ASSUME NEW S \in SUBSET Nat, S # {}
    PROVE  \E x \in S : \A y \in S : x <= y
<1> DEFINE R == OpToRel(<, Nat)
<1>1. R = {ss \in Nat \X Nat : ss[1] < ss[2]}
  BY DEF OpToRel
<1>2. IsWellFoundedOn(R, Nat)
  BY NatLessThanWellFounded, Zenon
<1> HIDE DEF R
<1>3. PICK x \in S : \A y \in S : <<y, x>> \notin R
  BY <1>2, WFMin, Zenon
<1>4. \A y \in S : <<y, x>> \in Nat \X Nat /\ <<y, x>>[1] = y /\ <<y, x>>[2] = x
  OBVIOUS
<1>5. \A y \in S : ~ (y < x)
  BY <1>1, <1>3, <1>4
<1> QED
  BY <1>5

LEMMA FreeIs ==
    /\ FreeInsightSlot.pc = "free" /\ FreeInsightSlot.row = 0
    /\ NotPushed \in Tasks /\ NotPushed.at = "none" /\ NotPushed.wrote = FALSE
BY DEF FreeInsightSlot, NotPushed, Tasks

LEMMA Shapes ==
    ASSUME Types
    PROVE  /\ \A x \in insights : /\ x \in InsightRows /\ x.id \in 1..MaxRows /\ x.daily \in BOOLEAN
                                  /\ x.day \in Days
           /\ IsFiniteSet(insights)
           /\ ijob \in [InsightJobs -> Tasks]
           /\ \A s \in InsightSlots :
                 /\ islot[s].pc # "free" =>
                      /\ islot[s] \in Calls /\ islot[s].pc \in {"call", "done"}
                      /\ islot[s].job \in InsightJobs /\ islot[s].day \in Days /\ islot[s].row \in 1..MaxRows
                 /\ islot[s].pc = "free" => islot[s] = FreeInsightSlot
                 /\ islot[s].row \in 0..MaxRows
           /\ islot \in [InsightSlots -> Calls \cup {FreeInsightSlot}]
           /\ caller \in [Callers -> -1..MaxRows] /\ today \in Days
<1>1. \A x \in insights : x \in InsightRows /\ x.id \in 1..MaxRows /\ x.daily \in BOOLEAN /\ x.day \in Days
  BY DEF Types, InsightRows
<1>2. ASSUME NEW s \in InsightSlots
      PROVE  /\ islot[s].pc # "free" =>
                  /\ islot[s] \in Calls /\ islot[s].pc \in {"call", "done"}
                  /\ islot[s].job \in InsightJobs /\ islot[s].day \in Days /\ islot[s].row \in 1..MaxRows
             /\ islot[s].pc = "free" => islot[s] = FreeInsightSlot
             /\ islot[s].row \in 0..MaxRows
  <2>1. islot[s] \in Calls \/ islot[s] = FreeInsightSlot
    BY DEF Types
  <2>2. CASE islot[s] \in Calls
    BY <2>2, Bounds DEF Calls
  <2>3. CASE islot[s] = FreeInsightSlot
    BY <2>3, FreeIs, Bounds
  <2> QED
    BY <2>1, <2>2, <2>3
<1> QED
  BY <1>1, <1>2 DEF Types

\* A new row takes an id nobody has.
LEMMA NextIdIs ==
    ASSUME Types
    PROVE  /\ NextId \in 1..(MaxRows + 1)
           /\ \A x \in insights : x.id # NextId
           /\ \A s \in InsightSlots : islot[s].row # NextId
<1> DEFINE Free == {i \in 1..(MaxRows + 1) : i \notin UsedIds}
<1>1. \A i \in UsedIds : i \in 0..MaxRows
  BY Shapes, Bounds DEF UsedIds
<1>2. MaxRows + 1 \in Free
  BY <1>1, Bounds
<1>3. Free \in SUBSET Nat /\ Free # {}
  BY <1>2, Bounds
<1> HIDE DEF Free
<1>4. PICK k \in Free : \A y \in Free : k <= y
  BY <1>3, LeastElement
<1>5. k \in 1..(MaxRows + 1) /\ k \notin UsedIds
  BY <1>4 DEF Free
<1>6. 1..(k - 1) \subseteq UsedIds
  <2>1. ASSUME NEW y \in 1..(k - 1), y \notin UsedIds PROVE FALSE
    <3>1. y \in Free
      BY <1>5, <2>1, Bounds DEF Free
    <3>2. k <= y
      BY <1>4, <3>1
    <3> QED
      BY <1>5, <2>1, <3>2, Bounds
  <2> QED
    BY <2>1
<1>7. \E id \in 1..(MaxRows + 1) : id \notin UsedIds /\ 1..(id - 1) \subseteq UsedIds
  BY <1>5, <1>6
<1>8. NextId \in 1..(MaxRows + 1) /\ NextId \notin UsedIds
  BY <1>7 DEF NextId
<1> QED
  BY <1>8 DEF UsedIds

LEMMA DailyIs ==
    ASSUME IsFiniteSet(insights), NEW d, NEW S
    PROVE  /\ IsFiniteSet(Daily(d, S)) /\ Cardinality(Daily(d, S)) \in Nat
           /\ Cardinality(Daily(d, S)) = 0 <=> Daily(d, S) = {}
<1>1. Daily(d, S) \in SUBSET insights
  BY DEF Daily
<1>2. IsFiniteSet(Daily(d, S))
  BY <1>1, FS_Subset
<1> QED
  BY <1>2, FS_CardinalityType, FS_EmptySet

LEMMA NewTypes ==
    ASSUME insights' \subseteq InsightRows, IsFiniteSet(insights'), ijob' \in [InsightJobs -> Tasks],
           islot' \in [InsightSlots -> Calls \cup {FreeInsightSlot}],
           caller' \in [Callers -> -1..MaxRows], today' \in Days, late' \in BOOLEAN, again' \in BOOLEAN
    PROVE  Types'
BY DEF Types, InsightRows, Days, Settled, InsightJobs, DailyJobs, RequestJobs, Tasks, Calls, FreeInsightSlot

LEMMA JobsOf ==
    /\ \A j \in InsightJobs : j.daily \in BOOLEAN /\ j.day \in Days
    /\ \A j \in InsightJobs : j.daily <=> j \in DailyJobs
    /\ \A j \in DailyJobs : j \in InsightJobs /\ j.day \in Days /\ j.n \in 0..(MaxDailyFailures - 1)
    /\ \A j, k \in DailyJobs : j.day = k.day /\ j.n = k.n => j = k
    /\ \A d \in Days, n \in 0..(MaxDailyFailures - 1) : [daily |-> TRUE, day |-> d, n |-> n] \in DailyJobs
    /\ \A n \in 1..MaxRows : /\ [daily |-> FALSE, day |-> 0, n |-> n] \in InsightJobs
                             /\ [daily |-> FALSE, day |-> 0, n |-> n] \notin DailyJobs
<1>1. 0 \in Days
  BY Bounds DEF Days
<1>2. \A j \in DailyJobs : j.daily = TRUE /\ j.day \in Days /\ j.n \in 0..(MaxDailyFailures - 1)
  BY DEF DailyJobs
<1>3. \A j \in RequestJobs : j.daily = FALSE /\ j.day \in Days
  BY <1>1 DEF RequestJobs
<1>4. ASSUME NEW j \in DailyJobs, NEW k \in DailyJobs, j.day = k.day, j.n = k.n PROVE j = k
  <2>1. /\ j = [daily |-> j.daily, day |-> j.day, n |-> j.n]
        /\ k = [daily |-> k.daily, day |-> k.day, n |-> k.n]
    BY DEF DailyJobs
  <2> QED
    BY <1>2, <1>4, <2>1
<1>5. \A d \in Days, n \in 0..(MaxDailyFailures - 1) : [daily |-> TRUE, day |-> d, n |-> n] \in DailyJobs
  BY DEF DailyJobs
<1>6. \A n \in 1..MaxRows : [daily |-> FALSE, day |-> 0, n |-> n] \in RequestJobs
  BY DEF RequestJobs
<1> QED
  BY <1>2, <1>3, <1>4, <1>5, <1>6 DEF InsightJobs

\* What a step does to the record of one job.
LEMMA JobMoves ==
    ASSUME Types, NEW j \in InsightJobs, NEW a \in {"none", "queued", "executing", "kept"},
           NEW f, f = [ijob EXCEPT ![j].at = a]
    PROVE  /\ f \in [InsightJobs -> Tasks]
           /\ f[j].at = a /\ f[j].wrote = ijob[j].wrote
           /\ \A k \in InsightJobs \ {j} : f[k] = ijob[k]
<1>1. ijob[j] \in Tasks /\ ijob \in [InsightJobs -> Tasks]
  BY DEF Types
<1>2. [ijob[j] EXCEPT !.at = a] \in Tasks
  BY <1>1 DEF Tasks
<1>3. /\ [ijob[j] EXCEPT !.at = a].at = a
      /\ [ijob[j] EXCEPT !.at = a].wrote = ijob[j].wrote
  BY <1>1 DEF Tasks
<1> QED
  BY <1>1, <1>2, <1>3

LEMMA JobStarts ==
    ASSUME Types, NEW j \in InsightJobs, NEW f,
           f = [ijob EXCEPT ![j].at = "executing", ![j].tries = @ + 1]
    PROVE  /\ f \in [InsightJobs -> Tasks]
           /\ f[j].at = "executing" /\ f[j].wrote = ijob[j].wrote
           /\ \A k \in InsightJobs \ {j} : f[k] = ijob[k]
<1>1. ijob[j] \in Tasks /\ ijob \in [InsightJobs -> Tasks]
  BY DEF Types
<1> DEFINE r == [ijob[j] EXCEPT !.at = "executing", !.tries = @ + 1]
<1>2. /\ r.at = "executing" /\ r.wrote = ijob[j].wrote /\ r \in Tasks
  BY <1>1 DEF Tasks
<1>3. f = [ijob EXCEPT ![j] = r]
  BY <1>1
<1> HIDE DEF r
<1> QED
  BY <1>1, <1>2, <1>3

LEMMA JobWrites ==
    ASSUME Types, NEW j \in InsightJobs, NEW f,
           f = [ijob EXCEPT ![j].wrote = TRUE]
    PROVE  /\ f \in [InsightJobs -> Tasks]
           /\ f[j].at = ijob[j].at /\ f[j].wrote
           /\ \A k \in InsightJobs \ {j} : f[k] = ijob[k]
<1>1. ijob[j] \in Tasks /\ ijob \in [InsightJobs -> Tasks]
  BY DEF Types
<1>2. [ijob[j] EXCEPT !.wrote = TRUE] \in Tasks
  BY <1>1 DEF Tasks
<1>3. /\ [ijob[j] EXCEPT !.wrote = TRUE].at = ijob[j].at
      /\ [ijob[j] EXCEPT !.wrote = TRUE].wrote
  BY <1>1 DEF Tasks
<1> QED
  BY <1>1, <1>2, <1>3

\* A job is pushed when Redis knows none of its id.
LEMMA Pushes ==
    ASSUME Types, NEW j \in InsightJobs, NEW f, f = PushInsight(j)
    PROVE  /\ f \in [InsightJobs -> Tasks]
           /\ f[j].wrote = ijob[j].wrote /\ f[j].at # "none"
           /\ ijob[j].at # "none" => f[j].at = ijob[j].at
           /\ \A k \in InsightJobs \ {j} : f[k] = ijob[k]
<1>1. CASE ijob[j].at = "none"
  <2>1. f = [ijob EXCEPT ![j].at = "queued"]
    BY <1>1 DEF PushInsight
  <2> DEFINE r == [ijob[j] EXCEPT !.at = "queued"]
  <2>2. ijob[j] \in Tasks /\ ijob \in [InsightJobs -> Tasks]
    BY DEF Types
  <2>3. r \in Tasks /\ r.at = "queued" /\ r.wrote = ijob[j].wrote
    BY <2>2 DEF Tasks
  <2>4. f = [ijob EXCEPT ![j] = r]
    BY <2>1
  <2> HIDE DEF r
  <2> QED
    BY <1>1, <2>2, <2>3, <2>4
<1>2. CASE ijob[j].at # "none"
  <2>1. f = ijob
    BY <1>2 DEF PushInsight
  <2> QED
    BY <1>2, <2>1, Shapes
<1> QED
  BY <1>1, <1>2

\* What the requests do to the rows: some of those that pend fail.
LEMMA RowsFail ==
    ASSUME insights \subseteq InsightRows, IsFiniteSet(insights), NEW B,
           NEW F, F = {IF x \in B THEN [x EXCEPT !.status = "failed"] ELSE x : x \in insights}
    PROVE  F \subseteq InsightRows /\ IsFiniteSet(F)
<1>1. \A x \in InsightRows : [x EXCEPT !.status = "failed"] \in InsightRows
  BY DEF InsightRows, Settled
<1>2. F \subseteq InsightRows
  BY <1>1
<1> DEFINE f == [x \in insights |-> IF x \in B THEN [x EXCEPT !.status = "failed"] ELSE x]
<1>3. f \in Surjection(insights, F)
  BY DEF Surjection
<1>4. IsFiniteSet(F)
  BY <1>3, FS_Surjection
<1> QED
  BY <1>2, <1>4

-----------------------------------------------------------------------------
(* Types.                                                                    *)

LEMMA InitTypes == InsightInit => Types
<1> SUFFICES ASSUME InsightInit PROVE Types
  OBVIOUS
<1>1. IsFiniteSet(insights) /\ insights \subseteq InsightRows
  BY FS_EmptySet DEF InsightInit
<1>2. today \in Days
  BY Bounds DEF InsightInit, Days
<1>3. ijob \in [InsightJobs -> Tasks] /\ caller \in [Callers -> -1..MaxRows]
  BY FreeIs, Bounds DEF InsightInit
<1> QED
  BY <1>1, <1>2, <1>3 DEF InsightInit, Types

\* A job's slot and the row it works on.
LEMMA StartIs ==
    ASSUME Types, NEW s \in InsightSlots, NEW j \in InsightJobs, StartInsight(s, j)
    PROVE  \E id \in 1..MaxRows :
              /\ islot' = [islot EXCEPT ![s] = [pc |-> "call", day |-> today, row |-> id, job |-> j]]
              /\ \/ (\A x \in insights : x.id # id) /\ (\A t \in InsightSlots : islot[t].row # id)
                 \/ ~j.daily /\ \E x \in insights : x.id = id /\ x.status = "pending"
<1> DEFINE asked == {x \in Row(j.n) : ~j.daily /\ x.status = "pending"}
           id == IF asked # {} THEN j.n ELSE NextId
<1>1. id <= MaxRows /\ islot' = [islot EXCEPT ![s] = [pc |-> "call", day |-> today, row |-> id, job |-> j]]
  BY DEF StartInsight
<1>2. CASE asked = {}
  <2>1. id = NextId
    BY <1>2
  <2> HIDE DEF id, asked
  <2>2. id \in 1..MaxRows
    BY <1>1, <2>1, NextIdIs, Bounds
  <2> QED
    BY <1>1, <2>1, <2>2, NextIdIs
<1>3. CASE asked # {}
  <2>1. id = j.n
    BY <1>3
  <2>2. PICK x \in insights : x.id = j.n /\ ~j.daily /\ x.status = "pending"
    BY <1>3 DEF Row
  <2> HIDE DEF id, asked
  <2>3. id \in 1..MaxRows
    BY <2>1, <2>2, Shapes
  <2> QED
    BY <1>1, <2>1, <2>2, <2>3
<1> QED
  BY <1>2, <1>3

\* A row written by a job.
LEMMA RowWritten ==
    ASSUME Types, NEW s \in InsightSlots, NEW st \in {"completed", "batch_pending", "failed"},
           CommitInsight(s, st)
    PROVE  \E r \in InsightRows :
              /\ insights' = (insights \ Row(islot[s].row)) \cup {r}
              /\ r.id = islot[s].row /\ r.daily = islot[s].job.daily /\ r.day = islot[s].day
              /\ r.status = st
<1> DEFINE r == [id |-> islot[s].row, daily |-> islot[s].job.daily, day |-> islot[s].day,
                 status |-> st, old |-> FALSE]
<1>1. islot[s].pc # "free"
  BY DEF CommitInsight
<1>2. islot[s].row \in 1..MaxRows /\ islot[s].job \in InsightJobs /\ islot[s].day \in Days
  BY <1>1, Shapes, Zenon
<1>3. r \in InsightRows
  BY <1>2, JobsOf DEF InsightRows, Settled
<1>4. insights' = (insights \ Row(islot[s].row)) \cup {r}
  BY DEF CommitInsight, Written
<1>5. r.id = islot[s].row /\ r.daily = islot[s].job.daily /\ r.day = islot[s].day /\ r.status = st
  OBVIOUS
<1> HIDE DEF r
<1> QED
  BY <1>3, <1>4, <1>5

\* A polled batch.
LEMMA RowPolled ==
    ASSUME Types, NEW id, NEW st, PollBatch(id, st)
    PROVE  \E x \in insights, y \in InsightRows :
              /\ insights' = (insights \ {x}) \cup {y}
              /\ y.id = x.id /\ y.daily = x.daily /\ y.day = x.day /\ y.status = st
              /\ x.status = "batch_pending" /\ st \in {"completed", "failed"}
<1>1. PICK x \in insights : /\ x.status = "batch_pending"
                            /\ insights' = (insights \ {x}) \cup {[x EXCEPT !.status = st]}
  BY DEF PollBatch, Row
<1>2. st \in {"completed", "failed"}
  BY DEF PollBatch, Settled
<1> DEFINE y == [x EXCEPT !.status = st]
<1>3. y \in InsightRows /\ y.id = x.id /\ y.daily = x.daily /\ y.day = x.day /\ y.status = st
  <2>1. x \in InsightRows
    BY Shapes
  <2> QED
    BY <1>2, <2>1 DEF InsightRows, Settled
<1>4. insights' = (insights \ {x}) \cup {y}
  BY <1>1
<1> HIDE DEF y
<1> QED
  BY <1>1, <1>2, <1>3, <1>4

\* A row that has pended for ten minutes.
LEMMA RowOld ==
    ASSUME Types, NEW x \in insights, RowGrowsOld(x)
    PROVE  \E y \in InsightRows :
              /\ insights' = (insights \ {x}) \cup {y}
              /\ y.id = x.id /\ y.daily = x.daily /\ y.day = x.day
              /\ x.status = "pending" /\ y.status = "pending"
<1> DEFINE y == [x EXCEPT !.old = TRUE]
<1>1. x \in InsightRows
  BY Shapes
<1>2. insights' = (insights \ {x}) \cup {y} /\ x.status = "pending"
  BY DEF RowGrowsOld
<1>3. y \in InsightRows /\ y.id = x.id /\ y.daily = x.daily /\ y.day = x.day /\ y.status = x.status
  BY <1>1 DEF InsightRows
<1> HIDE DEF y
<1> QED
  BY <1>2, <1>3

\* A request's row.
LEMMA RowAdded ==
    ASSUME Types, NEW c \in Callers, AddRequest(c)
    PROVE  \E r \in InsightRows :
              /\ insights' = insights \cup {r} /\ r.id = NextId /\ ~r.daily /\ r.status = "pending"
              /\ NextId \in 1..MaxRows /\ caller' = [caller EXCEPT ![c] = NextId]
<1> DEFINE r == [id |-> NextId, daily |-> FALSE, day |-> today, status |-> "pending", old |-> FALSE]
<1>1. NextId <= MaxRows /\ insights' = insights \cup {r} /\ caller' = [caller EXCEPT ![c] = NextId]
  BY DEF AddRequest
<1>2. NextId \in 1..MaxRows
  BY <1>1, NextIdIs, Bounds
<1>3. r \in InsightRows /\ r.id = NextId /\ ~r.daily /\ r.status = "pending"
  BY <1>2, Shapes DEF InsightRows
<1> HIDE DEF r
<1> QED
  BY <1>1, <1>2, <1>3

\* Requests that fail keep their row.
LEMMA RowsFailed ==
    ASSUME Types, NEW c \in Callers, AskInsight(c) \/ (PushRequest(c) /\ insights' # insights)
    PROVE  \E B \in SUBSET insights :
              /\ insights' = {IF x \in B THEN [x EXCEPT !.status = "failed"] ELSE x : x \in insights}
              /\ AskInsight(c) => \A x \in B : x.status = "pending"
              /\ PushRequest(c) => \A x \in B : x.id = caller[c]
              /\ AskInsight(c) \/ PushRequest(c)
<1>1. CASE AskInsight(c)
  <2> DEFINE B == {x \in insights : x.status = "pending" /\ x.old}
  <2>1. insights' = {IF x \in B THEN [x EXCEPT !.status = "failed"] ELSE x : x \in insights}
    BY <1>1 DEF AskInsight, TimedOut
  <2>2. caller[c] = 0
    BY <1>1 DEF AskInsight
  <2>3. ~PushRequest(c)
    BY <2>2 DEF PushRequest
  <2>4. B \in SUBSET insights /\ \A x \in B : x.status = "pending"
    OBVIOUS
  <2> HIDE DEF B
  <2> QED
    BY <1>1, <2>1, <2>3, <2>4
<1>2. CASE PushRequest(c) /\ insights' # insights
  <2> DEFINE B == {x \in insights : x.id = caller[c]}
  <2>1. insights' = {IF x \in B THEN [x EXCEPT !.status = "failed"] ELSE x : x \in insights}
    BY <1>2 DEF PushRequest
  <2>2. caller[c] > 0
    BY <1>2 DEF PushRequest
  <2>3. ~AskInsight(c)
    BY <2>2 DEF AskInsight
  <2>4. B \in SUBSET insights /\ \A x \in B : x.id = caller[c]
    OBVIOUS
  <2> HIDE DEF B
  <2> QED
    BY <1>2, <2>1, <2>3, <2>4
<1> QED
  BY <1>1, <1>2

\* Requests fail no daily row.
LEMMA OnlyAsked ==
    ASSUME Types, RowsInv, NEW c \in Callers, AskInsight(c) \/ (PushRequest(c) /\ insights' # insights)
    PROVE  \E B \in SUBSET insights :
              /\ insights' = {IF x \in B THEN [x EXCEPT !.status = "failed"] ELSE x : x \in insights}
              /\ \A x \in B : ~x.daily
<1>1. PICK B \in SUBSET insights :
              /\ insights' = {IF x \in B THEN [x EXCEPT !.status = "failed"] ELSE x : x \in insights}
              /\ AskInsight(c) => \A x \in B : x.status = "pending"
              /\ PushRequest(c) => \A x \in B : x.id = caller[c]
              /\ AskInsight(c) \/ PushRequest(c)
  BY RowsFailed
<1>2. CASE AskInsight(c)
  BY <1>1, <1>2 DEF RowsInv, RequestsPend
<1>3. CASE PushRequest(c)
  <2>1. caller[c] > 0
    BY <1>3 DEF PushRequest
  <2>2. PICK r \in insights : r.id = caller[c] /\ ~r.daily
    BY <2>1 DEF RowsInv, AskedRow
  <2>3. \A x \in B : x = r
    BY <1>1, <1>3, <2>2 DEF RowsInv, OneRowEach
  <2> QED
    BY <1>1, <2>2, <2>3
<1> QED
  BY <1>1, <1>2, <1>3

LEMMA SlotTypes ==
    ASSUME Types, NEW s \in InsightSlots
    PROVE  /\ [islot EXCEPT ![s] = FreeInsightSlot] \in [InsightSlots -> Calls \cup {FreeInsightSlot}]
           /\ islot[s].pc # "free" =>
                 [islot EXCEPT ![s].pc = "done"] \in [InsightSlots -> Calls \cup {FreeInsightSlot}]
<1>1. islot \in [InsightSlots -> Calls \cup {FreeInsightSlot}]
  BY DEF Types
<1>2. ASSUME islot[s].pc # "free"
      PROVE  [islot EXCEPT ![s].pc = "done"] \in [InsightSlots -> Calls \cup {FreeInsightSlot}]
  <2>1. islot[s] \in Calls
    BY <1>2, Shapes
  <2>2. [islot[s] EXCEPT !.pc = "done"] \in Calls
    BY <2>1 DEF Calls
  <2> QED
    BY <1>1, <2>2
<1> QED
  BY <1>1, <1>2

LEMMA SameTypes ==
    ASSUME Types
    PROVE  /\ insights \subseteq InsightRows /\ IsFiniteSet(insights) /\ ijob \in [InsightJobs -> Tasks]
           /\ islot \in [InsightSlots -> Calls \cup {FreeInsightSlot}]
           /\ caller \in [Callers -> -1..MaxRows] /\ today \in Days
           /\ late \in BOOLEAN /\ again \in BOOLEAN
BY DEF Types

LEMMA OneRowChanges ==
    ASSUME Types, NEW A, NEW r \in InsightRows
    PROVE  (insights \ A) \cup {r} \subseteq InsightRows /\ IsFiniteSet((insights \ A) \cup {r})
<1>1. insights \ A \subseteq InsightRows /\ insights \ A \subseteq insights /\ IsFiniteSet(insights)
  BY DEF Types
<1>2. IsFiniteSet(insights \ A)
  BY <1>1, FS_Subset
<1>3. IsFiniteSet((insights \ A) \cup {r})
  BY <1>2, FS_AddElement
<1> QED
  BY <1>1, <1>3

\* The steps of a slot.
LEMMA SlotStepTypes ==
    ASSUME Types, NEW s \in InsightSlots,
           InsightSlotStep(s) \/ InsightStops(s) \/ CommitInsight(s, "failed")
    PROVE  Types'
<1>1. ASSUME NEW j \in InsightJobs, SkipInsight(s, j) PROVE Types'
  <2>1. ijob' \in [InsightJobs -> Tasks]
    BY <1>1, JobMoves DEF SkipInsight
  <2> QED
    BY <1>1, <2>1, NewTypes, SameTypes DEF SkipInsight
<1>2. ASSUME NEW j \in InsightJobs, StartInsight(s, j) PROVE Types'
  <2>1. ijob' = [ijob EXCEPT ![j].at = "executing", ![j].tries = @ + 1]
    BY <1>2 DEF StartInsight
  <2>2. ijob' \in [InsightJobs -> Tasks]
    BY <2>1, JobStarts, Zenon
  <2>3. PICK id \in 1..MaxRows :
           islot' = [islot EXCEPT ![s] = [pc |-> "call", day |-> today, row |-> id, job |-> j]]
    BY <1>2, StartIs
  <2>4. [pc |-> "call", day |-> today, row |-> id, job |-> j] \in Calls
    BY SameTypes DEF Calls
  <2>5. islot' \in [InsightSlots -> Calls \cup {FreeInsightSlot}]
    BY <2>3, <2>4, SameTypes
  <2>6. late' \in BOOLEAN /\ again' \in BOOLEAN
    BY <1>2, SameTypes DEF StartInsight
  <2>7. UNCHANGED <<insights, caller, today>>
    BY <1>2 DEF StartInsight
  <2> QED
    BY <2>2, <2>5, <2>6, <2>7, NewTypes, SameTypes
<1>3. ASSUME NEW st \in {"completed", "batch_pending", "failed"}, CommitInsight(s, st) PROVE Types'
  <2>1. islot[s].pc # "free" /\ islot[s].job \in InsightJobs
    BY <1>3, Shapes DEF CommitInsight
  <2>2. PICK r \in InsightRows : insights' = (insights \ Row(islot[s].row)) \cup {r}
    BY <1>3, RowWritten
  <2>3. insights' \subseteq InsightRows /\ IsFiniteSet(insights')
    BY <2>2, OneRowChanges
  <2>4. ijob' = [ijob EXCEPT ![islot[s].job].wrote = TRUE]
    BY <1>3 DEF CommitInsight
  <2>5. ijob' \in [InsightJobs -> Tasks]
    BY <2>1, <2>4, JobWrites, Zenon
  <2>6. islot' \in [InsightSlots -> Calls \cup {FreeInsightSlot}]
    BY <1>3, <2>1, SlotTypes DEF CommitInsight
  <2>7. UNCHANGED <<caller, today, late, again>>
    BY <1>3 DEF CommitInsight
  <2> QED
    BY <2>3, <2>5, <2>6, <2>7, NewTypes, SameTypes
<1>4. ASSUME EndInsight(s) PROVE Types'
  <2>1. islot[s].job \in InsightJobs
    BY <1>4, Shapes DEF EndInsight
  <2>2. ijob' = [ijob EXCEPT ![islot[s].job].at = "kept"]
    BY <1>4 DEF EndInsight
  <2>3. ijob' \in [InsightJobs -> Tasks]
    BY <2>1, <2>2, JobMoves
  <2>4. islot' \in [InsightSlots -> Calls \cup {FreeInsightSlot}]
    BY <1>4, SlotTypes DEF EndInsight
  <2> QED
    BY <1>4, <2>3, <2>4, NewTypes, SameTypes DEF EndInsight
<1>5. ASSUME InsightStops(s) PROVE Types'
  <2>1. islot[s].job \in InsightJobs
    BY <1>5, Shapes DEF InsightStops
  <2>2. PICK a \in {"none", "queued", "executing", "kept"} : ijob' = [ijob EXCEPT ![islot[s].job].at = a]
    BY <1>5 DEF InsightStops
  <2>3. ijob' \in [InsightJobs -> Tasks]
    BY <2>1, <2>2, JobMoves
  <2>4. islot' \in [InsightSlots -> Calls \cup {FreeInsightSlot}]
    BY <1>5, SlotTypes DEF InsightStops
  <2> QED
    BY <1>5, <2>3, <2>4, NewTypes, SameTypes DEF InsightStops
<1> QED
  BY <1>1, <1>2, <1>3, <1>4, <1>5 DEF InsightSlotStep

\* The steps of a call of the API.
LEMMA CallTypes ==
    ASSUME Types, NEW c \in Callers, AskInsight(c) \/ AddRequest(c) \/ PushRequest(c)
    PROVE  Types'
<1>1. CASE AskInsight(c)
  <2>1. insights' \subseteq InsightRows /\ IsFiniteSet(insights')
    BY <1>1, RowsFailed, RowsFail, SameTypes
  <2>2. caller' \in [Callers -> -1..MaxRows]
    BY <1>1, SameTypes, Bounds DEF AskInsight
  <2> QED
    BY <1>1, <2>1, <2>2, NewTypes, SameTypes DEF AskInsight
<1>2. CASE AddRequest(c)
  <2>1. PICK r \in InsightRows : /\ insights' = insights \cup {r}
                                 /\ NextId \in 1..MaxRows /\ caller' = [caller EXCEPT ![c] = NextId]
    BY <1>2, RowAdded
  <2>2. insights' = (insights \ {}) \cup {r}
    BY <2>1
  <2>3. insights' \subseteq InsightRows /\ IsFiniteSet(insights')
    BY <2>2, OneRowChanges
  <2>4. caller' \in [Callers -> -1..MaxRows]
    BY <2>1, SameTypes
  <2> QED
    BY <1>2, <2>3, <2>4, NewTypes, SameTypes DEF AddRequest
<1>3. CASE PushRequest(c)
  <2>1. insights' \subseteq InsightRows /\ IsFiniteSet(insights')
    <3>1. CASE insights' = insights
      BY <3>1, SameTypes
    <3>2. CASE insights' # insights
      BY <1>3, <3>2, RowsFailed, RowsFail, SameTypes
    <3> QED
      BY <3>1, <3>2
  <2>2. caller' \in [Callers -> -1..MaxRows]
    BY <1>3, SameTypes, Bounds DEF PushRequest
  <2>3. caller[c] \in 1..MaxRows
    BY <1>3, SameTypes, Bounds DEF PushRequest
  <2>4. [daily |-> FALSE, day |-> 0, n |-> caller[c]] \in InsightJobs
    BY <2>3, JobsOf
  <2>5. ijob' \in [InsightJobs -> Tasks]
    BY <1>3, <2>4, Pushes, SameTypes DEF PushRequest
  <2> QED
    BY <1>3, <2>1, <2>2, <2>5, NewTypes, SameTypes DEF PushRequest
<1> QED
  BY <1>1, <1>2, <1>3

LEMMA DispatchIs ==
    ASSUME Types, DispatchDaily
    PROVE  \E j \in DailyJobs : /\ j.day = today /\ j.n = Cardinality(Failed(today)) /\ ijob[j].at = "none"
                                /\ ijob' = PushInsight(j) /\ Good(today) = {}
                                /\ UNCHANGED <<insights, islot, caller, today, late, again>>
<1> DEFINE j == [daily |-> TRUE, day |-> today, n |-> Cardinality(Failed(today))]
<1>1. /\ Cardinality(Failed(today)) < MaxDailyFailures /\ ijob[j].at = "none" /\ ijob' = PushInsight(j)
      /\ ~Made(today) /\ UNCHANGED <<insights, islot, caller, today, late, again>>
  BY DEF DispatchDaily, Failed
<1>2. Cardinality(Failed(today)) \in Nat
  BY DailyIs, SameTypes DEF Failed
<1>3. Cardinality(Failed(today)) \in 0..(MaxDailyFailures - 1)
  BY <1>1, <1>2, Bounds
<1>4. j \in DailyJobs
  BY <1>3, JobsOf, SameTypes
<1>5. j.day = today /\ j.n = Cardinality(Failed(today))
  OBVIOUS
<1>6. Good(today) = {}
  BY <1>1 DEF Good, Made, Daily
<1> HIDE DEF j
<1> QED
  BY <1>1, <1>4, <1>5, <1>6

LEMMA TypesStep ==
    ASSUME Types, InsightNext
    PROVE  Types'
<1>1. CASE DispatchDaily
  <2>1. PICK j \in DailyJobs : ijob' = PushInsight(j) /\ UNCHANGED <<insights, islot, caller, today, late, again>>
    BY <1>1, DispatchIs
  <2>2. ijob' \in [InsightJobs -> Tasks]
    BY <2>1, JobsOf, Pushes
  <2> QED
    BY <2>1, <2>2, NewTypes, SameTypes
<1>2. ASSUME NEW id \in store, NEW st, PollBatch(id, st) PROVE Types'
  <2>1. PICK x \in insights, y \in InsightRows : insights' = (insights \ {x}) \cup {y}
    BY <1>2, RowPolled
  <2>2. insights' \subseteq InsightRows /\ IsFiniteSet(insights')
    BY <2>1, OneRowChanges
  <2> QED
    BY <1>2, <2>2, NewTypes, SameTypes DEF PollBatch
<1>3. CASE HourComes
  BY <1>3, NewTypes, SameTypes DEF HourComes
<1>4. CASE Midnight
  <2>1. today' \in Days
    BY <1>4, SameTypes, Bounds DEF Midnight, Days
  <2> QED
    BY <1>4, <2>1, NewTypes, SameTypes DEF Midnight
<1>5. ASSUME NEW s \in InsightSlots, InsightSlotStep(s) \/ InsightStops(s) \/ CommitInsight(s, "failed")
      PROVE  Types'
  BY <1>5, SlotStepTypes
<1>6. ASSUME NEW j \in InsightJobs, ForgetInsightJob(j) PROVE Types'
  <2>1. ijob' \in [InsightJobs -> Tasks]
    BY <1>6, FreeIs, SameTypes DEF ForgetInsightJob
  <2> QED
    BY <1>6, <2>1, NewTypes, SameTypes DEF ForgetInsightJob
<1>7. ASSUME NEW id \in store, StoreLoses(id) PROVE Types'
  BY <1>7, NewTypes, SameTypes DEF StoreLoses
<1>8. ASSUME NEW c \in Callers, AskInsight(c) \/ AddRequest(c) \/ PushRequest(c) PROVE Types'
  BY <1>8, CallTypes
<1>9. ASSUME NEW x \in insights, RowGrowsOld(x) PROVE Types'
  <2>1. PICK y \in InsightRows : insights' = (insights \ {x}) \cup {y}
    BY <1>9, RowOld
  <2>2. insights' \subseteq InsightRows /\ IsFiniteSet(insights')
    BY <2>1, OneRowChanges
  <2> QED
    BY <1>9, <2>2, NewTypes, SameTypes DEF RowGrowsOld
<1> QED
  BY <1>1, <1>2, <1>3, <1>4, <1>5, <1>6, <1>7, <1>8, <1>9 DEF InsightNext, Polls

-----------------------------------------------------------------------------
(* Whose the rows are.                                                       *)

\* A step that leaves the rows, and gives no slot another row or job.
LEMMA SameRows ==
    ASSUME RowsInv, insights' = insights,
           \A c \in Callers : caller'[c] > 0 => caller'[c] = caller[c],
           \A s \in InsightSlots :
              \/ islot'[s].row = islot[s].row /\ islot'[s].job = islot[s].job
                 /\ (islot'[s].pc = "call" => islot[s].pc = "call")
              \/ islot'[s] = FreeInsightSlot,
           \A s \in InsightSlots : islot[s].pc = "call" => islot[s].row > 0
    PROVE  RowsInv'
<1>1. OneRowEach' /\ RequestsPend'
  BY DEF RowsInv, OneRowEach, RequestsPend
<1>2. ASSUME NEW c \in Callers PROVE AskedRow(c)'
  BY DEF RowsInv, AskedRow
<1>3. ASSUME NEW s \in InsightSlots PROVE OwnRow(s)'
  <2> SUFFICES ASSUME islot'[s].pc = "call"
               PROVE  /\ \A x \in insights' : x.id = islot'[s].row => ~x.daily /\ ~islot'[s].job.daily
                      /\ \A t \in InsightSlots \ {s} : islot'[s].job.daily => islot'[t].row # islot'[s].row
    BY DEF OwnRow
  <2>1. islot'[s].row = islot[s].row /\ islot'[s].job = islot[s].job /\ islot[s].pc = "call"
    BY FreeIs
  <2>2. /\ \A x \in insights : x.id = islot[s].row => ~x.daily /\ ~islot[s].job.daily
        /\ \A t \in InsightSlots \ {s} : islot[s].job.daily => islot[t].row # islot[s].row
    BY <2>1 DEF RowsInv, OwnRow
  <2>3. \A t \in InsightSlots : islot'[t].row = islot[t].row \/ islot'[t].row = 0
    BY FreeIs
  <2>4. islot[s].row # 0
    BY <2>1
  <2> QED
    BY <2>1, <2>2, <2>3, <2>4
<1> QED
  BY <1>1, <1>2, <1>3 DEF RowsInv

\* Rows change, and keep whose they are.
LEMMA RowsKept ==
    ASSUME RowsInv, islot' = islot,
           \A c \in Callers : caller'[c] > 0 => caller'[c] = caller[c],
           \A y \in insights' : \E x \in insights : x.id = y.id /\ x.daily = y.daily,
           \A x \in insights : \E y \in insights' : x.id = y.id /\ x.daily = y.daily,
           OneRowEach', RequestsPend'
    PROVE  RowsInv'
<1>1. ASSUME NEW c \in Callers PROVE AskedRow(c)'
  BY DEF RowsInv, AskedRow
<1>2. ASSUME NEW s \in InsightSlots PROVE OwnRow(s)'
  BY DEF RowsInv, OwnRow
<1> QED
  BY <1>1, <1>2 DEF RowsInv

LEMMA RowsOfStart ==
    ASSUME Types, RowsInv, NEW s \in InsightSlots, NEW j \in InsightJobs, StartInsight(s, j)
    PROVE  RowsInv'
<1>1. PICK id \in 1..MaxRows :
          /\ islot' = [islot EXCEPT ![s] = [pc |-> "call", day |-> today, row |-> id, job |-> j]]
          /\ \/ (\A x \in insights : x.id # id) /\ (\A t \in InsightSlots : islot[t].row # id)
             \/ ~j.daily /\ \E x \in insights : x.id = id /\ x.status = "pending"
  BY StartIs
<1>2. insights' = insights /\ caller' = caller
  BY DEF StartInsight
<1>3. islot'[s].row = id /\ islot'[s].job = j
  BY <1>1, SameTypes
<1>4. \A t \in InsightSlots \ {s} : islot'[t] = islot[t]
  BY <1>1, SameTypes
<1>5. OneRowEach' /\ RequestsPend'
  BY <1>2 DEF RowsInv, OneRowEach, RequestsPend
<1>6. \A c \in Callers : AskedRow(c)'
  BY <1>2 DEF RowsInv, AskedRow
<1>7. CASE (\A x \in insights : x.id # id) /\ (\A t \in InsightSlots : islot[t].row # id)
  <2>1. OwnRow(s)'
    BY <1>2, <1>3, <1>4, <1>7 DEF OwnRow
  <2>2. ASSUME NEW t \in InsightSlots \ {s} PROVE OwnRow(t)'
    <3>1. OwnRow(t) /\ islot[t].row # id
      BY <1>7 DEF RowsInv
    <3> QED
      BY <1>2, <1>3, <1>4, <3>1 DEF OwnRow
  <2> QED
    BY <1>5, <1>6, <2>1, <2>2 DEF RowsInv
<1>8. CASE ~j.daily /\ \E x \in insights : x.id = id /\ x.status = "pending"
  <2>1. PICK x \in insights : x.id = id /\ ~x.daily
    BY <1>8 DEF RowsInv, RequestsPend
  <2>2. \A y \in insights : y.id = id => ~y.daily
    BY <2>1 DEF RowsInv, OneRowEach
  <2>3. OwnRow(s)'
    BY <1>2, <1>3, <1>8, <2>2 DEF OwnRow
  <2>4. ASSUME NEW t \in InsightSlots \ {s} PROVE OwnRow(t)'
    <3>1. OwnRow(t)
      BY DEF RowsInv
    <3>2. islot[t].pc = "call" => (islot[t].job.daily => islot[t].row # id)
      BY <2>1, <3>1 DEF OwnRow
    <3> QED
      BY <1>2, <1>3, <1>4, <3>1, <3>2 DEF OwnRow
  <2> QED
    BY <1>5, <1>6, <2>3, <2>4 DEF RowsInv
<1> QED
  BY <1>1, <1>7, <1>8

LEMMA RowsOfCommit ==
    ASSUME Types, RowsInv, NEW s \in InsightSlots, NEW st \in {"completed", "batch_pending", "failed"},
           CommitInsight(s, st)
    PROVE  RowsInv'
<1>1. PICK r \in InsightRows :
          /\ insights' = (insights \ Row(islot[s].row)) \cup {r}
          /\ r.id = islot[s].row /\ r.daily = islot[s].job.daily /\ r.day = islot[s].day
          /\ r.status = st
  BY RowWritten
<1>2. islot[s].pc = "call" /\ islot' = [islot EXCEPT ![s].pc = "done"] /\ caller' = caller
  BY DEF CommitInsight
<1>3. \A t \in InsightSlots : islot'[t].row = islot[t].row /\ islot'[t].job = islot[t].job
  <2>1. islot[s] \in Calls
    BY <1>2, Shapes
  <2>2. [islot[s] EXCEPT !.pc = "done"].row = islot[s].row /\ [islot[s] EXCEPT !.pc = "done"].job = islot[s].job
    BY <2>1 DEF Calls
  <2> QED
    BY <1>2, <2>2, SameTypes
<1>4. islot'[s].pc = "done" /\ \A t \in InsightSlots \ {s} : islot'[t] = islot[t]
  <2>1. islot[s] \in Calls
    BY <1>2, Shapes
  <2> QED
    BY <1>2, <2>1, SameTypes DEF Calls
<1>5. OwnRow(s)
  BY DEF RowsInv
<1>6. \A x \in insights' : x = r \/ (x \in insights /\ x.id # r.id)
  BY <1>1 DEF Row
<1>7. \A x \in insights : x.id # r.id => x \in insights'
  BY <1>1 DEF Row
<1>8. OneRowEach'
  BY <1>6 DEF OneRowEach, RowsInv
<1>9. RequestsPend'
  BY <1>1, <1>6 DEF RequestsPend, RowsInv
<1>10. ASSUME NEW c \in Callers PROVE AskedRow(c)'
  <2> SUFFICES ASSUME caller[c] > 0 PROVE \E x \in insights' : x.id = caller[c] /\ ~x.daily
    BY <1>2 DEF AskedRow
  <2>1. PICK x \in insights : x.id = caller[c] /\ ~x.daily
    BY DEF RowsInv, AskedRow
  <2>2. CASE x.id = r.id
    <3>1. ~r.daily /\ r \in insights'
      BY <1>1, <1>2, <1>5, <2>2 DEF OwnRow
    <3> QED
      BY <2>1, <2>2, <3>1
  <2> QED
    BY <1>7, <2>1, <2>2
<1>11. OwnRow(s)'
  BY <1>4 DEF OwnRow
<1>12. ASSUME NEW t \in InsightSlots \ {s} PROVE OwnRow(t)'
  <2> SUFFICES ASSUME islot[t].pc = "call"
               PROVE  /\ \A x \in insights' : x.id = islot[t].row => ~x.daily /\ ~islot[t].job.daily
                      /\ \A u \in InsightSlots \ {t} : islot[t].job.daily => islot[u].row # islot[t].row
    BY <1>3, <1>4 DEF OwnRow
  <2>1. /\ \A x \in insights : x.id = islot[t].row => ~x.daily /\ ~islot[t].job.daily
        /\ \A u \in InsightSlots \ {t} : islot[t].job.daily => islot[u].row # islot[t].row
    BY DEF RowsInv, OwnRow
  <2>2. islot[s].job.daily => islot[t].row # islot[s].row
    BY <1>2, <1>5 DEF OwnRow
  <2>3. r.id = islot[t].row => ~r.daily /\ ~islot[t].job.daily
    BY <1>1, <2>1, <2>2
  <2> QED
    BY <1>6, <2>1, <2>3
<1> QED
  BY <1>8, <1>9, <1>10, <1>11, <1>12 DEF RowsInv

LEMMA RowsOfAdd ==
    ASSUME Types, RowsInv, NEW c \in Callers, AddRequest(c)
    PROVE  RowsInv'
<1>1. PICK r \in InsightRows :
          /\ insights' = insights \cup {r} /\ r.id = NextId /\ ~r.daily /\ r.status = "pending"
          /\ NextId \in 1..MaxRows /\ caller' = [caller EXCEPT ![c] = NextId]
  BY RowAdded
<1>2. islot' = islot
  BY DEF AddRequest
<1>3. (\A x \in insights : x.id # r.id) /\ (\A s \in InsightSlots : islot[s].row # r.id)
  BY <1>1, NextIdIs
<1>4. OneRowEach' /\ RequestsPend'
  BY <1>1, <1>3 DEF OneRowEach, RequestsPend, RowsInv
<1>5. ASSUME NEW d \in Callers PROVE AskedRow(d)'
  <2>1. CASE d = c
    <3>1. caller'[d] = r.id /\ r \in insights'
      BY <1>1, <2>1, SameTypes
    <3> QED
      BY <1>1, <3>1 DEF AskedRow
  <2>2. CASE d # c
    <3>1. caller'[d] = caller[d] /\ insights \subseteq insights'
      BY <1>1, <2>2, SameTypes
    <3> QED
      BY <3>1 DEF AskedRow, RowsInv
  <2> QED
    BY <2>1, <2>2
<1>6. ASSUME NEW s \in InsightSlots PROVE OwnRow(s)'
  <2>1. OwnRow(s)
    BY DEF RowsInv
  <2> QED
    BY <1>1, <1>2, <1>3, <2>1 DEF OwnRow
<1> QED
  BY <1>4, <1>5, <1>6 DEF RowsInv

\* Some requests fail.
LEMMA RowsOfFailed ==
    ASSUME Types, RowsInv, NEW c \in Callers, AskInsight(c) \/ (PushRequest(c) /\ insights' # insights)
    PROVE  RowsInv'
<1>1. PICK B \in SUBSET insights :
          /\ insights' = {IF x \in B THEN [x EXCEPT !.status = "failed"] ELSE x : x \in insights}
          /\ \A x \in B : ~x.daily
  BY OnlyAsked
<1>2. \A x \in InsightRows : LET y == [x EXCEPT !.status = "failed"]
                             IN y.id = x.id /\ y.daily = x.daily /\ y.status = "failed"
  BY DEF InsightRows
<1>3. \A x \in insights : x \in InsightRows
  BY Shapes
<1> DEFINE G(x) == IF x \in B THEN [x EXCEPT !.status = "failed"] ELSE x
<1>4. ASSUME NEW x \in insights
      PROVE  G(x).id = x.id /\ G(x).daily = x.daily /\ (G(x).status = "pending" => x.status = "pending")
  <2>1. CASE x \in B
    BY <1>2, <1>3, <2>1
  <2>2. CASE x \notin B
    BY <2>2
  <2> QED
    BY <2>1, <2>2
<1>5. insights' = {G(x) : x \in insights}
  BY <1>1
<1> HIDE DEF G
<1>6. OneRowEach'
  BY <1>4, <1>5 DEF OneRowEach, RowsInv
<1>7. RequestsPend'
  BY <1>4, <1>5 DEF RequestsPend, RowsInv
<1>8. \A y \in insights' : \E x \in insights : x.id = y.id /\ x.daily = y.daily
  BY <1>4, <1>5
<1>9. \A x \in insights : \E y \in insights' : x.id = y.id /\ x.daily = y.daily
  BY <1>4, <1>5
<1>10. islot' = islot
  BY DEF AskInsight, PushRequest
<1>11. \A d \in Callers : caller'[d] > 0 => caller'[d] = caller[d]
  BY SameTypes DEF AskInsight, PushRequest
<1> QED
  BY <1>6, <1>7, <1>8, <1>9, <1>10, <1>11, RowsKept

\* One row is replaced by one of the same id.
LEMMA RowsOfOne ==
    ASSUME Types, RowsInv, NEW x \in insights, NEW y \in InsightRows, insights' = (insights \ {x}) \cup {y},
           y.id = x.id, y.daily = x.daily, y.status = "pending" => x.status = "pending",
           islot' = islot, caller' = caller
    PROVE  RowsInv'
<1>1. OneRowEach'
  BY DEF OneRowEach, RowsInv
<1>2. RequestsPend'
  BY DEF RequestsPend, RowsInv
<1>3. \A z \in insights' : \E w \in insights : w.id = z.id /\ w.daily = z.daily
  OBVIOUS
<1>4. \A z \in insights : \E w \in insights' : z.id = w.id /\ z.daily = w.daily
  OBVIOUS
<1> QED
  BY <1>1, <1>2, <1>3, <1>4, RowsKept

LEMMA RowsStep ==
    ASSUME Types, RowsInv, InsightNext
    PROVE  RowsInv'
<1>a. \A s \in InsightSlots : islot[s].pc = "call" => islot[s].row > 0
  BY Shapes, Bounds
<1>b. ASSUME UNCHANGED <<insights, caller, islot>> PROVE RowsInv'
  BY <1>a, <1>b, SameRows
<1>c. ASSUME NEW s \in InsightSlots, islot' = [islot EXCEPT ![s] = FreeInsightSlot],
             UNCHANGED <<insights, caller>>
      PROVE  RowsInv'
  <2>1. \A t \in InsightSlots : islot'[t] = islot[t] \/ islot'[t] = FreeInsightSlot
    BY <1>c, SameTypes
  <2> QED
    BY <1>a, <1>c, <2>1, SameRows
<1>1. CASE DispatchDaily \/ HourComes \/ Midnight
  BY <1>1, <1>b DEF DispatchDaily, HourComes, Midnight
<1>2. ASSUME NEW id \in store, NEW st, PollBatch(id, st) PROVE RowsInv'
  <2>1. PICK x \in insights, y \in InsightRows :
              /\ insights' = (insights \ {x}) \cup {y}
              /\ y.id = x.id /\ y.daily = x.daily /\ y.day = x.day /\ y.status = st
              /\ x.status = "batch_pending" /\ st \in {"completed", "failed"}
    BY <1>2, RowPolled
  <2>2. islot' = islot /\ caller' = caller
    BY <1>2 DEF PollBatch
  <2> QED
    BY <2>1, <2>2, RowsOfOne
<1>3. ASSUME NEW s \in InsightSlots, InsightSlotStep(s) \/ InsightStops(s) \/ CommitInsight(s, "failed")
      PROVE  RowsInv'
  <2>1. ASSUME NEW j \in InsightJobs, SkipInsight(s, j) PROVE RowsInv'
    BY <2>1, <1>b DEF SkipInsight
  <2>2. ASSUME NEW j \in InsightJobs, StartInsight(s, j) PROVE RowsInv'
    BY <2>2, RowsOfStart
  <2>3. ASSUME NEW st \in {"completed", "batch_pending", "failed"}, CommitInsight(s, st) PROVE RowsInv'
    BY <2>3, RowsOfCommit
  <2>4. CASE EndInsight(s)
    BY <2>4, <1>c DEF EndInsight
  <2>5. CASE InsightStops(s)
    BY <2>5, <1>c DEF InsightStops
  <2> QED
    BY <1>3, <2>1, <2>2, <2>3, <2>4, <2>5 DEF InsightSlotStep
<1>4. ASSUME NEW j \in InsightJobs, ForgetInsightJob(j) PROVE RowsInv'
  BY <1>4, <1>b DEF ForgetInsightJob
<1>5. ASSUME NEW id \in store, StoreLoses(id) PROVE RowsInv'
  BY <1>5, <1>b DEF StoreLoses
<1>6. ASSUME NEW c \in Callers, AskInsight(c) \/ AddRequest(c) \/ PushRequest(c) PROVE RowsInv'
  <2>1. CASE AskInsight(c) \/ (PushRequest(c) /\ insights' # insights)
    BY <2>1, RowsOfFailed
  <2>2. CASE AddRequest(c)
    BY <2>2, RowsOfAdd
  <2>3. CASE PushRequest(c) /\ insights' = insights
    <3>1. \A d \in Callers : caller'[d] > 0 => caller'[d] = caller[d]
      BY <2>3, SameTypes DEF PushRequest
    <3>2. islot' = islot
      BY <2>3 DEF PushRequest
    <3> QED
      BY <1>a, <2>3, <3>1, <3>2, SameRows
  <2> QED
    BY <1>6, <2>1, <2>2, <2>3
<1>7. ASSUME NEW x \in insights, RowGrowsOld(x) PROVE RowsInv'
  <2>1. PICK y \in InsightRows :
              /\ insights' = (insights \ {x}) \cup {y}
              /\ y.id = x.id /\ y.daily = x.daily /\ y.day = x.day
              /\ x.status = "pending" /\ y.status = "pending"
    BY <1>7, RowOld
  <2>2. islot' = islot /\ caller' = caller
    BY <1>7 DEF RowGrowsOld
  <2> QED
    BY <2>1, <2>2, RowsOfOne
<1> QED
  BY <1>1, <1>2, <1>3, <1>4, <1>5, <1>6, <1>7 DEF InsightNext, Polls

-----------------------------------------------------------------------------
(* Who executes a job.                                                       *)

LEMMA SlotsOf ==
    ASSUME Types, OneSlotEach, NEW s \in InsightSlots, islot[s].pc # "free"
    PROVE  /\ islot[s].job \in InsightJobs /\ ijob[islot[s].job].at = "executing"
           /\ \A t \in InsightSlots \ {s} : islot[t].pc # "free" => islot[t].job # islot[s].job
BY Shapes DEF OneSlotEach

LEMMA SlotFree ==
    ASSUME Types, NEW s \in InsightSlots, islot' = [islot EXCEPT ![s] = FreeInsightSlot]
    PROVE  islot'[s].pc = "free" /\ \A t \in InsightSlots \ {s} : islot'[t] = islot[t]
BY SameTypes, FreeIs

LEMMA SlotDone ==
    ASSUME Types, NEW s \in InsightSlots, islot[s].pc # "free", islot' = [islot EXCEPT ![s].pc = "done"]
    PROVE  /\ islot'[s].pc = "done" /\ islot'[s].job = islot[s].job
           /\ \A t \in InsightSlots \ {s} : islot'[t] = islot[t]
<1>1. islot[s] \in Calls
  BY Shapes
<1>2. [islot[s] EXCEPT !.pc = "done"].pc = "done" /\ [islot[s] EXCEPT !.pc = "done"].job = islot[s].job
  BY <1>1 DEF Calls
<1> QED
  BY <1>2, SameTypes

LEMMA SlotStarts ==
    ASSUME Types, NEW s \in InsightSlots, NEW j, NEW id,
           islot' = [islot EXCEPT ![s] = [pc |-> "call", day |-> today, row |-> id, job |-> j]]
    PROVE  /\ islot'[s].pc = "call" /\ islot'[s].job = j /\ islot'[s].day = today
           /\ \A t \in InsightSlots \ {s} : islot'[t] = islot[t]
<1>1. islot'[s] = [pc |-> "call", day |-> today, row |-> id, job |-> j]
  BY SameTypes
<1>2. \A t \in InsightSlots \ {s} : islot'[t] = islot[t]
  BY SameTypes
<1> QED
  BY <1>1, <1>2

\* The slots stay, a job that none of them executes moves.
LEMMA OtherJobMoves ==
    ASSUME Types, OneSlotEach, NEW j \in InsightJobs, islot' = islot, ijob[j].at # "executing",
           \A k \in InsightJobs \ {j} : ijob'[k] = ijob[k]
    PROVE  OneSlotEach'
<1>1. ASSUME NEW s \in InsightSlots, islot[s].pc # "free"
      PROVE  islot[s].job \in InsightJobs /\ islot[s].job # j
  BY <1>1, SlotsOf
<1> QED
  BY <1>1 DEF OneSlotEach

\* A slot lets go of its job.
LEMMA SlotLetsGo ==
    ASSUME Types, OneSlotEach, NEW s \in InsightSlots, islot[s].pc # "free",
           islot' = [islot EXCEPT ![s] = FreeInsightSlot],
           \A k \in InsightJobs \ {islot[s].job} : ijob'[k] = ijob[k]
    PROVE  OneSlotEach'
<1>1. islot'[s].pc = "free" /\ \A t \in InsightSlots \ {s} : islot'[t] = islot[t]
  BY SlotFree
<1>2. ASSUME NEW t \in InsightSlots, islot'[t].pc # "free"
      PROVE  /\ t # s /\ islot[t].pc # "free" /\ islot'[t] = islot[t]
             /\ ijob'[islot[t].job] = ijob[islot[t].job]
  BY <1>1, <1>2, SlotsOf
<1> QED
  BY <1>2 DEF OneSlotEach

LEMMA StopIs ==
    ASSUME Types, NEW s \in InsightSlots, EndInsight(s) \/ InsightStops(s)
    PROVE  /\ islot[s].pc # "free" /\ islot[s].job \in InsightJobs
           /\ islot' = [islot EXCEPT ![s] = FreeInsightSlot]
           /\ ijob'[islot[s].job].at \in {"queued", "kept"}
           /\ ijob'[islot[s].job].wrote = ijob[islot[s].job].wrote
           /\ \A k \in InsightJobs \ {islot[s].job} : ijob'[k] = ijob[k]
           /\ UNCHANGED <<insights, caller, today, late, again>>
<1>1. islot[s].pc # "free" /\ islot' = [islot EXCEPT ![s] = FreeInsightSlot]
      /\ UNCHANGED <<insights, caller, today, late, again>>
  BY DEF EndInsight, InsightStops
<1>2. islot[s].job \in InsightJobs
  BY <1>1, Shapes
<1>3. PICK a \in {"queued", "kept"} : ijob' = [ijob EXCEPT ![islot[s].job].at = a]
  BY DEF EndInsight, InsightStops
<1>4. a \in {"none", "queued", "executing", "kept"}
  BY <1>3
<1>5. /\ ijob'[islot[s].job].at = a /\ ijob'[islot[s].job].wrote = ijob[islot[s].job].wrote
      /\ \A k \in InsightJobs \ {islot[s].job} : ijob'[k] = ijob[k]
  BY <1>2, <1>3, <1>4, JobMoves
<1> QED
  BY <1>1, <1>2, <1>3, <1>5

LEMMA StartJob ==
    ASSUME Types, NEW s \in InsightSlots, NEW j \in InsightJobs, StartInsight(s, j)
    PROVE  /\ islot[s].pc = "free" /\ ijob[j].at = "queued" /\ ~AlreadyDone(j)
           /\ islot'[s].pc = "call" /\ islot'[s].job = j /\ islot'[s].day = today
           /\ \A t \in InsightSlots \ {s} : islot'[t] = islot[t]
           /\ ijob'[j].at = "executing" /\ ijob'[j].wrote = ijob[j].wrote
           /\ \A k \in InsightJobs \ {j} : ijob'[k] = ijob[k]
           /\ late' = (late \/ (j.daily /\ j.day < today))
           /\ again' = (again \/ (ijob[j].wrote /\ Failed(j.day) # {}))
           /\ UNCHANGED <<insights, today>>
<1>1. PICK id \in 1..MaxRows :
          islot' = [islot EXCEPT ![s] = [pc |-> "call", day |-> today, row |-> id, job |-> j]]
  BY StartIs
<1>2. ijob' = [ijob EXCEPT ![j].at = "executing", ![j].tries = @ + 1]
  BY DEF StartInsight
<1>3. /\ ijob'[j].at = "executing" /\ ijob'[j].wrote = ijob[j].wrote
      /\ \A k \in InsightJobs \ {j} : ijob'[k] = ijob[k]
  BY <1>2, JobStarts, Zenon
<1>4. /\ islot'[s].pc = "call" /\ islot'[s].job = j /\ islot'[s].day = today
      /\ \A t \in InsightSlots \ {s} : islot'[t] = islot[t]
  BY <1>1, SlotStarts
<1>5. /\ islot[s].pc = "free" /\ ijob[j].at = "queued" /\ ~AlreadyDone(j) /\ UNCHANGED <<insights, today>>
      /\ late' = (late \/ (j.daily /\ j.day < today))
      /\ again' = (again \/ (ijob[j].wrote /\ Failed(j.day) # {}))
  BY DEF StartInsight, Failed
<1> QED
  BY <1>3, <1>4, <1>5

LEMMA CommitJob ==
    ASSUME Types, NEW s \in InsightSlots, NEW st \in {"completed", "batch_pending", "failed"},
           CommitInsight(s, st)
    PROVE  /\ islot[s].pc = "call" /\ islot[s].job \in InsightJobs
           /\ islot'[s].pc = "done" /\ islot'[s].job = islot[s].job
           /\ \A t \in InsightSlots \ {s} : islot'[t] = islot[t]
           /\ ijob'[islot[s].job].at = ijob[islot[s].job].at /\ ijob'[islot[s].job].wrote
           /\ \A k \in InsightJobs \ {islot[s].job} : ijob'[k] = ijob[k]
           /\ UNCHANGED <<caller, today, late, again>>
<1>1. islot[s].pc = "call" /\ islot' = [islot EXCEPT ![s].pc = "done"]
      /\ UNCHANGED <<caller, today, late, again>>
  BY DEF CommitInsight
<1>2. islot[s].job \in InsightJobs
  BY <1>1, Shapes
<1>3. ijob' = [ijob EXCEPT ![islot[s].job].wrote = TRUE]
  BY DEF CommitInsight
<1>4. /\ ijob'[islot[s].job].at = ijob[islot[s].job].at /\ ijob'[islot[s].job].wrote
      /\ \A k \in InsightJobs \ {islot[s].job} : ijob'[k] = ijob[k]
  BY <1>2, <1>3, JobWrites, Zenon
<1>5. /\ islot'[s].pc = "done" /\ islot'[s].job = islot[s].job
      /\ \A t \in InsightSlots \ {s} : islot'[t] = islot[t]
  BY <1>1, SlotDone
<1> QED
  BY <1>1, <1>2, <1>4, <1>5

\* A job that is free to move: queued again, kept, forgotten or pushed.
LEMMA PushIs ==
    ASSUME Types, NEW c \in Callers, PushRequest(c)
    PROVE  /\ \A j \in DailyJobs : ijob'[j] = ijob[j]
           /\ \E j \in InsightJobs : /\ \A k \in InsightJobs \ {j} : ijob'[k] = ijob[k]
                                     /\ ijob[j].at # "none" => ijob'[j].at = ijob[j].at
                                     /\ ijob'[j].wrote = ijob[j].wrote
<1>1. caller[c] \in 1..MaxRows
  BY SameTypes, Bounds DEF PushRequest
<1> DEFINE j == [daily |-> FALSE, day |-> 0, n |-> caller[c]]
<1>2. j \in InsightJobs /\ j \notin DailyJobs
  BY <1>1, JobsOf
<1>3. ijob' = PushInsight(j) \/ ijob' = ijob
  BY DEF PushRequest
<1> HIDE DEF j
<1>4. CASE ijob' = PushInsight(j)
  <2>1. /\ ijob'[j].wrote = ijob[j].wrote /\ (ijob[j].at # "none" => ijob'[j].at = ijob[j].at)
        /\ \A k \in InsightJobs \ {j} : ijob'[k] = ijob[k]
    BY <1>2, <1>4, Pushes
  <2> QED
    BY <1>2, <2>1, JobsOf
<1>5. CASE ijob' = ijob
  BY <1>2, <1>5
<1> QED
  BY <1>3, <1>4, <1>5

LEMMA SlotsStep ==
    ASSUME Types, OneSlotEach, InsightNext
    PROVE  OneSlotEach'
<1>a. ASSUME UNCHANGED <<ijob, islot>> PROVE OneSlotEach'
  BY <1>a DEF OneSlotEach
<1>1. CASE DispatchDaily
  <2>1. PICK j \in DailyJobs : ijob[j].at = "none" /\ ijob' = PushInsight(j) /\ islot' = islot
    BY <1>1, DispatchIs
  <2>2. \A k \in InsightJobs \ {j} : ijob'[k] = ijob[k]
    BY <2>1, JobsOf, Pushes
  <2> QED
    BY <2>1, <2>2, JobsOf, OtherJobMoves
<1>2. CASE HourComes \/ Midnight
  BY <1>2, <1>a DEF HourComes, Midnight
<1>3. ASSUME NEW id \in store, NEW st, PollBatch(id, st) PROVE OneSlotEach'
  BY <1>3, <1>a DEF PollBatch
<1>4. ASSUME NEW s \in InsightSlots, InsightSlotStep(s) \/ InsightStops(s) \/ CommitInsight(s, "failed")
      PROVE  OneSlotEach'
  <2>1. ASSUME NEW j \in InsightJobs, SkipInsight(s, j) PROVE OneSlotEach'
    <3>1. \A k \in InsightJobs \ {j} : ijob'[k] = ijob[k]
      BY <2>1, JobMoves DEF SkipInsight
    <3>2. islot' = islot /\ ijob[j].at # "executing"
      BY <2>1 DEF SkipInsight
    <3> QED
      BY <3>1, <3>2, OtherJobMoves
  <2>2. ASSUME NEW j \in InsightJobs, StartInsight(s, j) PROVE OneSlotEach'
    <3>1. /\ ijob[j].at = "queued" /\ islot'[s].pc = "call" /\ islot'[s].job = j
          /\ \A t \in InsightSlots \ {s} : islot'[t] = islot[t]
          /\ ijob'[j].at = "executing" /\ \A k \in InsightJobs \ {j} : ijob'[k] = ijob[k]
      BY <2>2, StartJob
    <3>2. ASSUME NEW t \in InsightSlots, islot[t].pc # "free"
          PROVE  islot[t].job \in InsightJobs /\ islot[t].job # j
      BY <3>1, <3>2, SlotsOf
    <3> QED
      BY <3>1, <3>2 DEF OneSlotEach
  <2>3. ASSUME NEW st \in {"completed", "batch_pending", "failed"}, CommitInsight(s, st) PROVE OneSlotEach'
    <3>1. /\ islot[s].pc = "call" /\ islot[s].job \in InsightJobs
          /\ islot'[s].pc = "done" /\ islot'[s].job = islot[s].job
          /\ \A t \in InsightSlots \ {s} : islot'[t] = islot[t]
          /\ ijob'[islot[s].job].at = ijob[islot[s].job].at /\ ijob'[islot[s].job].wrote
          /\ \A k \in InsightJobs \ {islot[s].job} : ijob'[k] = ijob[k]
      BY <2>3, CommitJob
    <3>2. ASSUME NEW t \in InsightSlots, t # s, islot[t].pc # "free"
          PROVE  islot[t].job \in InsightJobs /\ islot[t].job # islot[s].job
      BY <3>1, <3>2, SlotsOf
    <3> QED
      BY <3>1, <3>2 DEF OneSlotEach
  <2>4. CASE EndInsight(s) \/ InsightStops(s)
    BY <2>4, StopIs, SlotLetsGo
  <2> QED
    BY <1>4, <2>1, <2>2, <2>3, <2>4 DEF InsightSlotStep
<1>5. ASSUME NEW j \in InsightJobs, ForgetInsightJob(j) PROVE OneSlotEach'
  <2>1. \A k \in InsightJobs \ {j} : ijob'[k] = ijob[k]
    BY <1>5, SameTypes DEF ForgetInsightJob
  <2>2. islot' = islot /\ ijob[j].at # "executing"
    BY <1>5 DEF ForgetInsightJob
  <2> QED
    BY <2>1, <2>2, OtherJobMoves
<1>6. ASSUME NEW id \in store, StoreLoses(id) PROVE OneSlotEach'
  BY <1>6, <1>a DEF StoreLoses
<1>7. ASSUME NEW c \in Callers, AskInsight(c) \/ AddRequest(c) PROVE OneSlotEach'
  BY <1>7, <1>a DEF AskInsight, AddRequest
<1>8. ASSUME NEW c \in Callers, PushRequest(c) PROVE OneSlotEach'
  <2>1. PICK j \in InsightJobs : /\ \A k \in InsightJobs \ {j} : ijob'[k] = ijob[k]
                                 /\ ijob[j].at # "none" => ijob'[j].at = ijob[j].at
                                 /\ ijob'[j].wrote = ijob[j].wrote
    BY <1>8, PushIs
  <2>2. islot' = islot
    BY <1>8 DEF PushRequest
  <2>3. \A s \in InsightSlots : islot[s].pc # "free" => islot[s].job \in InsightJobs
    BY Shapes
  <2> QED
    BY <2>1, <2>2, <2>3 DEF OneSlotEach
<1>9. ASSUME NEW x \in insights, RowGrowsOld(x) PROVE OneSlotEach'
  BY <1>9, <1>a DEF RowGrowsOld
<1> QED
  BY <1>1, <1>2, <1>3, <1>4, <1>5, <1>6, <1>7, <1>8, <1>9 DEF InsightNext, Polls

-----------------------------------------------------------------------------
(* What has been written of a day.                                           *)

Books == Clean => OneAttempt /\ WroteRow /\ InItsDay /\ Counts

LEMMA SameDailies ==
    ASSUME {x \in insights' : x.daily} = {x \in insights : x.daily}
    PROVE  \A d : Good(d)' = Good(d) /\ Failed(d)' = Failed(d)
<1>1. \A d : Good(d) = {x \in {y \in insights : y.daily} : x.day = d /\ x.status \in {"completed", "batch_pending"}}
  BY DEF Good, Daily
<1>2. \A d : Good(d)' = {x \in {y \in insights' : y.daily} : x.day = d /\ x.status \in {"completed", "batch_pending"}}
  BY DEF Good, Daily
<1>3. \A d : Failed(d) = {x \in {y \in insights : y.daily} : x.day = d /\ x.status \in {"failed"}}
  BY DEF Failed, Daily
<1>4. \A d : Failed(d)' = {x \in {y \in insights' : y.daily} : x.day = d /\ x.status \in {"failed"}}
  BY DEF Failed, Daily
<1> QED
  BY <1>1, <1>2, <1>3, <1>4

\* A daily job in a slot is a daily job.
LEMMA DailySlots ==
    ASSUME Types
    PROVE  \A s \in InsightSlots : islot[s].pc = "call" /\ islot[s].job.daily => islot[s].job \in DailyJobs
BY Shapes, JobsOf

\* A step that writes no daily row and starts no daily job.
LEMMA BooksKept ==
    ASSUME Types, PushedInTime, Books, Clean' => Clean, today \in Nat, today' \in Nat, today <= today',
           {x \in insights' : x.daily} = {x \in insights : x.daily},
           \A j \in DailyJobs : /\ ijob'[j].at # "none" => ijob[j].at # "none"
                                /\ ToWrite(j)' => ToWrite(j)
                                /\ ijob'[j].wrote => ijob[j].wrote,
           \A s \in InsightSlots : islot'[s].pc = "call" => islot'[s] = islot[s]
    PROVE  PushedInTime' /\ Books'
<1>1. PushedInTime'
  <2>1. \A j \in DailyJobs : j.day \in Nat
    BY JobsOf, Bounds DEF Days
  <2> QED
    BY <2>1 DEF PushedInTime
<1>2. \A d : Good(d)' = Good(d) /\ Failed(d)' = Failed(d)
  BY SameDailies
<1>3. ASSUME Clean' PROVE OneAttempt' /\ WroteRow' /\ InItsDay' /\ Counts'
  <2>1. OneAttempt /\ WroteRow /\ InItsDay /\ Counts
    BY <1>3 DEF Books
  <2>2. OneAttempt' /\ WroteRow' /\ Counts'
    BY <1>2, <2>1 DEF OneAttempt, WroteRow, Counts
  <2>3. InItsDay'
    BY <2>1, DailySlots DEF InItsDay
  <2> QED
    BY <2>2, <2>3
<1> QED
  BY <1>1, <1>3 DEF Books

\* The cron pushes a job with the number of the day's failures.
LEMMA BooksOfDispatch ==
    ASSUME Types, PushedInTime, Books, DispatchDaily
    PROVE  PushedInTime' /\ Books'
<1>1. PICK j \in DailyJobs : /\ j.day = today /\ j.n = Cardinality(Failed(today)) /\ ijob[j].at = "none"
                             /\ ijob' = PushInsight(j) /\ Good(today) = {}
                             /\ UNCHANGED <<insights, islot, caller, today, late, again>>
  BY DispatchIs
<1>2. /\ ijob'[j].wrote = ijob[j].wrote
      /\ \A k \in InsightJobs \ {j} : ijob'[k] = ijob[k]
  BY <1>1, JobsOf, Pushes
<1>3. \A d : Good(d)' = Good(d) /\ Failed(d)' = Failed(d)
  BY <1>1, SameDailies
<1>4. PushedInTime'
  <2>1. ASSUME NEW k \in DailyJobs, ijob'[k].at # "none" PROVE k.day <= today'
    <3>1. CASE k = j
      BY <1>1, <3>1, SameTypes, Bounds DEF Days
    <3>2. CASE k # j
      BY <1>1, <1>2, <2>1, <3>2, JobsOf DEF PushedInTime
    <3> QED
      BY <3>1, <3>2
  <2> QED
    BY <2>1 DEF PushedInTime
<1>5. ASSUME Clean' PROVE OneAttempt' /\ WroteRow' /\ InItsDay' /\ Counts'
  <2>1. OneAttempt /\ WroteRow /\ InItsDay /\ Counts
    BY <1>1, <1>5 DEF Books, Clean
  <2>2. Counts'
    BY <1>3, <2>1 DEF Counts
  <2>3. \A k \in DailyJobs : ijob'[k].wrote = ijob[k].wrote
    BY <1>2, JobsOf
  <2>4. WroteRow'
    BY <1>3, <2>1, <2>3 DEF WroteRow
  <2>5. InItsDay'
    BY <1>1, <2>1, <2>3, DailySlots DEF InItsDay
  <2>6. ASSUME NEW k \in DailyJobs, ToWrite(k)' PROVE Good(k.day)' = {} /\ k.n = Cardinality(Failed(k.day)')
    <3>1. CASE k = j
      BY <1>1, <1>3, <3>1
    <3>2. CASE k # j
      <4>1. ToWrite(k)
        BY <1>2, <2>6, <3>2, JobsOf DEF ToWrite
      <4> QED
        BY <1>3, <2>1, <4>1 DEF OneAttempt
    <3> QED
      BY <3>1, <3>2
  <2>7. OneAttempt'
    BY <2>6 DEF OneAttempt
  <2> QED
    BY <2>2, <2>4, <2>5, <2>7
<1> QED
  BY <1>4, <1>5 DEF Books

\* A job starts: on its own day, and without an insight written before, or the
\* histories say so.
LEMMA BooksOfStart ==
    ASSUME Types, PushedInTime, Books, NEW s \in InsightSlots, NEW j \in InsightJobs, StartInsight(s, j)
    PROVE  PushedInTime' /\ Books'
<1>1. /\ ijob[j].at = "queued" /\ ~AlreadyDone(j)
      /\ islot'[s].pc = "call" /\ islot'[s].job = j /\ islot'[s].day = today
      /\ \A t \in InsightSlots \ {s} : islot'[t] = islot[t]
      /\ ijob'[j].at = "executing" /\ ijob'[j].wrote = ijob[j].wrote
      /\ \A k \in InsightJobs \ {j} : ijob'[k] = ijob[k]
      /\ late' = (late \/ (j.daily /\ j.day < today))
      /\ again' = (again \/ (ijob[j].wrote /\ Failed(j.day) # {}))
      /\ UNCHANGED <<insights, today>>
  BY StartJob
<1>2. \A d : Good(d)' = Good(d) /\ Failed(d)' = Failed(d)
  BY <1>1, SameDailies
<1>3. \A k \in DailyJobs : /\ k \in InsightJobs /\ (ijob'[k].at # "none" => ijob[k].at # "none")
                           /\ ijob'[k].wrote = ijob[k].wrote
                           /\ ToWrite(k)' => ToWrite(k)
  BY <1>1, JobsOf DEF ToWrite
<1>4. PushedInTime'
  BY <1>1, <1>3 DEF PushedInTime
<1>5. ASSUME Clean' PROVE OneAttempt' /\ WroteRow' /\ InItsDay' /\ Counts'
  <2>1. Clean /\ OneAttempt /\ WroteRow /\ InItsDay /\ Counts
    BY <1>1, <1>5 DEF Books, Clean
  <2>2. OneAttempt' /\ WroteRow' /\ Counts'
    BY <1>2, <1>3, <2>1 DEF OneAttempt, WroteRow, Counts
  <2>3. ASSUME j.daily PROVE ~ijob'[j].wrote /\ islot'[s].day = j.day
    <3>1. j \in DailyJobs
      BY <2>3, JobsOf
    <3>2. j.day <= today /\ ~(j.day < today)
      BY <1>1, <1>5, <2>3, <3>1 DEF PushedInTime, Clean
    <3>3. j.day = today
      BY <3>1, <3>2, JobsOf, SameTypes, Bounds DEF Days
    <3>4. Good(j.day) = {}
      BY <1>1, <2>3 DEF AlreadyDone, Good
    <3>5. ~(ijob[j].wrote /\ Failed(j.day) # {})
      BY <1>1, <1>5 DEF Clean
    <3>6. ~ijob[j].wrote
      BY <2>1, <3>1, <3>4, <3>5 DEF WroteRow
    <3> QED
      BY <1>1, <3>3, <3>6
  <2>4. ASSUME NEW t \in InsightSlots, islot'[t].pc = "call", islot'[t].job.daily
        PROVE  ~ijob'[islot'[t].job].wrote /\ islot'[t].day = islot'[t].job.day
    <3>1. CASE t = s
      BY <1>1, <2>3, <2>4, <3>1
    <3>2. CASE t # s
      BY <1>1, <1>3, <2>1, <2>4, <3>2, DailySlots DEF InItsDay
    <3> QED
      BY <3>1, <3>2
  <2> QED
    BY <2>2, <2>4 DEF InItsDay
<1> QED
  BY <1>4, <1>5 DEF Books

\* A new daily row in the books.
LEMMA AddedDaily ==
    ASSUME NEW r, insights' = insights \cup {r}, r.daily
    PROVE  /\ \A d : Good(d)' = IF r.day = d /\ r.status \in {"completed", "batch_pending"}
                                THEN Good(d) \cup {r} ELSE Good(d)
           /\ \A d : Failed(d)' = IF r.day = d /\ r.status = "failed" THEN Failed(d) \cup {r} ELSE Failed(d)
<1>1. ASSUME NEW d
      PROVE  Good(d)' = IF r.day = d /\ r.status \in {"completed", "batch_pending"}
                        THEN Good(d) \cup {r} ELSE Good(d)
  BY DEF Good, Daily
<1>2. ASSUME NEW d
      PROVE  Failed(d)' = IF r.day = d /\ r.status = "failed" THEN Failed(d) \cup {r} ELSE Failed(d)
  BY DEF Failed, Daily
<1> QED
  BY <1>1, <1>2

LEMMA BooksOfCommit ==
    ASSUME Types, RowsInv, OneSlotEach, PushedInTime, Books,
           NEW s \in InsightSlots, NEW st \in {"completed", "batch_pending", "failed"}, CommitInsight(s, st)
    PROVE  PushedInTime' /\ Books'
<1>0. PICK j \in InsightJobs : j = islot[s].job
  BY CommitJob
<1>1. /\ islot[s].pc = "call" /\ j \in InsightJobs
      /\ islot'[s].pc = "done" /\ islot'[s].job = j
      /\ \A t \in InsightSlots \ {s} : islot'[t] = islot[t]
      /\ ijob'[j].at = ijob[j].at /\ ijob'[j].wrote
      /\ \A k \in InsightJobs \ {j} : ijob'[k] = ijob[k]
      /\ UNCHANGED <<caller, today, late, again>>
  BY <1>0, CommitJob
<1>2. PICK r \in InsightRows :
          /\ insights' = (insights \ Row(islot[s].row)) \cup {r}
          /\ r.id = islot[s].row /\ r.daily = j.daily /\ r.day = islot[s].day /\ r.status = st
  BY <1>0, RowWritten
<1>3. \A x \in insights : x.id = islot[s].row => ~x.daily /\ ~j.daily
  BY <1>0, <1>1 DEF RowsInv, OwnRow
<1>4. today \in Nat
  BY SameTypes, Bounds DEF Days
<1>5. CASE ~j.daily
  <2>1. {x \in insights' : x.daily} = {x \in insights : x.daily}
    BY <1>2, <1>3, <1>5 DEF Row
  <2>2. \A k \in DailyJobs : ijob'[k] = ijob[k]
    BY <1>1, <1>5, JobsOf
  <2>3. \A t \in InsightSlots : islot'[t].pc = "call" => islot'[t] = islot[t]
    BY <1>1
  <2> QED
    BY <1>1, <1>4, <2>1, <2>2, <2>3, BooksKept DEF Clean, ToWrite
<1>6. CASE j.daily
  <2>1. j \in DailyJobs
    BY <1>1, <1>6, JobsOf
  <2>2. insights' = insights \cup {r} /\ r.daily
    BY <1>2, <1>3, <1>6 DEF Row
  <2>3. \A k \in DailyJobs : k \in InsightJobs /\ ijob'[k].at = ijob[k].at
    BY <1>1, JobsOf
  <2>4. PushedInTime'
    BY <1>1, <2>3 DEF PushedInTime
  <2>5. ASSUME Clean' PROVE OneAttempt' /\ WroteRow' /\ InItsDay' /\ Counts'
    <3>1. OneAttempt /\ WroteRow /\ InItsDay /\ Counts
      BY <1>1, <2>5 DEF Books, Clean
    <3>2. ~ijob[j].wrote /\ r.day = j.day
      BY <1>0, <1>1, <1>2, <1>6, <3>1 DEF InItsDay
    <3>3. ijob[j].at = "executing"
      BY <1>0, <1>1, SlotsOf
    <3>4. Good(j.day) = {} /\ j.n = Cardinality(Failed(j.day))
      BY <2>1, <3>1, <3>2, <3>3 DEF OneAttempt, ToWrite
    <3>5. Cardinality(Failed(j.day)) < MaxDailyFailures /\ Cardinality(Failed(j.day)) \in Nat
      BY <2>1, <3>4, JobsOf, Bounds
    <3>6. /\ \A d : Good(d)' = IF r.day = d /\ r.status \in {"completed", "batch_pending"}
                               THEN Good(d) \cup {r} ELSE Good(d)
          /\ \A d : Failed(d)' = IF r.day = d /\ r.status = "failed" THEN Failed(d) \cup {r} ELSE Failed(d)
      BY <2>2, AddedDaily
    <3>7. \A d : d # j.day => Good(d)' = Good(d) /\ Failed(d)' = Failed(d)
      BY <3>2, <3>6
    <3>8. r \in Good(j.day)' \/ r \in Failed(j.day)'
      BY <1>2, <3>2, <3>6
    \* No other job of the day may still write.
    <3>9. ASSUME NEW k \in DailyJobs, ToWrite(k)' PROVE ToWrite(k) /\ k.day # j.day
      <4>1. k # j
        BY <1>1, <3>9 DEF ToWrite
      <4>2. ToWrite(k)
        BY <1>1, <2>3, <3>9, <4>1 DEF ToWrite
      <4>3. k.n = Cardinality(Failed(k.day))
        BY <3>1, <4>2 DEF OneAttempt
      <4> QED
        BY <2>1, <3>4, <4>1, <4>2, <4>3, JobsOf
    <3>10. OneAttempt'
      BY <3>1, <3>7, <3>9 DEF OneAttempt
    <3>11. WroteRow'
      <4>1. ASSUME NEW k \in DailyJobs, ijob'[k].wrote PROVE Good(k.day)' # {} \/ Failed(k.day)' # {}
        <5>1. CASE k.day = j.day
          BY <3>8, <5>1
        <5>2. CASE k.day # j.day
          <6>1. ijob[k].wrote
            BY <1>1, <2>3, <4>1, <5>2
          <6> QED
            BY <3>1, <3>7, <5>2, <6>1 DEF WroteRow
        <5> QED
          BY <5>1, <5>2
      <4> QED
        BY <4>1 DEF WroteRow
    <3>12. InItsDay'
      <4>1. ASSUME NEW t \in InsightSlots, islot'[t].pc = "call", islot'[t].job.daily
            PROVE  ~ijob'[islot'[t].job].wrote /\ islot'[t].day = islot'[t].job.day
        <5>1. t # s /\ islot'[t] = islot[t]
          BY <1>1, <4>1
        <5>2. islot[t].job # j /\ islot[t].job \in InsightJobs
          BY <1>0, <1>1, <4>1, <5>1, SlotsOf
        <5> QED
          BY <1>1, <3>1, <4>1, <5>1, <5>2 DEF InItsDay
      <4> QED
        BY <4>1 DEF InItsDay
    <3>13. /\ Cardinality(Good(j.day)') <= 1 /\ Cardinality(Failed(j.day)') <= MaxDailyFailures
           /\ Good(j.day)' # {} => Cardinality(Failed(j.day)') < MaxDailyFailures
      <4>1. CASE st = "failed"
        <5>1. Good(j.day)' = {} /\ Failed(j.day)' = Failed(j.day) \cup {r}
          BY <1>2, <3>2, <3>4, <3>6, <4>1
        <5>2. Cardinality(Good(j.day)') = 0
          BY <5>1, FS_EmptySet
        <5>3. IsFiniteSet(Failed(j.day))
          BY DailyIs, SameTypes DEF Failed
        <5>4. Cardinality(Failed(j.day) \cup {r}) =
                IF r \in Failed(j.day) THEN Cardinality(Failed(j.day)) ELSE Cardinality(Failed(j.day)) + 1
          BY <5>3, FS_AddElement
        <5>5. Cardinality(Failed(j.day)') <= MaxDailyFailures
          BY <3>5, <5>1, <5>4, Bounds
        <5> QED
          BY <5>1, <5>2, <5>5
      <4>2. CASE st # "failed"
        <5>1. Good(j.day)' = {r} /\ Failed(j.day)' = Failed(j.day)
          BY <1>2, <3>2, <3>4, <3>6, <4>2
        <5>2. Cardinality({r}) = 1
          BY FS_Singleton
        <5> QED
          BY <3>5, <5>1, <5>2, Bounds
      <4> QED
        BY <4>1, <4>2
    <3>14. Counts'
      <4>1. ASSUME NEW d \in Days
            PROVE  /\ Cardinality(Good(d)') <= 1 /\ Cardinality(Failed(d)') <= MaxDailyFailures
                   /\ Good(d)' # {} => Cardinality(Failed(d)') < MaxDailyFailures
        BY <3>1, <3>7, <3>13 DEF Counts
      <4> QED
        BY <4>1 DEF Counts
    <3> QED
      BY <3>10, <3>11, <3>12, <3>14
  <2> QED
    BY <2>4, <2>5 DEF Books
<1> QED
  BY <1>5, <1>6, JobsOf, <1>1

\* A polled batch of a day is its only insight.
LEMMA BooksOfPoll ==
    ASSUME Types, RowsInv, PushedInTime, Books, NEW id, NEW st, PollBatch(id, st)
    PROVE  PushedInTime' /\ Books'
<1>1. PICK x \in insights, y \in InsightRows :
              /\ insights' = (insights \ {x}) \cup {y}
              /\ y.id = x.id /\ y.daily = x.daily /\ y.day = x.day /\ y.status = st
              /\ x.status = "batch_pending" /\ st \in {"completed", "failed"}
  BY RowPolled
<1>2. UNCHANGED <<ijob, islot, today, late, again>>
  BY DEF PollBatch
<1>3. today \in Nat
  BY SameTypes, Bounds DEF Days
<1>4. CASE ~x.daily
  <2>1. {z \in insights' : z.daily} = {z \in insights : z.daily}
    BY <1>1, <1>4
  <2> QED
    BY <1>2, <1>3, <2>1, BooksKept DEF Clean, ToWrite
<1>5. CASE x.daily
  <2>1. PushedInTime'
    BY <1>2 DEF PushedInTime
  <2>2. x.day \in Days
    BY Shapes
  <2>3. x \in Good(x.day)
    BY <1>1, <1>5 DEF Good, Daily
  <2>4. ASSUME NEW d, d # x.day PROVE Good(d)' = Good(d) /\ Failed(d)' = Failed(d)
    BY <1>1, <2>4 DEF Good, Failed, Daily
  <2>5. ASSUME Clean' PROVE OneAttempt' /\ WroteRow' /\ InItsDay' /\ Counts'
    <3>1. OneAttempt /\ WroteRow /\ InItsDay /\ Counts
      BY <1>2, <2>5 DEF Books, Clean
    <3>2. IsFiniteSet(Good(x.day)) /\ Cardinality(Good(x.day)) <= 1 /\ Cardinality(Good(x.day)) \in Nat
      BY <2>2, <3>1, DailyIs, SameTypes DEF Good, Counts
    <3>3. Good(x.day) = {x}
      <4>1. /\ IsFiniteSet(Good(x.day) \ {x})
            /\ Cardinality(Good(x.day) \ {x}) =
                  IF x \in Good(x.day) THEN Cardinality(Good(x.day)) - 1 ELSE Cardinality(Good(x.day))
        BY <3>2, FS_RemoveElement
      <4>2. Cardinality(Good(x.day) \ {x}) \in Nat
        BY <4>1, FS_CardinalityType
      <4>3. Cardinality(Good(x.day) \ {x}) = 0
        BY <2>3, <3>2, <4>1, <4>2
      <4>4. Good(x.day) \ {x} = {}
        BY <4>1, <4>3, FS_EmptySet
      <4> QED
        BY <2>3, <4>4
    <3>4. IsFiniteSet(Failed(x.day)) /\ Cardinality(Failed(x.day)) \in Nat
      BY DailyIs, SameTypes DEF Failed
    <3>5. Cardinality(Failed(x.day)) < MaxDailyFailures
      BY <2>2, <3>1, <3>3 DEF Counts
    <3>6. \A z \in insights : z.daily /\ z.day = x.day /\ z.status \in {"completed", "batch_pending"} => z = x
      <4>1. ASSUME NEW z \in insights, z.daily, z.day = x.day, z.status \in {"completed", "batch_pending"}
            PROVE  z = x
        <5>1. z \in Good(x.day)
          BY <4>1 DEF Good, Daily
        <5> QED
          BY <3>3, <5>1
      <4> QED
        BY <4>1
    <3>7. CASE st = "completed"
      <4>1. Good(x.day)' = {y}
        BY <1>1, <1>5, <3>6, <3>7 DEF Good, Daily
      <4>2. Failed(x.day)' = Failed(x.day)
        BY <1>1, <1>5, <3>7 DEF Failed, Daily
      <4>3. Cardinality({y}) = 1
        BY FS_Singleton
      <4>4. y \in Good(x.day)'
        BY <4>1
      <4>5. ASSUME NEW k \in DailyJobs, ToWrite(k)' PROVE ToWrite(k) /\ k.day # x.day
        BY <1>2, <3>1, <3>3, <4>5 DEF ToWrite, OneAttempt
      <4>6. OneAttempt'
        BY <2>4, <3>1, <4>5 DEF OneAttempt
      <4>7. WroteRow'
        BY <1>2, <2>4, <3>1, <4>4 DEF WroteRow
      <4>8. InItsDay'
        BY <1>2, <3>1 DEF InItsDay
      <4>9. ASSUME NEW d \in Days
            PROVE  /\ Cardinality(Good(d)') <= 1 /\ Cardinality(Failed(d)') <= MaxDailyFailures
                   /\ Good(d)' # {} => Cardinality(Failed(d)') < MaxDailyFailures
        <5>1. CASE d = x.day
          <6>1. Cardinality(Good(d)') = 1 /\ Cardinality(Failed(d)') = Cardinality(Failed(x.day))
            BY <4>1, <4>2, <4>3, <5>1
          <6> QED
            BY <3>4, <3>5, <6>1, Bounds
        <5>2. CASE d # x.day
          BY <2>4, <3>1, <5>2 DEF Counts
        <5> QED
          BY <5>1, <5>2
      <4> QED
        BY <4>6, <4>7, <4>8, <4>9 DEF Counts
    <3>8. CASE st = "failed"
      <4>1. Good(x.day)' = {}
        BY <1>1, <1>5, <3>6, <3>8 DEF Good, Daily
      <4>2. Failed(x.day)' = Failed(x.day) \cup {y}
        BY <1>1, <1>5, <3>8 DEF Failed, Daily
      <4>3. Cardinality(Failed(x.day) \cup {y}) =
              IF y \in Failed(x.day) THEN Cardinality(Failed(x.day)) ELSE Cardinality(Failed(x.day)) + 1
        BY <3>4, FS_AddElement
      <4>4. Cardinality(Failed(x.day)') <= MaxDailyFailures
        BY <3>4, <3>5, <4>2, <4>3, Bounds
      <4>5. Cardinality(Good(x.day)') = 0
        BY <4>1, FS_EmptySet
      <4>6. y \in Failed(x.day)'
        BY <4>2
      <4>7. ASSUME NEW k \in DailyJobs, ToWrite(k)' PROVE ToWrite(k) /\ k.day # x.day
        BY <1>2, <3>1, <3>3, <4>7 DEF ToWrite, OneAttempt
      <4>8. OneAttempt'
        BY <2>4, <3>1, <4>7 DEF OneAttempt
      <4>9. WroteRow'
        BY <1>2, <2>4, <3>1, <4>6 DEF WroteRow
      <4>10. InItsDay'
        BY <1>2, <3>1 DEF InItsDay
      <4>11. ASSUME NEW d \in Days
             PROVE  /\ Cardinality(Good(d)') <= 1 /\ Cardinality(Failed(d)') <= MaxDailyFailures
                    /\ Good(d)' # {} => Cardinality(Failed(d)') < MaxDailyFailures
        <5>1. CASE d = x.day
          BY <4>1, <4>4, <4>5, <5>1
        <5>2. CASE d # x.day
          BY <2>4, <3>1, <5>2 DEF Counts
        <5> QED
          BY <5>1, <5>2
      <4> QED
        BY <4>8, <4>9, <4>10, <4>11 DEF Counts
    <3> QED
      BY <1>1, <3>7, <3>8
  <2> QED
    BY <2>1, <2>5 DEF Books
<1> QED
  BY <1>4, <1>5

LEMMA BooksStep ==
    ASSUME Types, RowsInv, OneSlotEach, PushedInTime, Books, InsightNext
    PROVE  PushedInTime' /\ Books'
<1>a. today \in Nat
  BY SameTypes, Bounds DEF Days
<1>b. ASSUME UNCHANGED <<today, late, again>>,
             {x \in insights' : x.daily} = {x \in insights : x.daily},
             \A j \in DailyJobs : /\ ijob'[j].at # "none" => ijob[j].at # "none"
                                  /\ ToWrite(j)' => ToWrite(j)
                                  /\ ijob'[j].wrote => ijob[j].wrote,
             \A s \in InsightSlots : islot'[s].pc = "call" => islot'[s] = islot[s]
      PROVE  PushedInTime' /\ Books'
  BY <1>a, <1>b, BooksKept DEF Clean
<1>1. CASE DispatchDaily
  BY <1>1, BooksOfDispatch
<1>2. ASSUME NEW id \in store, NEW st, PollBatch(id, st) PROVE PushedInTime' /\ Books'
  BY <1>2, BooksOfPoll
<1>3. CASE HourComes
  BY <1>3, <1>b DEF HourComes, ToWrite
<1>4. CASE Midnight
  <2>1. UNCHANGED <<insights, ijob, islot, late, again>> /\ today' = today + 1
    BY <1>4 DEF Midnight
  <2>2. today' \in Nat /\ today <= today'
    BY <1>a, <2>1
  <2> QED
    BY <1>a, <2>1, <2>2, BooksKept DEF Clean, ToWrite
<1>5. ASSUME NEW s \in InsightSlots, InsightSlotStep(s) \/ InsightStops(s) \/ CommitInsight(s, "failed")
      PROVE  PushedInTime' /\ Books'
  <2>1. ASSUME NEW j \in InsightJobs, SkipInsight(s, j) PROVE PushedInTime' /\ Books'
    <3>1. /\ ijob[j].at = "queued" /\ ijob' = [ijob EXCEPT ![j].at = "kept"]
          /\ UNCHANGED <<insights, islot, today, late, again>>
      BY <2>1 DEF SkipInsight
    <3>2. /\ ijob'[j].at = "kept" /\ ijob'[j].wrote = ijob[j].wrote
          /\ \A k \in InsightJobs \ {j} : ijob'[k] = ijob[k]
      BY <3>1, JobMoves
    <3>3. \A k \in DailyJobs : /\ ijob'[k].at # "none" => ijob[k].at # "none"
                               /\ ToWrite(k)' => ToWrite(k)
                               /\ ijob'[k].wrote => ijob[k].wrote
      BY <3>1, <3>2, JobsOf DEF ToWrite
    <3> QED
      BY <1>b, <3>1, <3>3
  <2>2. ASSUME NEW j \in InsightJobs, StartInsight(s, j) PROVE PushedInTime' /\ Books'
    BY <2>2, BooksOfStart
  <2>3. ASSUME NEW st \in {"completed", "batch_pending", "failed"}, CommitInsight(s, st)
        PROVE  PushedInTime' /\ Books'
    BY <2>3, BooksOfCommit
  <2>4. CASE EndInsight(s) \/ InsightStops(s)
    <3>1. /\ islot[s].pc # "free"
          /\ islot' = [islot EXCEPT ![s] = FreeInsightSlot]
          /\ ijob'[islot[s].job].at \in {"queued", "kept"}
          /\ ijob'[islot[s].job].wrote = ijob[islot[s].job].wrote
          /\ \A k \in InsightJobs \ {islot[s].job} : ijob'[k] = ijob[k]
          /\ UNCHANGED <<insights, today, late, again>>
      BY <2>4, StopIs
    <3>2. ijob[islot[s].job].at = "executing"
      BY <3>1, SlotsOf
    <3>3. \A k \in DailyJobs : /\ ijob'[k].at # "none" => ijob[k].at # "none"
                               /\ ToWrite(k)' => ToWrite(k)
                               /\ ijob'[k].wrote => ijob[k].wrote
      BY <3>1, <3>2, JobsOf DEF ToWrite
    <3>4. \A t \in InsightSlots : islot'[t].pc = "call" => islot'[t] = islot[t]
      BY <3>1, SlotFree
    <3> QED
      BY <1>b, <3>1, <3>3, <3>4
  <2> QED
    BY <1>5, <2>1, <2>2, <2>3, <2>4 DEF InsightSlotStep
<1>6. ASSUME NEW j \in InsightJobs, ForgetInsightJob(j) PROVE PushedInTime' /\ Books'
  <2>1. ijob'[j] = NotPushed /\ \A k \in InsightJobs \ {j} : ijob'[k] = ijob[k]
    BY <1>6, SameTypes DEF ForgetInsightJob
  <2>2. \A k \in DailyJobs : /\ ijob'[k].at # "none" => ijob[k].at # "none"
                             /\ ToWrite(k)' => ToWrite(k)
                             /\ ijob'[k].wrote => ijob[k].wrote
    BY <2>1, FreeIs, JobsOf DEF ToWrite
  <2> QED
    BY <1>b, <1>6, <2>2 DEF ForgetInsightJob
<1>7. ASSUME NEW id \in store, StoreLoses(id) PROVE PushedInTime' /\ Books'
  BY <1>7, <1>b DEF StoreLoses, ToWrite
<1>8. ASSUME NEW c \in Callers, AskInsight(c) \/ AddRequest(c) \/ PushRequest(c)
      PROVE  PushedInTime' /\ Books'
  <2>1. UNCHANGED <<islot, today, late, again>>
    BY <1>8 DEF AskInsight, AddRequest, PushRequest
  <2>2. {x \in insights' : x.daily} = {x \in insights : x.daily}
    <3>1. CASE AskInsight(c) \/ (PushRequest(c) /\ insights' # insights)
      <4>1. PICK B \in SUBSET insights :
              /\ insights' = {IF x \in B THEN [x EXCEPT !.status = "failed"] ELSE x : x \in insights}
              /\ \A x \in B : ~x.daily
        BY <3>1, OnlyAsked
      <4>2. \A x \in B : ~[x EXCEPT !.status = "failed"].daily
        <5>1. \A x \in InsightRows : [x EXCEPT !.status = "failed"].daily = x.daily
          BY DEF InsightRows
        <5> QED
          BY <4>1, <5>1, Shapes
      <4> QED
        BY <4>1, <4>2
    <3>2. CASE AddRequest(c)
      <4>1. PICK r \in InsightRows : insights' = insights \cup {r} /\ ~r.daily
        BY <3>2, RowAdded
      <4> QED
        BY <4>1
    <3>3. CASE insights' = insights
      BY <3>3
    <3> QED
      BY <1>8, <3>1, <3>2, <3>3
  <2>3. \A k \in DailyJobs : ijob'[k] = ijob[k]
    BY <1>8, PushIs DEF AskInsight, AddRequest
  <2> QED
    BY <1>b, <2>1, <2>2, <2>3 DEF ToWrite
<1>9. ASSUME NEW x \in insights, RowGrowsOld(x) PROVE PushedInTime' /\ Books'
  <2>1. PICK y \in InsightRows :
              /\ insights' = (insights \ {x}) \cup {y}
              /\ y.id = x.id /\ y.daily = x.daily /\ y.day = x.day
              /\ x.status = "pending" /\ y.status = "pending"
    BY <1>9, RowOld
  <2>2. ~x.daily
    BY <2>1 DEF RowsInv, RequestsPend
  <2>3. {z \in insights' : z.daily} = {z \in insights : z.daily}
    BY <2>1, <2>2
  <2> QED
    BY <1>9, <1>b, <2>3 DEF RowGrowsOld, ToWrite
<1> QED
  BY <1>1, <1>2, <1>3, <1>4, <1>5, <1>6, <1>7, <1>8, <1>9 DEF InsightNext, Polls

-----------------------------------------------------------------------------
(* The invariant.                                                            *)

LEMMA InsightInit_Inv == InsightInit => InsightInv
<1> SUFFICES ASSUME InsightInit PROVE InsightInv
  OBVIOUS
<1>1. Types
  BY InitTypes
<1>2. insights = {} /\ (\A s \in InsightSlots : islot[s].pc = "free") /\ (\A c \in Callers : caller[c] = 0)
  BY FreeIs DEF InsightInit
<1>3. \A j \in InsightJobs : ijob[j].at = "none" /\ ~ijob[j].wrote
  BY FreeIs DEF InsightInit
<1>4. RowsInv
  BY <1>2 DEF RowsInv, OneRowEach, RequestsPend, AskedRow, OwnRow
<1>5. OneSlotEach
  BY <1>2 DEF OneSlotEach
<1>6. \A d : Good(d) = {} /\ Failed(d) = {}
  BY <1>2 DEF Good, Failed, Daily
<1>7. PushedInTime /\ OneAttempt /\ WroteRow /\ InItsDay
  BY <1>2, <1>3, JobsOf DEF PushedInTime, OneAttempt, WroteRow, InItsDay, ToWrite
<1>8. Counts
  BY <1>6, FS_EmptySet, Bounds DEF Counts
<1> QED
  BY <1>1, <1>4, <1>5, <1>7, <1>8 DEF InsightInv, JobsInv

LEMMA InsightNext_Inv == InsightInv /\ [InsightNext]_insightVars => InsightInv'
<1> SUFFICES ASSUME InsightInv, [InsightNext]_insightVars PROVE InsightInv'
  OBVIOUS
<1>1. Types /\ RowsInv /\ OneSlotEach /\ PushedInTime /\ Books
  BY DEF InsightInv, JobsInv, Books
<1>2. CASE InsightNext
  <2>1. Types' /\ RowsInv' /\ OneSlotEach'
    BY <1>1, <1>2, TypesStep, RowsStep, SlotsStep
  <2>2. PushedInTime' /\ Books'
    BY <1>1, <1>2, BooksStep
  <2> QED
    BY <2>1, <2>2 DEF InsightInv, JobsInv, Books
<1>3. CASE UNCHANGED insightVars
  <2>1. UNCHANGED <<insights, ijob, islot, caller, today, late, again>>
    BY <1>3 DEF insightVars
  <2>2. Types'
    BY <1>1, <2>1, SameTypes, NewTypes
  <2>3. RowsInv'
    BY <1>1, <2>1 DEF RowsInv, OneRowEach, RequestsPend, AskedRow, OwnRow
  <2>4. OneSlotEach'
    BY <1>1, <2>1 DEF OneSlotEach
  <2>5. today \in Nat
    BY <1>1, SameTypes, Bounds DEF Days
  <2>6. PushedInTime' /\ Books'
    BY <1>1, <2>1, <2>5, BooksKept DEF Clean, ToWrite
  <2> QED
    BY <2>2, <2>3, <2>4, <2>6 DEF InsightInv, JobsInv, Books
<1> QED
  BY <1>2, <1>3

\* A row, a slot and a job belong to each other as the code means them to, and
\* while no job ran late or again after its commit the books of every day are
\* kept: its one job carries the number of its failures.
THEOREM InsightInvariant == InsightSpec => []InsightInv
BY InsightInit_Inv, InsightNext_Inv, PTL DEF InsightSpec

\* A tenant gets one insight of a day and no more than the allowed failures
\* (service.py: idempotent by tenant and local day), whatever crons, retries,
\* crashes and callers do; only a job that ran on another day than its key's, or
\* ran again after it had committed what then failed, breaks it.
THEOREM OneInsightADay == InsightSpec => []OneDailyInsight
<1>1. InsightInv => OneDailyInsight
  <2> SUFFICES ASSUME InsightInv, ~late, ~again PROVE DailyIdempotent /\ AttemptsBounded
    BY DEF OneDailyInsight
  <2>1. Counts
    BY DEF InsightInv, JobsInv, Clean
  <2> QED
    BY <2>1 DEF Counts, Good, Failed, DailyIdempotent, AttemptsBounded
<1> QED
  BY <1>1, InsightInvariant, PTL
=============================================================================

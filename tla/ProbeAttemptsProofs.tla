------------------------ MODULE ProbeAttemptsProofs ------------------------
(* Proofs about ProbeAttempts, for every set of processes, number of proxy   *)
(* templates, budget, horizon and number of tries and retries.               *)
EXTENDS ProbeAttempts, FiniteSetTheorems, WellFoundedInduction, TLAPS

USE ProbeBounds

-----------------------------------------------------------------------------
(* Numbers.                                                                  *)

\* The bounds, one by one.
LEMMA Bounds ==
    /\ Templates \in Nat \ {0} /\ FailThreshold \in Nat \ {0} /\ SessionRequests \in Nat \ {0}
    /\ PerMinute \in Nat \ {0} /\ Attempts \in Nat \ {0} /\ Horizon \in Nat \ {0}
    /\ HttpRetries \in Nat /\ TransientRetries \in Nat
OBVIOUS

\* A number below a bound may grow by one.
LEMMA OneMore == ASSUME NEW b \in Nat, NEW n \in 0..b, n < b PROVE n + 1 \in 0..b
OBVIOUS

\* A set of numbers that is not empty has a least one.
LEMMA LeastElement ==
    ASSUME NEW S \in SUBSET Nat, S # {}
    PROVE  \E x \in S : \A y \in S : x <= y
<1> DEFINE R == OpToRel(<, Nat)
<1>1. R = {ss \in Nat \X Nat : ss[1] < ss[2]}
  BY DEF OpToRel
<1>2. IsWellFoundedOn(R, Nat)
  BY NatLessThanWellFounded, Zenon
<1> HIDE DEF R
<1>3. PICK x \in S : \A y \in S : <<y, x>> \notin R
  BY <1>2, WFMin, ZenonT(60)
<1>4. \A y \in S : <<y, x>> \in Nat \X Nat /\ <<y, x>>[1] = y /\ <<y, x>>[2] = x
  OBVIOUS
<1>5. \A y \in S : ~ (y < x)
  BY <1>1, <1>3, <1>4
<1> QED
  BY <1>5

LEMMA LeastOfPair ==
    ASSUME NEW a \in Nat, NEW b \in Nat
    PROVE  LeastOf({a, b}) = IF a <= b THEN a ELSE b
<1>1. Known({a, b}) = {a, b}
  BY DEF Known, None
<1>2. Min({a, b}) = IF a <= b THEN a ELSE b
  BY DEF Min
<1> QED
  BY <1>1, <1>2 DEF LeastOf

-----------------------------------------------------------------------------
(* The inductive invariant: types, the budget, and for every process what    *)
(* its attempt knows of the nights and what its turns at the proxies cost.   *)

Providers == [next : 0..Templates, fails : [1..Templates -> 0..(FailThreshold - 1)],
              tripped : SUBSET (1..Templates), shared : SUBSET (1..Templates)]
Sessions == [on : BOOLEAN, used : 0..SessionRequests]
Reading == {"ask", "wait", "send"}
AttemptRecords ==
    [pc : {"idle", "session", "night"} \cup Reading, step : {"none", "calendar", "probe", "page"},
     try : 0..Attempts, night : 0..Horizon, skip : SUBSET Stays, closed : SUBSET Stays,
     blocked : 0..HttpRetries, transient : 0..TransientRetries]
TaskStatuses == Settled \cup {"none", "queued", "retrying"}

ProbeTypes ==
    /\ provider \in [Processes -> Providers] /\ session \in [Processes -> Sessions]
    /\ attempt \in [Processes -> AttemptRecords] /\ task \in [Processes -> TaskStatuses]
    /\ probes \in [Processes -> [Stays -> ProbeStatuses \cup {"none"}]]
    /\ health \in Checks \cup {{}} /\ count \in 0..(PerMinute + 2) /\ granted \in Nat
    /\ streak \in [Processes -> Nat] /\ pageJobs \in Nat /\ pfaults \in Nat

BudgetInv == granted <= count /\ granted <= PerMinute

NightKnown(p, n) == n \in FreshNights \/ probes[p][n] # "none"

AttemptInv(p) ==
    /\ At(p, "idle") <=> attempt[p].step = "none"
    /\ At(p, "night") => attempt[p].step \in {"calendar", "probe"}
    /\ attempt[p].step = "probe" /\ ~ At(p, "night") =>
           attempt[p].night < Horizon /\ attempt[p].night \notin attempt[p].skip
    /\ attempt[p].pc \in Reading => session[p].used < SessionRequests
    /\ \A n \in Stays : n \in attempt[p].skip \/ n < attempt[p].night => NightKnown(p, n)
    /\ At(p, "night") \/ attempt[p].step = "probe" =>
           \A n \in Stays : probes[p][n] \in Usable => n \in attempt[p].skip \/ n < attempt[p].night
    /\ task[p] = "done" => \A n \in Stays : NightKnown(p, n)

Ahead(v, t) == IF t > v.next THEN t - v.next - 1 ELSE t - v.next - 1 + Templates

FailoverInv(p) ==
    /\ session[p].on \/ attempt[p].pc \in Reading => streak[p] = 0
    /\ Working \cap provider[p].tripped = {}
    /\ Working \ provider[p].shared # {} =>
           \E F \in SUBSET ((1..Templates) \ Working) :
               /\ Cardinality(F) = streak[p]
               /\ \A f \in F, w \in Working \ provider[p].shared : Ahead(provider[p], w) < Ahead(provider[p], f)

ProbeInv == ProbeTypes /\ BudgetInv /\ \A p \in Processes : AttemptInv(p) /\ FailoverInv(p)

LEMMA InitTypes == ProbeInit => ProbeTypes
<1> SUFFICES ASSUME ProbeInit PROVE ProbeTypes
    OBVIOUS
<1>1. NewProvider \in Providers /\ NoSession \in Sessions /\ NoAttempt \in AttemptRecords
  BY DEF NewProvider, Providers, NoSession, Sessions, NoAttempt, AttemptRecords
<1>2. task \in [Processes -> TaskStatuses]
  BY DEF ProbeInit, TaskStatuses
<1> QED
  BY <1>1, <1>2 DEF ProbeInit, ProbeTypes

LEMMA InitInv == ProbeInit => ProbeInv
<1> SUFFICES ASSUME ProbeInit PROVE ProbeInv
    OBVIOUS
<1>1. BudgetInv
  BY DEF ProbeInit, BudgetInv
<1>2. ASSUME NEW p \in Processes PROVE AttemptInv(p)
  <2>1. /\ attempt[p].pc = "idle" /\ attempt[p].step = "none" /\ attempt[p].night = 0
        /\ attempt[p].skip = {} /\ task[p] # "done"
    BY DEF ProbeInit, NoAttempt
  <2> QED
    BY <2>1 DEF AttemptInv, At, Reading, Stays
<1>3. ASSUME NEW p \in Processes PROVE FailoverInv(p)
  <2>1. streak[p] = 0 /\ provider[p].tripped = {} /\ Working \subseteq 1..Templates
    BY DEF ProbeInit, NewProvider
  <2>2. Cardinality({}) = 0
    BY FS_EmptySet
  <2> QED
    BY <2>1, <2>2 DEF FailoverInv
<1> QED
  BY <1>1, <1>2, <1>3, InitTypes DEF ProbeInv

-----------------------------------------------------------------------------
(* Types.                                                                    *)

\* The turn stays within the templates.
LEMMA TurnType ==
    ASSUME NEW v \in Providers, NEW k \in 0..(Templates - 1)
    PROVE  /\ Turn(v, k) \in 1..Templates
           /\ Turn(v, k) = IF v.next + k < Templates THEN v.next + k + 1 ELSE v.next + k + 1 - Templates
<1> DEFINE x == v.next + k
<1>1. x \in Nat /\ Templates \in Nat \ {0} /\ x < Templates + Templates
  BY DEF Providers
<1>2. \A y \in Nat, n \in Nat \ {0} : y < n => y % n = y
  OBVIOUS
<1>3. \A y \in Nat, n \in Nat \ {0} : n <= y /\ y < n + n => y % n = y - n
  OBVIOUS
<1> HIDE DEF x
<1>4. x % Templates = IF x < Templates THEN x ELSE x - Templates
  <2>1. CASE x < Templates
    BY <1>1, <1>2, <2>1
  <2>2. CASE ~ (x < Templates)
    <3>1. Templates <= x
      BY <1>1, <2>2
    <3> QED
      BY <1>1, <1>3, <2>2, <3>1
  <2> QED
    BY <2>1, <2>2
<1>5. Turn(v, k) = (x % Templates) + 1
  BY DEF Turn, x
<1>6. /\ Turn(v, k) \in 1..Templates
      /\ Turn(v, k) = IF x < Templates THEN x + 1 ELSE x + 1 - Templates
  BY <1>1, <1>4, <1>5
<1> QED
  BY <1>6 DEF x

LEMMA PickType == \A v \in Providers : Pick(v) \in 1..Templates
<1> SUFFICES ASSUME NEW v \in Providers PROVE Pick(v) \in 1..Templates
    OBVIOUS
<1> DEFINE good == {k \in 0..(Templates - 1) : Healthy(v, Turn(v, k))}
<1>1. CASE good = {}
  BY <1>1, TurnType DEF Pick
<1>2. CASE good # {}
  <2>1. good \subseteq Nat
    OBVIOUS
  <2>2. \E k \in good : \A j \in good : k <= j
    BY <1>2, <2>1, LeastElement
  <2>3. (CHOOSE k \in good : \A j \in good : k <= j) \in good
    BY <2>2
  <2> QED
    BY <1>2, <2>3, TurnType DEF Pick
<1> QED
  BY <1>1, <1>2

LEMMA ProviderTypes ==
    ASSUME NEW v \in Providers, NEW t \in 1..Templates
    PROVE  /\ Rotated(v, t) \in Providers
           /\ Failed(v, t) \in Providers /\ Succeeded(v, t) \in Providers
           /\ [v EXCEPT !.tripped = @ \ {t}] \in Providers
<1>1. /\ v = [next |-> v.next, fails |-> v.fails, tripped |-> v.tripped, shared |-> v.shared]
      /\ v.next \in 0..Templates /\ v.fails \in [1..Templates -> 0..(FailThreshold - 1)]
      /\ v.tripped \in SUBSET (1..Templates) /\ v.shared \in SUBSET (1..Templates)
  BY DEF Providers
<1>2. \A n \in 0..(FailThreshold - 1) :
          [v.fails EXCEPT ![t] = n] \in [1..Templates -> 0..(FailThreshold - 1)]
  BY <1>1
<1>3. Rotated(v, t) \in Providers /\ [v EXCEPT !.tripped = @ \ {t}] \in Providers
  <2>1. t \in 0..Templates /\ v.tripped \ {t} \in SUBSET (1..Templates)
    BY <1>1
  <2>2. Rotated(v, t) \in Providers
    BY <1>1, <2>1 DEF Providers, Rotated
  <2>3. [v EXCEPT !.tripped = @ \ {t}] \in Providers
    BY <1>1, <2>1 DEF Providers
  <2> QED
    BY <2>2, <2>3
<1>4. 0 \in 0..(FailThreshold - 1) /\ FailThreshold \in Nat \ {0}
  OBVIOUS
<1>5. /\ [v EXCEPT !.fails[t] = 0, !.tripped = @ \cup {t}] \in Providers
      /\ Succeeded(v, t) \in Providers
  BY <1>1, <1>2, <1>4 DEF Providers, Succeeded
<1>6. ASSUME ~ (v.fails[t] + 1 >= FailThreshold) PROVE [v EXCEPT !.fails[t] = @ + 1] \in Providers
  <2>1. v.fails[t] + 1 \in 0..(FailThreshold - 1)
    BY <1>1, <1>4, <1>6
  <2> QED
    BY <1>1, <1>2, <2>1 DEF Providers
<1> QED
  BY <1>3, <1>5, <1>6 DEF Failed

\* The record of an attempt, field by field.
LEMMA RecordParts ==
    ASSUME ProbeTypes, NEW p \in Processes
    PROVE  LET a == attempt[p] IN
           /\ a = [pc |-> a.pc, step |-> a.step, try |-> a.try, night |-> a.night, skip |-> a.skip,
                   closed |-> a.closed, blocked |-> a.blocked, transient |-> a.transient]
           /\ a.pc \in {"idle", "session", "night"} \cup Reading
           /\ a.step \in {"none", "calendar", "probe", "page"}
           /\ a.try \in 0..Attempts /\ a.night \in 0..Horizon
           /\ a.skip \in SUBSET Stays /\ a.closed \in SUBSET Stays
           /\ a.blocked \in 0..HttpRetries /\ a.transient \in 0..TransientRetries
BY DEF ProbeTypes, AttemptRecords

\* What an action may make of it.
LEMMA RecordUpdates ==
    ASSUME ProbeTypes, NEW p \in Processes,
           NEW pc \in {"idle", "session", "night"} \cup Reading,
           NEW step \in {"none", "calendar", "probe", "page"}
    PROVE  LET a == attempt[p] IN
           /\ [a EXCEPT !.pc = pc] \in AttemptRecords
           /\ [a EXCEPT !.pc = pc, !.step = step] \in AttemptRecords
           /\ \A n \in 0..Horizon : /\ [a EXCEPT !.night = n] \in AttemptRecords
                                    /\ [a EXCEPT !.pc = pc, !.night = n] \in AttemptRecords
           /\ \A S, C \in SUBSET Stays : [a EXCEPT !.pc = pc, !.skip = S, !.closed = C] \in AttemptRecords
           /\ [a EXCEPT !.pc = pc, !.step = step, !.blocked = 0, !.transient = 0] \in AttemptRecords
           /\ \A k \in 0..HttpRetries : [a EXCEPT !.pc = pc, !.blocked = k] \in AttemptRecords
           /\ \A k \in 0..TransientRetries : [a EXCEPT !.pc = pc, !.transient = k] \in AttemptRecords
           /\ \A k \in 0..Attempts : /\ [NoAttempt EXCEPT !.try = k] \in AttemptRecords
                                     /\ [NoAttempt EXCEPT !.pc = pc, !.step = step, !.try = k] \in AttemptRecords
<1> DEFINE a == attempt[p]
<1>1. /\ a = [pc |-> a.pc, step |-> a.step, try |-> a.try, night |-> a.night, skip |-> a.skip,
              closed |-> a.closed, blocked |-> a.blocked, transient |-> a.transient]
      /\ a.pc \in {"idle", "session", "night"} \cup Reading
      /\ a.step \in {"none", "calendar", "probe", "page"}
      /\ a.try \in 0..Attempts /\ a.night \in 0..Horizon
      /\ a.skip \in SUBSET Stays /\ a.closed \in SUBSET Stays
      /\ a.blocked \in 0..HttpRetries /\ a.transient \in 0..TransientRetries
  BY RecordParts
<1>2. 0 \in 0..HttpRetries /\ 0 \in 0..TransientRetries /\ 0 \in 0..Horizon
  OBVIOUS
<1> HIDE DEF a
<1>3. [a EXCEPT !.pc = pc] \in AttemptRecords
  BY <1>1 DEF AttemptRecords
<1>4. [a EXCEPT !.pc = pc, !.step = step] \in AttemptRecords
  BY <1>1 DEF AttemptRecords
<1>5. ASSUME NEW n \in 0..Horizon
      PROVE  [a EXCEPT !.night = n] \in AttemptRecords /\ [a EXCEPT !.pc = pc, !.night = n] \in AttemptRecords
  BY <1>1 DEF AttemptRecords
<1>6. ASSUME NEW S \in SUBSET Stays, NEW C \in SUBSET Stays
      PROVE  [a EXCEPT !.pc = pc, !.skip = S, !.closed = C] \in AttemptRecords
  BY <1>1 DEF AttemptRecords
<1>7. [a EXCEPT !.pc = pc, !.step = step, !.blocked = 0, !.transient = 0] \in AttemptRecords
  BY <1>1, <1>2 DEF AttemptRecords
<1>8. ASSUME NEW k \in 0..HttpRetries PROVE [a EXCEPT !.pc = pc, !.blocked = k] \in AttemptRecords
  BY <1>1 DEF AttemptRecords
<1>9. ASSUME NEW k \in 0..TransientRetries PROVE [a EXCEPT !.pc = pc, !.transient = k] \in AttemptRecords
  BY <1>1 DEF AttemptRecords
<1>10. ASSUME NEW k \in 0..Attempts
       PROVE  /\ [NoAttempt EXCEPT !.try = k] \in AttemptRecords
              /\ [NoAttempt EXCEPT !.pc = pc, !.step = step, !.try = k] \in AttemptRecords
  BY <1>2 DEF AttemptRecords, NoAttempt
<1> QED
  BY <1>3, <1>4, <1>5, <1>6, <1>7, <1>8, <1>9, <1>10 DEF a

LEMMA EndTypes ==
    ASSUME ProbeTypes, NEW p \in Processes, NEW out \in Settled, EndAttempt(p, out)
    PROVE  /\ attempt' \in [Processes -> AttemptRecords] /\ task' \in [Processes -> TaskStatuses]
<1>1. attempt[p].try \in 0..Attempts
  BY RecordParts
<1>2. [NoAttempt EXCEPT !.try = attempt[p].try] \in AttemptRecords
  BY <1>1, RecordUpdates DEF Reading
<1>3. attempt' = [attempt EXCEPT ![p] = [NoAttempt EXCEPT !.try = attempt[p].try]]
  BY DEF EndAttempt
<1>4. attempt' \in [Processes -> AttemptRecords]
  BY <1>2, <1>3 DEF ProbeTypes
<1>5. task' \in [Processes -> TaskStatuses]
  BY DEF EndAttempt, ProbeTypes, TaskStatuses, Settled
<1> QED
  BY <1>4, <1>5

LEMMA WriteTypes ==
    ASSUME ProbeTypes, NEW p \in Processes, NEW status \in ProbeStatuses,
           attempt[p].night < Horizon, WriteNight(p, status)
    PROVE  /\ attempt' \in [Processes -> AttemptRecords]
           /\ probes' \in [Processes -> [Stays -> ProbeStatuses \cup {"none"}]]
           /\ task' \in [Processes -> TaskStatuses]
<1> DEFINE n == attempt[p].night
<1>n. n \in 0..Horizon /\ n < Horizon /\ Horizon \in Nat
  BY RecordParts
<1> HIDE DEF n
<1>1. n \in Stays /\ n + 1 \in 0..Horizon
  BY <1>n DEF Stays
<1> USE DEF n
<1>2. [attempt[p] EXCEPT !.pc = "night", !.night = attempt[p].night + 1] \in AttemptRecords
  BY <1>1, RecordUpdates
<1>3. attempt' \in [Processes -> AttemptRecords]
  BY <1>2 DEF WriteNight, ProbeTypes
<1>4. probes' \in [Processes -> [Stays -> ProbeStatuses \cup {"none"}]]
  BY <1>1 DEF WriteNight, ProbeTypes
<1> QED
  BY <1>3, <1>4 DEF WriteNight, ProbeTypes

LEMMA RaisedTypes ==
    ASSUME ProbeTypes, NEW p \in Processes, AttemptInv(p), ~ At(p, "night"), Raised(p)
    PROVE  /\ attempt' \in [Processes -> AttemptRecords]
           /\ probes' \in [Processes -> [Stays -> ProbeStatuses \cup {"none"}]]
           /\ task' \in [Processes -> TaskStatuses]
<1>1. CASE attempt[p].step = "probe"
  <2>1. attempt[p].night < Horizon /\ WriteNight(p, "error") /\ "error" \in ProbeStatuses
    BY <1>1 DEF AttemptInv, Raised, ProbeStatuses
  <2> QED
    BY <2>1, WriteTypes
<1>2. CASE attempt[p].step # "probe"
  <2>1. EndAttempt(p, "failed") /\ "failed" \in Settled /\ UNCHANGED probes
    BY <1>2 DEF Raised, Settled
  <2> QED
    BY <2>1, EndTypes DEF ProbeTypes
<1> QED
  BY <1>1, <1>2

LEMMA UsedTypes ==
    ASSUME ProbeTypes, NEW p \in Processes, AttemptInv(p), At(p, "send"), NEW what, Used(p, what)
    PROVE  session' \in [Processes -> Sessions]
<1>1. /\ session[p] \in Sessions /\ session[p].used < SessionRequests
      /\ session[p].used \in 0..SessionRequests
  BY DEF AttemptInv, At, Reading, ProbeTypes, Sessions
<1>2. session[p].used + 1 \in 0..SessionRequests
  BY <1>1, Bounds, OneMore
<1>3. [session[p] EXCEPT !.used = session[p].used + 1] \in Sessions /\ NoSession \in Sessions
  BY <1>1, <1>2 DEF Sessions, NoSession
<1> QED
  BY <1>1, <1>3 DEF Used, ProbeTypes

\* A job or a page is taken, the budget is asked, nights are passed over.
LEMMA TakeTypes ==
    ASSUME ProbeTypes, NEW p \in Processes, AttemptInv(p),
           \/ TakeJob(p) \/ TakePage(p) \/ KeepSession(p) \/ Acquire(p) \/ FinishJob(p)
    PROVE  ProbeTypes'
<1>1. CASE TakeJob(p)
  <2>0. attempt[p].try \in 0..Attempts /\ attempt[p].try < Attempts
    BY <1>1, RecordParts DEF TakeJob
  <2>1. attempt[p].try + 1 \in 0..Attempts
    BY <2>0, Bounds, OneMore
  <2>2. [NoAttempt EXCEPT !.pc = "session", !.step = "calendar", !.try = attempt[p].try + 1] \in AttemptRecords
    BY <2>1, RecordUpdates
  <2>3. attempt'[p] = [NoAttempt EXCEPT !.pc = "session", !.step = "calendar", !.try = attempt[p].try + 1]
    BY <1>1 DEF TakeJob, ProbeTypes
  <2>4. attempt' \in [Processes -> AttemptRecords]
    BY <1>1, <2>2, <2>3 DEF TakeJob, ProbeTypes
  <2>5. health \in SUBSET (1..Templates) /\ provider[p] \in Providers
    BY DEF ProbeTypes
  <2>6. [provider[p] EXCEPT !.shared = health] \in Providers
    BY <2>5 DEF Providers
  <2>7. provider' \in [Processes -> Providers]
    BY <1>1, <2>6 DEF TakeJob, ProbeTypes
  <2>8. streak' \in [Processes -> Nat]
    BY <1>1 DEF TakeJob, ProbeTypes
  <2> QED
    BY <1>1, <2>4, <2>7, <2>8 DEF TakeJob, ProbeTypes
<1>2. CASE TakePage(p)
  <2>1. [attempt[p] EXCEPT !.pc = "session", !.step = "page"] \in AttemptRecords
    BY RecordUpdates
  <2>2. attempt' \in [Processes -> AttemptRecords]
    BY <1>2, <2>1 DEF TakePage, ProbeTypes
  <2> QED
    BY <1>2, <2>2 DEF TakePage, ProbeTypes
<1>3. ASSUME NEW pc \in Reading, Go(p, pc) PROVE attempt' \in [Processes -> AttemptRecords]
  <2>1. [attempt[p] EXCEPT !.pc = pc] \in AttemptRecords
    BY RecordUpdates
  <2> QED
    BY <1>3, <2>1 DEF Go, ProbeTypes
<1>4. CASE KeepSession(p)
  <2>1. attempt' \in [Processes -> AttemptRecords]
    BY <1>3, <1>4 DEF KeepSession, Reading
  <2> QED
    BY <1>4, <2>1 DEF KeepSession, ProbeTypes
<1>5. CASE Acquire(p)
  <2>1. attempt' \in [Processes -> AttemptRecords] /\ granted' \in Nat
    BY <1>3, <1>5 DEF Acquire, Reading, ProbeTypes
  <2>2. count + 1 \in Nat /\ PerMinute + 2 \in Nat
    BY DEF ProbeTypes
  <2>3. count' \in 0..(PerMinute + 2)
    BY <1>5, <2>2, LeastOfPair DEF Acquire
  <2> QED
    BY <1>5, <2>1, <2>3 DEF Acquire, ProbeTypes
<1>6. CASE FinishJob(p)
  <2>1. attempt' \in [Processes -> AttemptRecords] /\ task' \in [Processes -> TaskStatuses]
    BY <1>6, EndTypes DEF FinishJob, Settled
  <2> QED
    BY <1>6, <2>1 DEF FinishJob, ProbeTypes
<1> QED
  BY <1>1, <1>2, <1>4, <1>5, <1>6

\* Sessions and proxies.
LEMMA SessionTypes ==
    ASSUME ProbeTypes, NEW p \in Processes, AttemptInv(p),
           \/ SessionAges(p) \/ OpenSession(p) \/ BootstrapFails(p) \/ AcquireFails(p) \/ ProcessDies(p)
           \/ \E t \in 1..Templates : TripEnds(p, t)
    PROVE  ProbeTypes'
<1>1. NoSession \in Sessions /\ [on |-> TRUE, used |-> 0] \in Sessions /\ NewProvider \in Providers
  BY DEF NoSession, Sessions, NewProvider, Providers
<1>2. /\ provider[p] \in Providers /\ Pick(provider[p]) \in 1..Templates
      /\ Rotated(provider[p], Pick(provider[p])) \in Providers
  BY PickType, ProviderTypes DEF ProbeTypes
<1>3. CASE SessionAges(p)
  BY <1>1, <1>3 DEF SessionAges, ProbeTypes, PFault
<1>4. CASE OpenSession(p)
  <2>1. [attempt[p] EXCEPT !.pc = "ask"] \in AttemptRecords
    BY RecordUpdates DEF Reading
  <2>2. attempt' \in [Processes -> AttemptRecords]
    BY <1>4, <2>1 DEF OpenSession, Go, ProbeTypes
  <2>3. provider' \in [Processes -> Providers]
    BY <1>2, <1>4, ProviderTypes DEF OpenSession, ProbeTypes
  <2> QED
    BY <1>1, <1>4, <2>2, <2>3 DEF OpenSession, ProbeTypes
<1>5. CASE BootstrapFails(p)
  <2>1. provider' \in [Processes -> Providers]
    BY <1>2, <1>5, ProviderTypes DEF BootstrapFails, ProbeTypes
  <2>2. Raised(p) /\ ~ At(p, "night")
    BY <1>5 DEF BootstrapFails, At
  <2>3. session' \in [Processes -> Sessions] /\ streak' \in [Processes -> Nat]
    BY <1>1, <1>5 DEF BootstrapFails, ProbeTypes
  <2> QED
    BY <1>5, <2>1, <2>2, <2>3, RaisedTypes DEF BootstrapFails, ProbeTypes
<1>6. CASE AcquireFails(p)
  <2>1. Raised(p) /\ ~ At(p, "night") /\ pfaults' \in Nat
    BY <1>6 DEF AcquireFails, At, PFault, ProbeTypes
  <2> QED
    BY <1>6, <2>1, RaisedTypes DEF AcquireFails, ProbeTypes
<1>7. CASE ProcessDies(p)
  <2>1. [NoAttempt EXCEPT !.try = attempt[p].try] \in AttemptRecords
    BY RecordParts, RecordUpdates DEF Reading
  <2> QED
    BY <1>1, <1>7, <2>1 DEF ProcessDies, ProbeTypes, PFault
<1>8. ASSUME NEW t \in 1..Templates, TripEnds(p, t) PROVE ProbeTypes'
  <2>1. provider' \in [Processes -> Providers]
    BY <1>2, <1>8, ProviderTypes DEF TripEnds, ProbeTypes
  <2> QED
    BY <1>8, <2>1 DEF TripEnds, ProbeTypes
<1> QED
  BY <1>3, <1>4, <1>5, <1>6, <1>7, <1>8

AnswerKinds == {"ok", "sold_out", "empty", "blocked", "exception", "error", "other", "not_found"}

\* What an answer to the question for a night leads to.
LEMMA AnswerCases ==
    ASSUME ProbeTypes, NEW p \in Processes, NEW what, NEW five \in BOOLEAN, NEW browsed,
           Answer(p, what, five, browsed),
           what \in AnswerKinds
    PROVE  \/ Again(p, "blocked") /\ attempt[p].blocked < HttpRetries
           \/ Again(p, "transient") /\ TransientLeft(p)
           \/ Browse(p, browsed)
           \/ \E status \in {"error", "ok", "sold_out"} : Write(p, status)
           \/ /\ probes' = [probes EXCEPT ![p][attempt[p].night] = "error"]
              /\ EndAttempt(p, "broken") /\ UNCHANGED provider
<1>1. CASE what = "blocked"
  <2>1. attempt[p].blocked \in 0..HttpRetries
    BY RecordParts
  <2>2. attempt[p].blocked < HttpRetries \/ attempt[p].blocked >= HttpRetries
    BY <2>1, Bounds
  <2>3. CASE attempt[p].blocked < HttpRetries
    <3>1. ~ (attempt[p].blocked >= HttpRetries)
      BY <2>1, <2>3, Bounds
    <3> QED
      BY <1>1, <2>3, <3>1, Zenon DEF Answer
  <2>4. CASE ~ (attempt[p].blocked < HttpRetries)
    BY <1>1, <2>2, <2>4, Zenon DEF Answer
  <2> QED
    BY <2>3, <2>4
<1>2. CASE what = "empty"
  BY <1>2, Zenon DEF Answer
<1>3. CASE what = "exception"
  BY <1>3, Zenon DEF Answer
<1>4. CASE what = "error"
  BY <1>4, Zenon DEF Answer
<1>5. CASE what = "other"
  BY <1>5, Zenon DEF Answer
<1>6. CASE what \in {"ok", "sold_out"}
  BY <1>6, Zenon DEF Answer
<1>7. CASE what = "not_found"
  BY <1>7, Zenon DEF Answer
<1> QED
  BY <1>1, <1>2, <1>3, <1>4, <1>5, <1>6, <1>7 DEF AnswerKinds

LEMMA ProbeAnswers ==
    ASSUME NEW p, ProbeAnswered(p)
    PROVE  \E what \in AnswerKinds, five \in BOOLEAN, b \in ProbeStatuses : Answer(p, what, five, b)
<1>1. \A r \in Responses : Classify(r) \in AnswerKinds /\ (r.status >= 500) \in BOOLEAN
  BY DEF Responses, Classify, AnswerKinds
<1>2. "error" \in ProbeStatuses /\ "exception" \in AnswerKinds
  BY DEF ProbeStatuses, AnswerKinds
<1>3. CASE \E r \in Responses, b \in ProbeStatuses \ {"skipped"} : Answer(p, Classify(r), r.status >= 500, b)
  <2>1. PICK r \in Responses, b \in ProbeStatuses \ {"skipped"} : Answer(p, Classify(r), r.status >= 500, b)
    BY <1>3
  <2> QED
    BY <1>1, <2>1
<1>4. CASE \E b \in {"error"} : Answer(p, "exception", FALSE, b)
  BY <1>2, <1>4
<1> QED
  BY <1>3, <1>4 DEF ProbeAnswered

\* The calendar, the nights and their answers.
LEMMA AnswerTypes ==
    ASSUME ProbeTypes, NEW p \in Processes, AttemptInv(p),
           CalendarAnswered(p) \/ NextNight(p) \/ ProbeAnswered(p) \/ PageAnswered(p)
    PROVE  ProbeTypes'
<1>1. ASSUME NEW what, NEW closed \in SUBSET Stays, AskCalendar(p, what, closed) PROVE ProbeTypes'
  <2>1. Aside(p) \in SUBSET Stays
    BY DEF Aside, Stays
  <2>2. [attempt[p] EXCEPT !.pc = "night", !.skip = Aside(p), !.closed = closed] \in AttemptRecords
    BY <2>1, RecordUpdates
  <2>3. attempt' \in [Processes -> AttemptRecords]
    BY <1>1, <2>2 DEF AskCalendar, ProbeTypes
  <2>4. session' \in [Processes -> Sessions]
    BY <1>1, UsedTypes DEF AskCalendar
  <2> QED
    BY <1>1, <2>3, <2>4 DEF AskCalendar, ProbeTypes
<1>2. CASE NextNight(p)
  <2>0. attempt[p].night \in 0..Horizon /\ ~ (attempt[p].night >= Horizon)
    BY <1>2, RecordParts DEF NextNight, Over
  <2>1. attempt[p].night < Horizon /\ attempt[p].night + 1 \in 0..Horizon
    BY <2>0, Bounds, OneMore
  <2>2. CASE attempt[p].night \in attempt[p].skip
    <3>1. [attempt[p] EXCEPT !.night = attempt[p].night + 1] \in AttemptRecords
      BY <2>1, RecordUpdates DEF Reading
    <3> QED
      BY <1>2, <2>2, <3>1 DEF NextNight, ProbeTypes
  <2>3. CASE attempt[p].night \notin attempt[p].skip /\ attempt[p].night \in attempt[p].closed
    <3>1. WriteNight(p, "skipped") /\ "skipped" \in ProbeStatuses
      BY <1>2, <2>3 DEF NextNight, ProbeStatuses, Usable
    <3> QED
      BY <1>2, <2>1, <3>1, WriteTypes DEF NextNight, ProbeTypes
  <2>4. CASE attempt[p].night \notin attempt[p].skip /\ attempt[p].night \notin attempt[p].closed
    <3>1. [attempt[p] EXCEPT !.pc = "session", !.step = "probe", !.blocked = 0, !.transient = 0] \in AttemptRecords
      BY RecordUpdates
    <3> QED
      BY <1>2, <2>4, <3>1 DEF NextNight, ProbeTypes
  <2> QED
    BY <2>2, <2>3, <2>4
<1>3. ASSUME NEW what \in AnswerKinds, NEW five \in BOOLEAN, NEW browsed \in ProbeStatuses,
             Answer(p, what, five, browsed)
      PROVE  ProbeTypes'
  <2>1. session' \in [Processes -> Sessions] /\ attempt[p].night < Horizon
    BY <1>3, UsedTypes DEF Answer, AttemptInv, At
  <2>2. ASSUME NEW status \in ProbeStatuses, Write(p, status) PROVE ProbeTypes'
    BY <1>3, <2>1, <2>2, WriteTypes DEF Answer, Write, ProbeTypes
  <2>3. ASSUME Browse(p, browsed) PROVE ProbeTypes'
    <3>1. provider' \in [Processes -> Providers]
      BY <2>3, PickType, ProviderTypes DEF Browse, ProbeTypes
    <3> QED
      BY <1>3, <2>1, <2>3, <3>1, WriteTypes DEF Answer, Browse, ProbeTypes
  <2>4. ASSUME Again(p, "blocked"), attempt[p].blocked < HttpRetries PROVE ProbeTypes'
    <3>0. attempt[p].blocked \in 0..HttpRetries /\ attempt[p].blocked < HttpRetries
      BY <2>4, RecordParts
    <3>1. attempt[p].blocked + 1 \in 0..HttpRetries
      BY <3>0, Bounds, OneMore
    <3>2. [attempt[p] EXCEPT !.pc = "session", !.blocked = attempt[p].blocked + 1] \in AttemptRecords
      BY <3>1, RecordUpdates
    <3>3. attempt' = [attempt EXCEPT ![p] = [attempt[p] EXCEPT !.pc = "session", !.blocked = attempt[p].blocked + 1]]
      BY <2>4 DEF Again, Counted, ProbeTypes
    <3>4. attempt' \in [Processes -> AttemptRecords]
      BY <3>2, <3>3 DEF ProbeTypes
    <3> QED
      BY <1>3, <2>1, <2>4, <3>4 DEF Answer, Again, ProbeTypes
  <2>5. ASSUME Again(p, "transient"), TransientLeft(p) PROVE ProbeTypes'
    <3>0. attempt[p].transient \in 0..TransientRetries /\ attempt[p].transient < TransientRetries
      BY <2>5, RecordParts DEF TransientLeft
    <3>1. attempt[p].transient + 1 \in 0..TransientRetries
      BY <3>0, Bounds, OneMore
    <3>2. [attempt[p] EXCEPT !.pc = "session", !.transient = attempt[p].transient + 1] \in AttemptRecords
      BY <3>1, RecordUpdates
    <3>3. attempt' = [attempt EXCEPT ![p] = [attempt[p] EXCEPT !.pc = "session", !.transient = attempt[p].transient + 1]]
      BY <2>5 DEF Again, Counted, ProbeTypes
    <3>4. attempt' \in [Processes -> AttemptRecords]
      BY <3>2, <3>3 DEF ProbeTypes
    <3> QED
      BY <1>3, <2>1, <2>5, <3>4 DEF Answer, Again, ProbeTypes
  <2>6. ASSUME probes' = [probes EXCEPT ![p][attempt[p].night] = "error"],
               EndAttempt(p, "broken"), UNCHANGED provider
        PROVE  ProbeTypes'
    <3>1. probes' \in [Processes -> [Stays -> ProbeStatuses \cup {"none"}]]
      BY <2>6 DEF ProbeTypes, ProbeStatuses
    <3> QED
      BY <1>3, <2>1, <2>6, <3>1, EndTypes DEF Answer, Settled, ProbeTypes
  <2> QED
    <3>1. {"error", "ok", "sold_out"} \subseteq ProbeStatuses
      BY DEF ProbeStatuses, Usable
    <3> QED
      BY <1>3, <2>2, <2>3, <2>4, <2>5, <2>6, <3>1, AnswerCases
<1>4. CASE PageAnswered(p)
  <2>1. session' \in [Processes -> Sessions]
    BY <1>4, UsedTypes DEF PageAnswered
  <2>2. attempt' \in [Processes -> AttemptRecords] /\ task' \in [Processes -> TaskStatuses]
    BY <1>4, EndTypes DEF PageAnswered, Settled
  <2> QED
    BY <1>4, <2>1, <2>2 DEF PageAnswered, ProbeTypes
<1>5. CASE CalendarAnswered(p)
  <2>1. {} \in SUBSET Stays
    OBVIOUS
  <2> QED
    BY <1>1, <1>5, <2>1 DEF CalendarAnswered
<1>6. CASE ProbeAnswered(p)
  BY <1>3, <1>6, ProbeAnswers
<1> QED
  BY <1>2, <1>4, <1>5, <1>6

-----------------------------------------------------------------------------
(* What a step is: one of the actions of a process, a new minute, a check.   *)

Actions(p) ==
    \/ TakeJob(p) \/ TakePage(p) \/ KeepSession(p) \/ Acquire(p) \/ FinishJob(p)
    \/ SessionAges(p) \/ OpenSession(p) \/ BootstrapFails(p) \/ AcquireFails(p) \/ ProcessDies(p)
    \/ \E t \in 1..Templates : TripEnds(p, t)
    \/ CalendarAnswered(p) \/ NextNight(p) \/ ProbeAnswered(p) \/ PageAnswered(p)

LEMMA Steps ==
    ASSUME [ProbeNext]_probeVars
    PROVE  \/ UNCHANGED probeVars
           \/ \E p \in Processes : Actions(p)
           \/ NewMinute
           \/ \E down \in Checks : CheckProxies(down)
BY DEF ProbeNext, ProcessStep, Actions

LEMMA ActionTypes ==
    ASSUME ProbeTypes, NEW p \in Processes, AttemptInv(p), Actions(p) PROVE ProbeTypes'
BY TakeTypes, SessionTypes, AnswerTypes DEF Actions

LEMMA MinuteTypes == ASSUME ProbeTypes, NewMinute PROVE ProbeTypes'
<1>1. ASSUME NEW p \in Processes PROVE [attempt[p] EXCEPT !.pc = "ask"] \in AttemptRecords
  BY RecordUpdates DEF Reading
<1>2. \A p \in Processes : attempt[p] \in AttemptRecords
  BY DEF ProbeTypes
<1>3. attempt' \in [Processes -> AttemptRecords]
  BY <1>1, <1>2 DEF NewMinute
<1> QED
  BY <1>3 DEF NewMinute, ProbeTypes

LEMMA StepTypes == ASSUME ProbeInv, [ProbeNext]_probeVars PROVE ProbeTypes'
<1>1. CASE UNCHANGED probeVars
  BY <1>1 DEF ProbeInv, ProbeTypes, probeVars
<1>2. ASSUME NEW p \in Processes, Actions(p) PROVE ProbeTypes'
  BY <1>2, ActionTypes DEF ProbeInv
<1>3. CASE NewMinute
  BY <1>3, MinuteTypes DEF ProbeInv
<1>4. ASSUME NEW down \in Checks, CheckProxies(down) PROVE ProbeTypes'
  BY <1>4 DEF CheckProxies, ProbeInv, ProbeTypes
<1> QED
  BY <1>1, <1>2, <1>3, <1>4, Steps

-----------------------------------------------------------------------------
(* The budget.                                                               *)

\* Only a process that asks the budget, and the minute, change what it counts.
LEMMA BudgetAlone ==
    ASSUME NEW p, Actions(p), ~ Acquire(p) PROVE UNCHANGED <<count, granted>>
BY DEF Actions, TakeJob, TakePage, KeepSession, FinishJob, SessionAges, OpenSession, BootstrapFails,
       AcquireFails, ProcessDies, TripEnds, CalendarAnswered, AskCalendar, NextNight, ProbeAnswered,
       Answer, PageAnswered

LEMMA BudgetStep == ASSUME ProbeTypes, BudgetInv, [ProbeNext]_probeVars PROVE BudgetInv'
<1>t. count \in Nat /\ granted \in Nat /\ PerMinute \in Nat
  BY Bounds DEF ProbeTypes
<1>1. CASE UNCHANGED <<count, granted>>
  BY <1>1 DEF BudgetInv
<1>2. ASSUME NEW p \in Processes, Acquire(p) PROVE BudgetInv'
  <2>1. count' = IF count + 1 <= PerMinute + 2 THEN count + 1 ELSE PerMinute + 2
    BY <1>t, <1>2, LeastOfPair DEF Acquire
  <2>2. granted' = IF count + 1 <= PerMinute THEN granted + 1 ELSE granted
    BY <1>2 DEF Acquire, Within
  <2> QED
    BY <1>t, <2>1, <2>2 DEF BudgetInv
<1>3. CASE NewMinute
  BY <1>t, <1>3 DEF NewMinute, BudgetInv
<1> QED
  BY <1>1, <1>2, <1>3, Steps, BudgetAlone DEF probeVars, CheckProxies

-----------------------------------------------------------------------------
(* The processes do not touch each other's session, attempt, row or nights.  *)

SameOf(q) ==
    /\ provider'[q] = provider[q] /\ session'[q] = session[q] /\ attempt'[q] = attempt[q]
    /\ task'[q] = task[q] /\ probes'[q] = probes[q] /\ streak'[q] = streak[q]

LEMMA OthersStay ==
    ASSUME ProbeTypes, NEW p \in Processes, NEW q \in Processes, q # p, Actions(p)
    PROVE  SameOf(q)
<1>1. ASSUME NEW out, EndAttempt(p, out) PROVE attempt'[q] = attempt[q] /\ task'[q] = task[q]
  BY <1>1 DEF EndAttempt, ProbeTypes
<1>2. ASSUME NEW status, WriteNight(p, status)
      PROVE  attempt'[q] = attempt[q] /\ task'[q] = task[q] /\ probes'[q] = probes[q]
  BY <1>2 DEF WriteNight, ProbeTypes
<1>3. ASSUME Raised(p) PROVE attempt'[q] = attempt[q] /\ task'[q] = task[q] /\ probes'[q] = probes[q]
  BY <1>1, <1>2, <1>3 DEF Raised
<1>4. ASSUME NEW what, Used(p, what) PROVE session'[q] = session[q]
  BY <1>4 DEF Used, ProbeTypes
<1>5. ASSUME TakeJob(p) \/ TakePage(p) \/ KeepSession(p) \/ Acquire(p) \/ FinishJob(p) PROVE SameOf(q)
  BY <1>1, <1>5 DEF SameOf, TakeJob, TakePage, KeepSession, Acquire, Go, FinishJob, ProbeTypes
<1>6. ASSUME SessionAges(p) \/ OpenSession(p) \/ ProcessDies(p) \/ \E t \in 1..Templates : TripEnds(p, t)
      PROVE  SameOf(q)
  BY <1>6 DEF SameOf, SessionAges, OpenSession, Go, ProcessDies, TripEnds, ProbeTypes
<1>7. ASSUME BootstrapFails(p) \/ AcquireFails(p) PROVE SameOf(q)
  BY <1>3, <1>7 DEF SameOf, BootstrapFails, AcquireFails, ProbeTypes
<1>8. ASSUME NEW what, NEW closed, AskCalendar(p, what, closed) PROVE SameOf(q)
  BY <1>4, <1>8 DEF SameOf, AskCalendar, ProbeTypes
<1>9. ASSUME NextNight(p) \/ PageAnswered(p) PROVE SameOf(q)
  BY <1>1, <1>2, <1>4, <1>9 DEF SameOf, NextNight, PageAnswered, ProbeTypes
<1>10. ASSUME NEW what \in AnswerKinds, NEW five \in BOOLEAN, NEW b, Answer(p, what, five, b) PROVE SameOf(q)
  <2>1. session'[q] = session[q] /\ streak'[q] = streak[q]
    BY <1>4, <1>10 DEF Answer
  <2>2. CASE \E counter \in {"blocked", "transient"} : Again(p, counter)
    BY <2>1, <2>2 DEF SameOf, Again, ProbeTypes
  <2>3. CASE Browse(p, b)
    BY <1>2, <2>1, <2>3 DEF SameOf, Browse, ProbeTypes
  <2>4. CASE \E status \in {"error", "ok", "sold_out"} : Write(p, status)
    BY <1>2, <2>1, <2>4 DEF SameOf, Write, ProbeTypes
  <2>5. CASE /\ probes' = [probes EXCEPT ![p][attempt[p].night] = "error"]
             /\ EndAttempt(p, "broken") /\ UNCHANGED provider
    BY <1>1, <2>1, <2>5 DEF SameOf, ProbeTypes
  <2> QED
    BY <1>10, <2>2, <2>3, <2>4, <2>5, AnswerCases
<1>11. ASSUME ProbeAnswered(p) PROVE SameOf(q)
  BY <1>10, <1>11, ProbeAnswers
<1> QED
  BY <1>5, <1>6, <1>7, <1>8, <1>9, <1>11 DEF Actions, CalendarAnswered

-----------------------------------------------------------------------------
(* What an attempt knows of the nights.                                      *)

\* Where an attempt is among the nights.
LEMMA NightFacts ==
    ASSUME ProbeTypes, NEW p \in Processes
    PROVE  /\ attempt[p].night \in 0..Horizon /\ ~ (attempt[p].night < attempt[p].night)
           /\ attempt[p].night >= Horizon <=> ~ (attempt[p].night < Horizon)
           /\ attempt[p].night < Horizon => attempt[p].night \in Stays
           /\ attempt[p].night >= Horizon => \A n \in Stays : n < attempt[p].night
           /\ \A n \in Stays : n < attempt[p].night + 1 <=> n < attempt[p].night \/ n = attempt[p].night
<1> DEFINE d == attempt[p].night
<1>1. d \in 0..Horizon /\ Horizon \in Nat
  BY RecordParts, Bounds
<1> HIDE DEF d
<1>2. d \in 0..Horizon /\ ~ (d < d) /\ (d >= Horizon <=> ~ (d < Horizon))
  BY <1>1
<1>3. (d < Horizon => d \in Stays) /\ (d >= Horizon => \A n \in Stays : n < d)
  BY <1>1 DEF Stays
<1>4. \A n \in Stays : n < d + 1 <=> n < d \/ n = d
  BY <1>1 DEF Stays
<1> QED
  BY <1>2, <1>3, <1>4 DEF d

\* A night that is asked for starts with no retries.
LEMMA AskedAgain ==
    ASSUME ProbeTypes, NEW p \in Processes
    PROVE  LET a == [attempt[p] EXCEPT !.pc = "session", !.step = "probe", !.blocked = 0, !.transient = 0] IN
           a.pc = "session" /\ a.step = "probe" /\ a.night = attempt[p].night /\ a.skip = attempt[p].skip
<1> DEFINE b == attempt[p]
<1>1. b = [pc |-> b.pc, step |-> b.step, try |-> b.try, night |-> b.night, skip |-> b.skip,
           closed |-> b.closed, blocked |-> b.blocked, transient |-> b.transient]
  BY RecordParts
<1> HIDE DEF b
<1>2. LET a == [b EXCEPT !.pc = "session", !.step = "probe", !.blocked = 0, !.transient = 0] IN
      a.pc = "session" /\ a.step = "probe" /\ a.night = b.night /\ a.skip = b.skip
  BY <1>1
<1> QED
  BY <1>2 DEF b

\* A process nobody touched keeps its part of the invariant.
LEMMA SameAttempt == ASSUME NEW q, AttemptInv(q), SameOf(q) PROVE AttemptInv(q)'
BY DEF AttemptInv, SameOf, At, NightKnown, Reading

\* An attempt that ends leaves nothing to be kept, except that a job reported
\* done knows its nights.
LEMMA EndInv ==
    ASSUME ProbeTypes, NEW p \in Processes, AttemptInv(p), NEW out, EndAttempt(p, out),
           \A n \in Stays : NightKnown(p, n) => NightKnown(p, n)',
           out = "done" /\ attempt[p].step # "page" => \A n \in Stays : NightKnown(p, n)
    PROVE  AttemptInv(p)'
<1>1. /\ attempt'[p].pc = "idle" /\ attempt'[p].step = "none" /\ attempt'[p].night = 0
      /\ attempt'[p].skip = {}
  BY DEF EndAttempt, NoAttempt, ProbeTypes
<1>2. task'[p] = "done" => task[p] = "done" \/ (out = "done" /\ attempt[p].step # "page")
  BY DEF EndAttempt, ProbeTypes
<1>3. task'[p] = "done" => \A n \in Stays : NightKnown(p, n)'
  BY <1>2 DEF AttemptInv
<1> QED
  BY <1>1, <1>3, Bounds DEF AttemptInv, At, Reading, Stays

\* A night that is written is known, and was not known to be usable.
LEMMA WriteInv ==
    ASSUME ProbeTypes, NEW p \in Processes, AttemptInv(p), NEW status, status # "none", WriteNight(p, status),
           At(p, "night") \/ attempt[p].step = "probe",
           attempt[p].night < Horizon, attempt[p].night \notin attempt[p].skip
    PROVE  /\ AttemptInv(p)'
           /\ \A n \in Stays : probes[p][n] \in Usable => probes'[p][n] = probes[p][n]
<1> DEFINE d == attempt[p].night
<1>1. /\ attempt'[p].pc = "night" /\ attempt'[p].step = attempt[p].step
      /\ attempt'[p].night = d + 1 /\ attempt'[p].skip = attempt[p].skip
  BY RecordParts DEF WriteNight, ProbeTypes
<1>2. d \in Stays /\ ~ (d < d)
  BY NightFacts
<1>3. probes'[p][d] = status /\ \A n \in Stays : n # d => probes'[p][n] = probes[p][n]
  BY <1>2 DEF WriteNight, ProbeTypes
<1>4. task'[p] = task[p]
  BY DEF WriteNight
<1>5. attempt[p].step \in {"calendar", "probe"}
  BY DEF AttemptInv
<1>6. \A n \in Stays : NightKnown(p, n) => NightKnown(p, n)'
  BY <1>3 DEF NightKnown
<1>7. probes[p][d] \notin Usable
  BY <1>2 DEF AttemptInv
<1>8. \A n \in Stays : n < d + 1 <=> n < d \/ n = d
  BY NightFacts
<1>9. ASSUME NEW n \in Stays, n \in attempt[p].skip \/ n < d + 1 PROVE NightKnown(p, n)'
  <2>1. CASE n = d
    BY <1>3, <2>1 DEF NightKnown
  <2>2. CASE n # d
    <3>1. NightKnown(p, n)
      BY <1>8, <1>9, <2>2 DEF AttemptInv
    <3> QED
      BY <1>6, <3>1
  <2> QED
    BY <2>1, <2>2
<1>10. ASSUME NEW n \in Stays, probes'[p][n] \in Usable PROVE n \in attempt[p].skip \/ n < d + 1
  BY <1>3, <1>8, <1>10 DEF AttemptInv
<1>11. task'[p] = "done" => \A n \in Stays : NightKnown(p, n)'
  BY <1>4, <1>6 DEF AttemptInv
<1>12. AttemptInv(p)'
  <2> HIDE DEF d
  <2> QED
    BY <1>1, <1>5, <1>9, <1>10, <1>11 DEF AttemptInv, At, Reading
<1> QED
  BY <1>3, <1>7, <1>12

\* An action that changes no row of a night, nor whether the job is done.
LEMMA MoveInv ==
    ASSUME ProbeTypes, NEW p \in Processes, AttemptInv(p), probes'[p] = probes[p],
           task'[p] = "done" => task[p] = "done",
           attempt'[p].pc = "idle" <=> attempt'[p].step = "none",
           attempt'[p].pc = "night" => attempt'[p].step \in {"calendar", "probe"},
           attempt'[p].step = "probe" /\ attempt'[p].pc # "night" =>
               attempt'[p].night < Horizon /\ attempt'[p].night \notin attempt'[p].skip,
           attempt'[p].pc \in Reading => session'[p].used < SessionRequests,
           \A n \in Stays : n \in attempt'[p].skip \/ n < attempt'[p].night => NightKnown(p, n),
           attempt'[p].pc = "night" \/ attempt'[p].step = "probe" =>
               \A n \in Stays : probes[p][n] \in Usable => n \in attempt'[p].skip \/ n < attempt'[p].night
    PROVE  AttemptInv(p)'
<1>1. \A n \in Stays : NightKnown(p, n) => NightKnown(p, n)'
  BY DEF NightKnown
<1> QED
  BY <1>1 DEF AttemptInv, At, Reading

\* The same, when the attempt goes on where it is.
LEMMA GoInv ==
    ASSUME ProbeTypes, NEW p \in Processes, AttemptInv(p), NEW pc \in {"session"} \cup Reading,
           probes'[p] = probes[p], task'[p] = "done" => task[p] = "done",
           attempt[p].pc \notin {"idle", "night"},
           attempt'[p].pc = pc, attempt'[p].step = attempt[p].step, attempt'[p].night = attempt[p].night,
           attempt'[p].skip = attempt[p].skip,
           pc \in Reading => session'[p].used < SessionRequests
    PROVE  AttemptInv(p)'
<1>1. pc # "idle" /\ pc # "night" /\ attempt[p].step # "none"
  BY DEF Reading, AttemptInv, At
<1>2. \A n \in Stays : n \in attempt[p].skip \/ n < attempt[p].night => NightKnown(p, n)
  BY DEF AttemptInv
<1>3. attempt[p].step = "probe" =>
          /\ attempt[p].night < Horizon /\ attempt[p].night \notin attempt[p].skip
          /\ \A n \in Stays : probes[p][n] \in Usable => n \in attempt[p].skip \/ n < attempt[p].night
  BY DEF AttemptInv, At
<1> QED
  BY <1>1, <1>2, <1>3, MoveInv

RowsKept(p) == \A n \in Stays : probes[p][n] \in Usable => probes'[p][n] = probes[p][n]

LEMMA RaisedInv ==
    ASSUME ProbeTypes, NEW p \in Processes, AttemptInv(p), ~ At(p, "night"), Raised(p)
    PROVE  AttemptInv(p)' /\ RowsKept(p)
<1>1. CASE attempt[p].step = "probe"
  BY <1>1, WriteInv DEF AttemptInv, Raised, RowsKept
<1>2. CASE attempt[p].step # "probe"
  <2>1. EndAttempt(p, "failed") /\ UNCHANGED probes
    BY <1>2 DEF Raised
  <2> QED
    BY <2>1, EndInv DEF NightKnown, RowsKept
<1> QED
  BY <1>1, <1>2

LEMMA TakeInv ==
    ASSUME ProbeTypes, NEW p \in Processes, AttemptInv(p),
           \/ TakeJob(p) \/ TakePage(p) \/ KeepSession(p) \/ Acquire(p) \/ FinishJob(p)
    PROVE  AttemptInv(p)' /\ RowsKept(p)
<1>k. ASSUME UNCHANGED probes PROVE RowsKept(p)
  BY <1>k DEF RowsKept
<1>1. CASE TakeJob(p)
  <2>1. /\ attempt'[p].pc = "session" /\ attempt'[p].step = "calendar"
        /\ attempt'[p].night = 0 /\ attempt'[p].skip = {} /\ UNCHANGED <<probes, task>>
    BY <1>1 DEF TakeJob, NoAttempt, ProbeTypes
  <2>2. \A n \in Stays : ~ (n < 0)
    BY DEF Stays
  <2>3. AttemptInv(p)'
    BY <2>1, <2>2, MoveInv DEF Reading
  <2> QED
    BY <1>k, <2>1, <2>3
<1>2. CASE TakePage(p)
  <2>1. /\ attempt'[p].pc = "session" /\ attempt'[p].step = "page"
        /\ attempt'[p].night = attempt[p].night /\ attempt'[p].skip = attempt[p].skip
        /\ UNCHANGED <<probes, task>>
    BY <1>2, RecordParts DEF TakePage, ProbeTypes
  <2>2. \A n \in Stays : n \in attempt[p].skip \/ n < attempt[p].night => NightKnown(p, n)
    BY DEF AttemptInv
  <2>3. AttemptInv(p)'
    BY <2>1, <2>2, MoveInv DEF Reading
  <2> QED
    BY <1>k, <2>1, <2>3
<1>3. ASSUME NEW pc \in Reading, Go(p, pc)
      PROVE  /\ attempt'[p].pc = pc /\ attempt'[p].step = attempt[p].step
             /\ attempt'[p].night = attempt[p].night /\ attempt'[p].skip = attempt[p].skip
  BY <1>3, RecordParts DEF Go, ProbeTypes
<1>4. CASE KeepSession(p)
  <2>1. /\ Go(p, "ask") /\ attempt[p].pc = "session" /\ session'[p].used < SessionRequests
        /\ UNCHANGED <<probes, task>> /\ "ask" \in Reading
    BY <1>4 DEF KeepSession, Fresh, At, Reading
  <2>2. AttemptInv(p)'
    BY <1>3, <2>1, GoInv
  <2> QED
    BY <1>k, <2>1, <2>2
<1>5. CASE Acquire(p)
  <2>1. /\ Go(p, "send") \/ Go(p, "wait")
        /\ attempt[p].pc = "ask" /\ UNCHANGED <<probes, task, session>> /\ {"ask", "wait", "send"} = Reading
    BY <1>5 DEF Acquire, At, Reading
  <2>2. session'[p].used < SessionRequests
    BY <2>1 DEF AttemptInv
  <2>3. AttemptInv(p)'
    BY <1>3, <2>1, <2>2, GoInv
  <2> QED
    BY <1>k, <2>1, <2>3
<1>6. CASE FinishJob(p)
  <2>1. UNCHANGED probes /\ EndAttempt(p, "done") /\ attempt[p].night >= Horizon
    BY <1>6 DEF FinishJob, Over
  <2>2. \A n \in Stays : NightKnown(p, n)
    <3>1. \A n \in Stays : n < attempt[p].night
      BY <2>1, NightFacts, Zenon
    <3> QED
      BY <3>1 DEF AttemptInv
  <2>3. AttemptInv(p)'
    BY <2>1, <2>2, EndInv DEF NightKnown
  <2> QED
    BY <1>k, <2>1, <2>3
<1> QED
  BY <1>1, <1>2, <1>4, <1>5, <1>6

LEMMA SessionInv ==
    ASSUME ProbeTypes, NEW p \in Processes, AttemptInv(p),
           \/ SessionAges(p) \/ OpenSession(p) \/ BootstrapFails(p) \/ AcquireFails(p) \/ ProcessDies(p)
           \/ \E t \in 1..Templates : TripEnds(p, t)
    PROVE  AttemptInv(p)' /\ RowsKept(p)
<1>k. ASSUME UNCHANGED probes PROVE RowsKept(p)
  BY <1>k DEF RowsKept
<1>1. CASE SessionAges(p) \/ \E t \in 1..Templates : TripEnds(p, t)
  <2>1. UNCHANGED <<attempt, task, probes>> /\ (session'[p] = session[p] \/ session'[p].used = 0)
    BY <1>1 DEF SessionAges, TripEnds, NoSession, ProbeTypes
  <2>2. attempt'[p].pc \in Reading => session'[p].used < SessionRequests
    BY <2>1, Bounds DEF AttemptInv
  <2>3. AttemptInv(p)'
    BY <2>1, <2>2 DEF AttemptInv, At, NightKnown, Reading
  <2> QED
    BY <1>k, <2>1, <2>3
<1>2. CASE OpenSession(p)
  <2>1. /\ attempt'[p].pc = "ask" /\ attempt'[p].step = attempt[p].step
        /\ attempt'[p].night = attempt[p].night /\ attempt'[p].skip = attempt[p].skip
        /\ attempt[p].pc = "session" /\ UNCHANGED <<probes, task>> /\ session'[p].used = 0
    BY <1>2, RecordParts DEF OpenSession, Go, At, ProbeTypes
  <2>2. AttemptInv(p)'
    BY <2>1, Bounds, GoInv DEF Reading
  <2> QED
    BY <1>k, <2>1, <2>2
<1>3. CASE BootstrapFails(p) \/ AcquireFails(p)
  BY <1>3, RaisedInv DEF BootstrapFails, AcquireFails, At
<1>4. CASE ProcessDies(p)
  <2>1. /\ attempt'[p].pc = "idle" /\ attempt'[p].step = "none" /\ attempt'[p].night = 0
        /\ attempt'[p].skip = {} /\ UNCHANGED <<probes, task>>
    BY <1>4 DEF ProcessDies, NoAttempt, ProbeTypes
  <2>2. \A n \in Stays : ~ (n < 0)
    BY DEF Stays
  <2>3. AttemptInv(p)'
    BY <2>1, <2>2, MoveInv DEF Reading
  <2> QED
    BY <1>k, <2>1, <2>3
<1> QED
  BY <1>1, <1>2, <1>3, <1>4

LEMMA AnswerInv ==
    ASSUME ProbeTypes, NEW p \in Processes, AttemptInv(p),
           CalendarAnswered(p) \/ NextNight(p) \/ ProbeAnswered(p) \/ PageAnswered(p)
    PROVE  AttemptInv(p)' /\ RowsKept(p)
<1>k. ASSUME UNCHANGED probes PROVE RowsKept(p)
  BY <1>k DEF RowsKept
<1>1. ASSUME NEW what, NEW closed \in SUBSET Stays, AskCalendar(p, what, closed)
      PROVE  AttemptInv(p)' /\ RowsKept(p)
  <2>1. /\ attempt'[p].pc = "night" /\ attempt'[p].step = "calendar" /\ UNCHANGED <<probes, task>>
        /\ attempt'[p].night = attempt[p].night /\ attempt'[p].skip = Aside(p)
    BY <1>1, RecordParts DEF AskCalendar, ProbeTypes
  <2>2. \A n \in Aside(p) : NightKnown(p, n)
    BY DEF Aside, NightKnown, Usable
  <2>3. \A n \in Stays : probes[p][n] \in Usable => n \in Aside(p)
    BY DEF Aside
  <2>4. \A n \in Stays : n < attempt[p].night => NightKnown(p, n)
    BY DEF AttemptInv
  <2>5. AttemptInv(p)'
    BY <2>1, <2>2, <2>3, <2>4, MoveInv DEF Reading
  <2> QED
    BY <1>k, <2>1, <2>5
<1>2. CASE NextNight(p)
  <2> DEFINE d == attempt[p].night
  <2>1. /\ attempt[p].pc = "night" /\ d < Horizon /\ d \in 0..Horizon /\ UNCHANGED session
        /\ attempt[p].step \in {"calendar", "probe"}
    BY <1>2, NightFacts DEF NextNight, Over, At, AttemptInv
  <2>2. /\ \A n \in Stays : n \in attempt[p].skip \/ n < d => NightKnown(p, n)
        /\ \A n \in Stays : probes[p][n] \in Usable => n \in attempt[p].skip \/ n < d
    BY <2>1 DEF AttemptInv, At
  <2>3. CASE d \in attempt[p].skip
    <3>1. /\ attempt'[p].pc = attempt[p].pc /\ attempt'[p].step = attempt[p].step
          /\ attempt'[p].night = d + 1 /\ attempt'[p].skip = attempt[p].skip /\ UNCHANGED <<probes, task>>
      BY <1>2, <2>3, RecordParts DEF NextNight, ProbeTypes
    <3>2. \A n \in Stays : n < d + 1 <=> n < d \/ n = d
      BY NightFacts, Zenon
    <3> HIDE DEF d
    <3>3. AttemptInv(p)'
      BY <2>1, <2>2, <2>3, <3>1, <3>2, MoveInv DEF Reading
    <3> QED
      BY <1>k, <3>1, <3>3
  <2>4. CASE d \notin attempt[p].skip /\ d \in attempt[p].closed
    <3>1. WriteNight(p, "skipped")
      BY <1>2, <2>4 DEF NextNight
    <3> QED
      BY <2>1, <2>4, <3>1, WriteInv DEF At, RowsKept
  <2>5. CASE d \notin attempt[p].skip /\ d \notin attempt[p].closed
    <3>1. /\ attempt'[p].pc = "session" /\ attempt'[p].step = "probe"
          /\ attempt'[p].night = d /\ attempt'[p].skip = attempt[p].skip /\ UNCHANGED <<probes, task>>
      <4>1. /\ UNCHANGED <<probes, task>>
            /\ attempt' = [attempt EXCEPT ![p] = [attempt[p] EXCEPT !.pc = "session", !.step = "probe",
                                                                   !.blocked = 0, !.transient = 0]]
        BY <1>2, <2>5 DEF NextNight
      <4>2. attempt'[p] = [attempt[p] EXCEPT !.pc = "session", !.step = "probe", !.blocked = 0, !.transient = 0]
        BY <4>1 DEF ProbeTypes
      <4> QED
        BY <4>1, <4>2, AskedAgain
    <3> HIDE DEF d
    <3>2. AttemptInv(p)'
      BY <2>1, <2>2, <2>5, <3>1, MoveInv DEF Reading
    <3> QED
      BY <1>k, <3>1, <3>2
  <2> QED
    BY <2>3, <2>4, <2>5
<1>3. ASSUME NEW what \in AnswerKinds, NEW five \in BOOLEAN, NEW b \in ProbeStatuses, Answer(p, what, five, b)
      PROVE  AttemptInv(p)' /\ RowsKept(p)
  <2>1. /\ attempt[p].pc = "send" /\ attempt[p].step = "probe" /\ "none" \notin ProbeStatuses
        /\ attempt[p].night < Horizon /\ attempt[p].night \notin attempt[p].skip
    BY <1>3 DEF Answer, AttemptInv, At, ProbeStatuses, Usable
  <2>2. ASSUME NEW status, status # "none", WriteNight(p, status) PROVE AttemptInv(p)' /\ RowsKept(p)
    BY <2>1, <2>2, WriteInv DEF RowsKept
  <2>3. CASE \E counter \in {"blocked", "transient"} : Again(p, counter)
    <3>1. /\ attempt'[p].pc = "session" /\ attempt'[p].step = attempt[p].step
          /\ attempt'[p].night = attempt[p].night /\ attempt'[p].skip = attempt[p].skip
          /\ UNCHANGED <<probes, task>>
      BY <2>3, RecordParts DEF Again, ProbeTypes
    <3>2. AttemptInv(p)'
      BY <2>1, <3>1, GoInv DEF Reading
    <3> QED
      BY <1>k, <3>1, <3>2
  <2>4. CASE Browse(p, b)
    BY <2>1, <2>2, <2>4 DEF Browse
  <2>5. CASE \E status \in {"error", "ok", "sold_out"} : Write(p, status)
    BY <2>2, <2>5 DEF Write
  <2>6. CASE /\ probes' = [probes EXCEPT ![p][attempt[p].night] = "error"]
             /\ EndAttempt(p, "broken") /\ UNCHANGED provider
    <3> DEFINE d == attempt[p].night
    <3>1. d \in Stays /\ ~ (d < d)
      BY <2>1, NightFacts
    <3>2. probes'[p][d] = "error" /\ \A n \in Stays : n # d => probes'[p][n] = probes[p][n]
      BY <2>6, <3>1 DEF ProbeTypes
    <3>3. probes[p][d] \notin Usable
      BY <2>1, <3>1 DEF AttemptInv
    <3>4. \A n \in Stays : NightKnown(p, n) => NightKnown(p, n)'
      BY <3>2 DEF NightKnown
    <3> HIDE DEF d
    <3>5. RowsKept(p)
      BY <3>2, <3>3 DEF RowsKept
    <3> QED
      BY <2>6, <3>4, <3>5, EndInv
  <2> QED
    BY <1>3, <2>3, <2>4, <2>5, <2>6, AnswerCases
<1>4. CASE PageAnswered(p)
  <2>1. EndAttempt(p, "done") /\ attempt[p].step = "page" /\ UNCHANGED probes
    BY <1>4 DEF PageAnswered
  <2>2. AttemptInv(p)'
    BY <2>1, EndInv DEF NightKnown
  <2> QED
    BY <1>k, <2>1, <2>2
<1>5. CASE CalendarAnswered(p)
  <2>1. {} \in SUBSET Stays
    OBVIOUS
  <2> QED
    BY <1>1, <1>5, <2>1 DEF CalendarAnswered
<1>6. CASE ProbeAnswered(p)
  BY <1>3, <1>6, ProbeAnswers
<1> QED
  BY <1>2, <1>4, <1>5, <1>6

\* Every step keeps what the attempts know, and no usable row is replaced.
LEMMA AttemptStep ==
    ASSUME ProbeInv, [ProbeNext]_probeVars, NEW q \in Processes PROVE AttemptInv(q)' /\ RowsKept(q)
<1> USE DEF ProbeInv
<1>1. ASSUME SameOf(q) PROVE AttemptInv(q)' /\ RowsKept(q)
  <2>1. AttemptInv(q)'
    BY <1>1, SameAttempt
  <2> QED
    BY <1>1, <2>1 DEF SameOf, RowsKept
<1>2. ASSUME NEW p \in Processes, Actions(p) PROVE AttemptInv(q)' /\ RowsKept(q)
  <2>1. CASE p = q
    BY <1>2, <2>1, TakeInv, SessionInv, AnswerInv DEF Actions
  <2>2. CASE p # q
    BY <1>1, <1>2, <2>2, OthersStay
  <2> QED
    BY <2>1, <2>2
<1>3. CASE NewMinute
  <2>1. UNCHANGED <<session, task, probes>>
    BY <1>3 DEF NewMinute
  <2>2. CASE attempt[q].pc = "wait"
    <3>1. /\ attempt'[q].pc = "ask" /\ attempt'[q].step = attempt[q].step
          /\ attempt'[q].night = attempt[q].night /\ attempt'[q].skip = attempt[q].skip
      BY <1>3, <2>2, RecordParts DEF NewMinute, At
    <3>2. session'[q].used < SessionRequests
      BY <2>1, <2>2 DEF AttemptInv, Reading
    <3> QED
      BY <2>1, <2>2, <3>1, <3>2, GoInv DEF Reading, RowsKept
  <2>3. CASE attempt[q].pc # "wait"
    <3>1. attempt'[q] = attempt[q]
      BY <1>3, <2>3 DEF NewMinute, At
    <3>2. AttemptInv(q)'
      BY <2>1, <3>1 DEF AttemptInv, At, NightKnown, Reading
    <3> QED
      BY <2>1, <3>2 DEF RowsKept
  <2> QED
    BY <2>2, <2>3
<1>4. ASSUME NEW down \in Checks, CheckProxies(down) PROVE AttemptInv(q)' /\ RowsKept(q)
  BY <1>1, <1>4 DEF CheckProxies, SameOf
<1>5. CASE UNCHANGED probeVars
  BY <1>1, <1>5 DEF probeVars, SameOf
<1> QED
  BY <1>2, <1>3, <1>4, <1>5, Steps

-----------------------------------------------------------------------------
(* The turns at the proxies.                                                 *)

\* How far ahead a template is, and that the turn moves on past the one taken.
LEMMA AheadFacts ==
    ASSUME NEW v \in Providers, NEW t \in 1..Templates
    PROVE  /\ Ahead(v, t) \in 0..(Templates - 1) /\ Turn(v, Ahead(v, t)) = t
           /\ \A k \in 0..(Templates - 1) : Ahead(v, Turn(v, k)) = k
<1>1. v.next \in 0..Templates /\ Templates \in Nat \ {0} /\ t \in Nat /\ 1 <= t /\ t <= Templates
  BY Bounds DEF Providers
<1>2. Ahead(v, t) \in 0..(Templates - 1)
  BY <1>1 DEF Ahead
<1>3. Turn(v, Ahead(v, t)) = t
  BY <1>1, <1>2, TurnType DEF Ahead
<1>4. ASSUME NEW k \in 0..(Templates - 1) PROVE Ahead(v, Turn(v, k)) = k
  <2>1. Turn(v, k) = IF v.next + k < Templates THEN v.next + k + 1 ELSE v.next + k + 1 - Templates
    BY TurnType
  <2> QED
    BY <1>1, <2>1 DEF Ahead
<1> QED
  BY <1>2, <1>3, <1>4

LEMMA AheadMoves ==
    ASSUME NEW v \in Providers, NEW u \in Providers, NEW t \in 1..Templates, u.next = t
    PROVE  /\ Ahead(u, t) = Templates - 1
           /\ \A x \in 1..Templates : x # t => Ahead(u, x) < Templates - 1
           /\ \A x \in 1..Templates : Ahead(v, t) < Ahead(v, x) => Ahead(u, x) = Ahead(v, x) - Ahead(v, t) - 1
<1>1. v.next \in 0..Templates /\ Templates \in Nat \ {0} /\ t \in Nat /\ 1 <= t /\ t <= Templates
  BY Bounds DEF Providers
<1>2. Ahead(u, t) = Templates - 1
  BY <1>1 DEF Ahead
<1>3. ASSUME NEW x \in 1..Templates, x # t PROVE Ahead(u, x) < Templates - 1
  BY <1>1, <1>3 DEF Ahead
<1>4. ASSUME NEW x \in 1..Templates, Ahead(v, t) < Ahead(v, x)
      PROVE  Ahead(u, x) = Ahead(v, x) - Ahead(v, t) - 1
  BY <1>1, <1>4 DEF Ahead
<1> QED
  BY <1>2, <1>3, <1>4

\* The template picked is not further ahead than any healthy one.
LEMMA PickIsNext ==
    ASSUME NEW v \in Providers, NEW w \in 1..Templates, Healthy(v, w)
    PROVE  Ahead(v, Pick(v)) <= Ahead(v, w)
<1> DEFINE good == {k \in 0..(Templates - 1) : Healthy(v, Turn(v, k))}
<1> DEFINE k0 == CHOOSE k \in good : \A j \in good : k <= j
<1>1. Ahead(v, w) \in good
  BY AheadFacts
<1>2. \E k \in good : \A j \in good : k <= j
  <2>1. good \in SUBSET Nat /\ good # {}
    BY <1>1
  <2> HIDE DEF good
  <2> QED
    BY <2>1, LeastElement
<1>3. k0 \in good /\ \A j \in good : k0 <= j
  BY <1>2
<1>4. Pick(v) = Turn(v, k0)
  BY <1>1 DEF Pick
<1>5. Ahead(v, Turn(v, k0)) = k0
  <2>1. k0 \in 0..(Templates - 1) /\ w \in 1..Templates
    BY <1>3
  <2> HIDE DEF k0
  <2> QED
    BY <2>1, AheadFacts
<1> QED
  BY <1>1, <1>3, <1>4, <1>5

\* After a session that opened, or in the middle of one, nothing was wasted.
LEMMA NothingWasted ==
    ASSUME NEW p, streak'[p] = 0, Working \cap provider'[p].tripped = {} PROVE FailoverInv(p)'
<1>1. Cardinality({}) = 0
  BY FS_EmptySet
<1> QED
  BY <1>1 DEF FailoverInv

\* Steps that do not pick a template.
LEMMA TurnStays ==
    ASSUME NEW p, FailoverInv(p), streak'[p] = streak[p],
           provider'[p].next = provider[p].next, provider'[p].shared = provider[p].shared,
           provider'[p].tripped \subseteq provider[p].tripped,
           session'[p].on \/ attempt'[p].pc \in Reading => streak[p] = 0
    PROVE  FailoverInv(p)'
<1>1. \A t : Ahead(provider[p], t)' = Ahead(provider'[p], t) /\ Ahead(provider'[p], t) = Ahead(provider[p], t)
  BY DEF Ahead
<1> QED
  BY <1>1 DEF FailoverInv, Reading

\* A session that does not open: the template is one of those that do not
\* work, and it was not counted yet.
LEMMA FailureCounts ==
    ASSUME ProbeTypes, ProbeTypes', NEW p \in Processes, FailoverInv(p), BootstrapFails(p)
    PROVE  FailoverInv(p)'
<1> DEFINE v == provider[p]
<1> DEFINE t == Pick(v)
<1> DEFINE u == Failed(Rotated(v, t), t)
<1>1. v \in Providers /\ u \in Providers /\ t \in 1..Templates
  BY PickType, ProviderTypes DEF ProbeTypes
<1>2. /\ t \notin Working /\ provider'[p] = u /\ session'[p] = NoSession /\ streak'[p] = streak[p] + 1
      /\ streak[p] \in Nat
  BY DEF BootstrapFails, ProbeTypes
<1>3. u.next = t /\ u.shared = v.shared /\ u.tripped \subseteq v.tripped \cup {t}
  <2>1. v = [next |-> v.next, fails |-> v.fails, tripped |-> v.tripped, shared |-> v.shared]
    BY <1>1 DEF Providers
  <2> HIDE DEF v, t
  <2> QED
    BY <2>1 DEF u, Failed, Rotated
<1>4. attempt'[p].pc \notin Reading
  <2>1. Raised(p)
    BY DEF BootstrapFails
  <2>2. ASSUME WriteNight(p, "error") PROVE attempt'[p].pc = "night"
    BY <2>2, RecordParts DEF WriteNight, ProbeTypes
  <2>3. ASSUME EndAttempt(p, "failed") PROVE attempt'[p].pc = "idle"
    BY <2>3 DEF EndAttempt, NoAttempt, ProbeTypes
  <2> QED
    BY <2>1, <2>2, <2>3 DEF Raised, Reading
<1>5. Working \cap v.tripped = {} /\ Working \subseteq 1..Templates
  BY DEF FailoverInv
<1>6. ASSUME Working \ v.shared # {}
      PROVE  \E F \in SUBSET ((1..Templates) \ Working) :
                 /\ Cardinality(F) = streak[p] + 1
                 /\ \A f \in F, w \in Working \ v.shared : Ahead(u, w) < Ahead(u, f)
  <2>1. PICK F \in SUBSET ((1..Templates) \ Working) :
            /\ Cardinality(F) = streak[p]
            /\ \A f \in F, w \in Working \ v.shared : Ahead(v, w) < Ahead(v, f)
    BY <1>6 DEF FailoverInv
  <2> HIDE DEF v, t, u
  <2>2. \A x \in 1..Templates : Ahead(v, x) \in Nat /\ Ahead(u, x) \in Nat
    BY <1>1, AheadFacts
  <2>3. ASSUME NEW w \in Working \ v.shared PROVE Ahead(v, t) < Ahead(v, w)
    <3>1. w \in 1..Templates /\ Healthy(v, w)
      BY <1>5 DEF Healthy
    <3>2. Ahead(v, t) <= Ahead(v, w)
      BY <1>1, <3>1, PickIsNext DEF t
    <3>3. Turn(v, Ahead(v, t)) = t /\ Turn(v, Ahead(v, w)) = w /\ t # w
      BY <1>1, <1>2, <3>1, AheadFacts
    <3>4. Ahead(v, t) # Ahead(v, w)
      BY <3>3
    <3> QED
      BY <1>1, <2>2, <3>1, <3>2, <3>4
  <2>4. PICK w0 : w0 \in Working \ v.shared
    BY <1>6
  <2>5. t \notin F
    <3>1. Ahead(v, t) < Ahead(v, w0) /\ Ahead(v, t) \in Nat /\ Ahead(v, w0) \in Nat
      BY <1>1, <1>5, <2>2, <2>3, <2>4
    <3>2. t \in F => Ahead(v, w0) < Ahead(v, t)
      BY <2>1, <2>4
    <3> QED
      BY <3>1, <3>2
  <2>6. IsFiniteSet(F) /\ Cardinality(F \cup {t}) = streak[p] + 1
    <3>1. IsFiniteSet(1..Templates)
      BY Bounds, FS_Interval
    <3>2. IsFiniteSet(F)
      BY <2>1, <3>1, FS_Subset
    <3> QED
      BY <2>1, <2>5, <3>2, FS_AddElement
  <2>7. ASSUME NEW f \in F \cup {t}, NEW w \in Working \ v.shared PROVE Ahead(u, w) < Ahead(u, f)
    <3>1. w \in 1..Templates /\ w # t /\ Ahead(v, t) < Ahead(v, w)
      BY <1>2, <1>5, <2>3
    <3>2. CASE f = t
      BY <1>1, <1>3, <3>1, <3>2, AheadMoves
    <3>3. CASE f \in F
      <4>1. f \in 1..Templates /\ Ahead(v, w) < Ahead(v, f)
        BY <2>1, <3>3
      <4>2. Ahead(v, t) < Ahead(v, f)
        BY <1>1, <2>2, <3>1, <4>1
      <4>3. /\ Ahead(u, f) = Ahead(v, f) - Ahead(v, t) - 1
            /\ Ahead(u, w) = Ahead(v, w) - Ahead(v, t) - 1
        BY <1>1, <1>3, <3>1, <4>1, <4>2, AheadMoves
      <4> QED
        BY <1>1, <2>2, <3>1, <4>1, <4>3
    <3> QED
      BY <3>2, <3>3
  <2>8. F \cup {t} \in SUBSET ((1..Templates) \ Working)
    BY <1>1, <1>2, <2>1
  <2> QED
    BY <2>6, <2>7, <2>8
<1>7. \A x : Ahead(provider[p], x)' = Ahead(provider'[p], x)
  BY DEF Ahead
<1> HIDE DEF u, t
<1> QED
  BY <1>2, <1>3, <1>4, <1>5, <1>6, <1>7 DEF FailoverInv, Reading, NoSession

LEMMA FailoverOwnStep ==
    ASSUME ProbeTypes, ProbeTypes', NEW p \in Processes, FailoverInv(p), Actions(p)
    PROVE  FailoverInv(p)'
<1>0. provider[p] \in Providers /\ Working \cap provider[p].tripped = {}
  BY DEF ProbeTypes, FailoverInv
<1>a. ASSUME NEW t \in 1..Templates
      PROVE  Rotated(provider[p], t).tripped = provider[p].tripped
  BY <1>0 DEF Rotated, Providers
<1>w. ASSUME attempt[p].pc \in Reading \/ session[p].on, UNCHANGED streak, UNCHANGED provider
      PROVE  FailoverInv(p)'
  BY <1>0, <1>w, NothingWasted DEF FailoverInv
<1>1. CASE TakeJob(p)
  <2>1. /\ provider'[p] = [provider[p] EXCEPT !.shared = health] /\ attempt'[p].pc = "session"
        /\ session' = session
        /\ streak'[p] = IF health = provider[p].shared THEN streak[p] ELSE 0
    BY <1>1 DEF TakeJob, NoAttempt, ProbeTypes
  <2>2. /\ provider'[p].next = provider[p].next /\ provider'[p].tripped = provider[p].tripped
        /\ provider'[p].shared = health
    BY <1>0, <2>1 DEF Providers
  <2>3. CASE health = provider[p].shared
    BY <2>1, <2>2, <2>3, TurnStays DEF FailoverInv, Reading
  <2>4. CASE health # provider[p].shared
    BY <1>0, <2>1, <2>2, <2>4, NothingWasted
  <2> QED
    BY <2>3, <2>4
<1>2. CASE TakePage(p)
  <2>1. attempt'[p].pc = "session" /\ UNCHANGED <<provider, session, streak>>
    BY <1>2, RecordParts DEF TakePage, ProbeTypes
  <2> QED
    BY <2>1, TurnStays DEF FailoverInv, Reading
<1>3. CASE KeepSession(p) \/ SessionAges(p)
  BY <1>w, <1>3 DEF KeepSession, SessionAges, Fresh
<1>4. CASE Acquire(p)
  BY <1>w, <1>4 DEF Acquire, At, Reading
<1>5. CASE FinishJob(p)
  <2>1. attempt'[p].pc = "idle" /\ UNCHANGED <<provider, session, streak>>
    BY <1>5 DEF FinishJob, EndAttempt, NoAttempt, ProbeTypes
  <2> QED
    BY <2>1, TurnStays DEF FailoverInv, Reading
<1>6. CASE OpenSession(p)
  <2> DEFINE t == Pick(provider[p])
  <2>1. t \in 1..Templates
    BY <1>0, PickType
  <2>2. Rotated(provider[p], t) \in Providers
    BY <1>0, <2>1, ProviderTypes
  <2> HIDE DEF t
  <2>3. Succeeded(Rotated(provider[p], t), t).tripped \subseteq provider[p].tripped
    BY <1>a, <2>1, <2>2 DEF Succeeded, Providers
  <2>4. provider'[p] = Succeeded(Rotated(provider[p], t), t) /\ streak'[p] = 0
    BY <1>6 DEF OpenSession, ProbeTypes, t
  <2> QED
    BY <1>0, <2>3, <2>4, NothingWasted
<1>7. CASE BootstrapFails(p)
  BY <1>7, FailureCounts
<1>8. CASE AcquireFails(p)
  BY <1>w, <1>8 DEF AcquireFails, At, Reading
<1>9. CASE ProcessDies(p)
  <2>1. provider'[p].tripped = {} /\ streak'[p] = 0
    BY <1>9 DEF ProcessDies, NewProvider, ProbeTypes
  <2> QED
    BY <2>1, NothingWasted
<1>10. ASSUME NEW t \in 1..Templates, TripEnds(p, t) PROVE FailoverInv(p)'
  <2>1. /\ provider'[p] = [provider[p] EXCEPT !.tripped = @ \ {t}]
        /\ UNCHANGED <<session, attempt, streak>>
    BY <1>10 DEF TripEnds, ProbeTypes
  <2>2. /\ provider'[p].next = provider[p].next /\ provider'[p].shared = provider[p].shared
        /\ provider'[p].tripped \subseteq provider[p].tripped
    BY <1>0, <2>1 DEF Providers
  <2> QED
    BY <2>1, <2>2, TurnStays DEF FailoverInv
<1>11. CASE CalendarAnswered(p) \/ PageAnswered(p)
  BY <1>w, <1>11 DEF CalendarAnswered, AskCalendar, PageAnswered, At, Reading
<1>12. CASE NextNight(p)
  <2>1. UNCHANGED <<provider, session, streak>>
    BY <1>12 DEF NextNight
  <2>2. attempt'[p].pc \in {"night", "session"}
    <3> DEFINE d == attempt[p].night
    <3>1. CASE d \in attempt[p].skip
      BY <1>12, <3>1, RecordParts DEF NextNight, At, ProbeTypes
    <3>2. CASE d \notin attempt[p].skip /\ d \in attempt[p].closed
      BY <1>12, <3>2, RecordParts DEF NextNight, WriteNight, ProbeTypes
    <3>3. CASE d \notin attempt[p].skip /\ d \notin attempt[p].closed
      <4>1. attempt' = [attempt EXCEPT ![p] = [attempt[p] EXCEPT !.pc = "session", !.step = "probe",
                                                                 !.blocked = 0, !.transient = 0]]
        BY <1>12, <3>3 DEF NextNight
      <4>2. attempt'[p] = [attempt[p] EXCEPT !.pc = "session", !.step = "probe", !.blocked = 0, !.transient = 0]
        BY <4>1 DEF ProbeTypes
      <4> QED
        BY <4>2, AskedAgain
    <3> QED
      BY <3>1, <3>2, <3>3
  <2> QED
    BY <2>1, <2>2, TurnStays DEF FailoverInv, Reading
<1>13. ASSUME NEW what \in AnswerKinds, NEW five \in BOOLEAN, NEW b \in ProbeStatuses, Answer(p, what, five, b)
       PROVE  FailoverInv(p)'
  <2>1. attempt[p].pc \in Reading /\ UNCHANGED streak
    BY <1>13 DEF Answer, At, Reading
  <2>2. ASSUME Browse(p, b) PROVE FailoverInv(p)'
    <3> DEFINE t == Pick(provider[p])
    <3>1. t \in 1..Templates
      BY <1>0, PickType
    <3>2. provider'[p] = Rotated(provider[p], t)
      BY <2>2 DEF Browse, ProbeTypes
    <3> HIDE DEF t
    <3>3. Working \cap provider'[p].tripped = {} /\ streak'[p] = 0
      BY <1>0, <1>a, <2>1, <3>1, <3>2 DEF FailoverInv
    <3> QED
      BY <3>3, NothingWasted
  <2>3. Browse(p, b) \/ UNCHANGED provider
    BY <1>13, AnswerCases DEF Again, Write
  <2> QED
    BY <1>w, <2>1, <2>2, <2>3
<1>14. CASE ProbeAnswered(p)
  BY <1>13, <1>14, ProbeAnswers
<1> QED
  BY <1>1, <1>2, <1>3, <1>4, <1>5, <1>6, <1>7, <1>8, <1>9, <1>10, <1>11, <1>12, <1>14 DEF Actions

LEMMA FailoverStep ==
    ASSUME ProbeInv, ProbeTypes', [ProbeNext]_probeVars, NEW q \in Processes PROVE FailoverInv(q)'
<1> USE DEF ProbeInv
<1>1. ASSUME provider'[q] = provider[q], session'[q] = session[q], streak'[q] = streak[q],
             attempt'[q].pc = attempt[q].pc \/ attempt[q].pc \in Reading
      PROVE  FailoverInv(q)'
  BY <1>1, TurnStays DEF FailoverInv
<1>2. ASSUME NEW p \in Processes, Actions(p) PROVE FailoverInv(q)'
  <2>1. CASE p = q
    BY <1>2, <2>1, FailoverOwnStep
  <2>2. CASE p # q
    BY <1>1, <1>2, <2>2, OthersStay DEF SameOf
  <2> QED
    BY <2>1, <2>2
<1>3. CASE NewMinute
  <2>1. attempt[q].pc # "wait" => attempt'[q] = attempt[q]
    BY <1>3 DEF NewMinute, At
  <2> QED
    BY <1>1, <1>3, <2>1 DEF NewMinute, Reading
<1>4. ASSUME NEW down \in Checks, CheckProxies(down) PROVE FailoverInv(q)'
  BY <1>1, <1>4 DEF CheckProxies
<1>5. CASE UNCHANGED probeVars
  BY <1>1, <1>5 DEF probeVars
<1> QED
  BY <1>2, <1>3, <1>4, <1>5, Steps

-----------------------------------------------------------------------------
(* The theorems.                                                             *)

LEMMA Step == ProbeInv /\ [ProbeNext]_probeVars => ProbeInv'
<1> SUFFICES ASSUME ProbeInv, [ProbeNext]_probeVars PROVE ProbeInv'
    OBVIOUS
<1>1. ProbeTypes'
  BY StepTypes
<1>2. BudgetInv'
  BY BudgetStep DEF ProbeInv
<1>3. \A p \in Processes : AttemptInv(p)' /\ FailoverInv(p)'
  BY <1>1, AttemptStep, FailoverStep
<1> QED
  BY <1>1, <1>2, <1>3 DEF ProbeInv

\* The invariant holds throughout, whatever the processes, minutes and checks
\* do to each other.
THEOREM ProbeInvariant == ProbeSpec => []ProbeInv
BY InitInv, Step, PTL DEF ProbeSpec

\* Every variable stays in its range: a session never serves more than
\* SessionRequests, an attempt retries within its limits, a job is tried at
\* most Attempts times.
THEOREM ProbeTypeCorrect == ProbeSpec => []ProbeTypeOK
<1>1. ASSUME ProbeInv PROVE ProbeTypeOK
  <2>1. ASSUME NEW p \in Processes
        PROVE  /\ provider[p].next \in 0..Templates /\ provider[p].tripped \cup provider[p].shared \subseteq 1..Templates
               /\ provider[p].fails \in [1..Templates -> 0..(FailThreshold - 1)]
               /\ session[p].used \in 0..SessionRequests
               /\ task[p] \in Settled \cup {"none", "queued", "retrying"}
    BY <1>1 DEF ProbeInv, ProbeTypes, Providers, Sessions, TaskStatuses
  <2>2. ASSUME NEW p \in Processes
        PROVE  /\ attempt[p].night \in 0..Horizon /\ attempt[p].try \in 0..Attempts
               /\ attempt[p].blocked \in 0..HttpRetries /\ attempt[p].transient \in 0..TransientRetries
    BY <1>1, RecordParts DEF ProbeInv
  <2> QED
    BY <1>1, <2>1, <2>2 DEF ProbeTypeOK, ProbeInv, ProbeTypes, BudgetInv
<1> QED
  BY <1>1, ProbeInvariant, PTL

\* The channel's budget is never exceeded in a minute (budget.py, acquire).
THEOREM BudgetIsHeld == ProbeSpec => []BudgetHeld
<1>1. ProbeInv => BudgetHeld
  BY DEF ProbeInv, BudgetInv, BudgetHeld
<1> QED
  BY <1>1, ProbeInvariant, PTL

\* A process that cannot open sessions wastes at most one try on each template
\* that does not work, as long as one that does is not said to be down
\* (proxy.py, _pick).
THEOREM FailoverWastesOneEach == ProbeSpec => []FailoverIsQuick
<1>1. ASSUME ProbeInv PROVE FailoverIsQuick
  <2> SUFFICES ASSUME NEW p \in Processes, Working \ provider[p].shared # {}
               PROVE  streak[p] <= Templates - Cardinality(Working)
      BY DEF FailoverIsQuick
  <2>1. PICK F \in SUBSET ((1..Templates) \ Working) : Cardinality(F) = streak[p]
    BY <1>1 DEF ProbeInv, FailoverInv
  <2> DEFINE T == 1..Templates
  <2>2. IsFiniteSet(T) /\ Cardinality(T) = Templates
    <3>1. 1 \in Int /\ Templates \in Int
      BY Bounds
    <3>2. IsFiniteSet(1..Templates) /\ Cardinality(1..Templates) = IF 1 > Templates THEN 0 ELSE Templates - 1 + 1
      BY <3>1, FS_Interval, Zenon
    <3> QED
      BY <3>2, Bounds
  <2>3. Working \subseteq T
    OBVIOUS
  <2> HIDE DEF T
  <2>4. IsFiniteSet(T \ Working) /\ IsFiniteSet(Working)
    BY <2>2, <2>3, FS_Subset
  <2>5. Cardinality(F) <= Cardinality(T \ Working)
    BY <2>1, <2>4, FS_Subset DEF T
  <2>6. Cardinality(T) = Cardinality(T \ Working) + Cardinality(Working)
    <3> DEFINE R == T \ Working
    <3>1. T = R \cup Working /\ R \cap Working = {}
      BY <2>3
    <3> HIDE DEF R
    <3>2. Cardinality(R \cup Working) = Cardinality(R) + Cardinality(Working) - Cardinality(R \cap Working)
      BY <2>4, FS_Union, Zenon DEF R
    <3>3. Cardinality(R) \in Nat /\ Cardinality(Working) \in Nat
      BY <2>4, FS_CardinalityType, Zenon DEF R
    <3>4. Cardinality(R \cap Working) = 0
      BY <3>1, FS_EmptySet
    <3>5. Cardinality(T) = Cardinality(R) + Cardinality(Working)
      BY <3>1, <3>2, <3>3, <3>4
    <3> QED
      BY <3>5 DEF R
  <2>7. Cardinality(T \ Working) \in Nat /\ Cardinality(Working) \in Nat /\ streak[p] \in Nat
    BY <1>1, <2>4, FS_CardinalityType DEF ProbeInv, ProbeTypes
  <2> DEFINE c == Cardinality(T \ Working)  w == Cardinality(Working)  n == streak[p]
  <2>8. n <= c /\ Templates = c + w /\ c \in Nat /\ w \in Nat /\ n \in Nat
    BY <2>1, <2>2, <2>5, <2>6, <2>7
  <2> HIDE DEF c, w, n
  <2>9. n <= Templates - w
    BY <2>8
  <2> QED
    BY <2>9 DEF w, n
<1> QED
  BY <1>1, ProbeInvariant, PTL

\* A job reported done has a row for every night it was to look at, however
\* many attempts were cut short (worker/jobs.py, run_probe_hotel).
THEOREM DoneLookedEverywhere == ProbeSpec => []DoneIsComplete
<1>1. ProbeInv => DoneIsComplete
  BY DEF ProbeInv, AttemptInv, NightKnown, DoneIsComplete
<1> QED
  BY <1>1, ProbeInvariant, PTL

\* What a run has seen of a night is not replaced by a later attempt of the
\* job (_run_done_dates).
THEOREM UsableRowsStay == ProbeSpec => UsableIsKept
<1>1. ASSUME ProbeInv, [ProbeNext]_probeVars
      PROVE  [\A p \in Processes, n \in Stays : probes[p][n] \in Usable => probes'[p][n] = probes[p][n]]_probeVars
  BY <1>1, AttemptStep DEF RowsKept
<1> QED
  BY <1>1, ProbeInvariant, PTL DEF ProbeSpec, UsableIsKept

\* The attempts of the collector are whole: within their bounds, and done only
\* when every night was looked at.
THEOREM AttemptsAreWhole == ProbeSpec => []AttemptIsWhole
<1>1. ProbeTypeOK /\ DoneIsComplete => AttemptIsWhole
  BY DEF AttemptIsWhole
<1> QED
  BY <1>1, ProbeTypeCorrect, DoneLookedEverywhere, PTL

=============================================================================

------------------------- MODULE MarketRoundsProofs -------------------------
(* Proofs about MarketRounds, for every number of nights, rounds, days and   *)
(* faults, every set of workers and every times the assumption allows; and   *)
(* about MarketNight, for every area, every choice of filters and orders,    *)
(* every page size and every budget of requests.                             *)
EXTENDS MarketRounds, MarketNight, FiniteSetTheorems, WellFoundedInduction, TLAPS

-----------------------------------------------------------------------------
(* Numbers.                                                                  *)

\* The bounds, one by one.
LEMMA Bounds ==
    /\ RoundNights \in Nat /\ RoundNights > 0 /\ MaxRounds \in Nat /\ MaxRounds > 0
    /\ Stale \in Nat /\ Stale > 0 /\ JobTimeout \in Nat /\ JobTimeout > 0
    /\ KeepResult \in Nat /\ MaxDays \in Nat /\ RoundFaults \in Nat /\ JobTimeout <= KeepResult
BY RoundTimes

LEMMA SomeNight == 0 \in Nights
BY Bounds DEF Nights

\* A set of numbers that is not empty has a least one.
LEMMA LeastElement ==
    ASSUME NEW S \in SUBSET Nat, S # {}
    PROVE  \E x \in S : \A y \in S : x <= y
<1> DEFINE R == OpToRel(<, Nat)
<1>1. R = {ss \in Nat \X Nat : ss[1] < ss[2]}
  BY DEF OpToRel
<1>2. IsWellFoundedOn(R, Nat)
  BY NatLessThanWellFounded, Zenon
<1> HIDE DEF R
<1>3. PICK x \in S : \A y \in S : <<y, x>> \notin R
  BY <1>2, WFMin, Zenon
<1>4. \A y \in S : <<y, x>> \in Nat \X Nat /\ <<y, x>>[1] = y /\ <<y, x>>[2] = x
  OBVIOUS
<1>5. \A y \in S : ~ (y < x)
  BY <1>1, <1>3, <1>4
<1> QED
  BY <1>5

\* The night a chain is restarted at is the first one nobody tried.
LEMMA NextIsFirst ==
    ASSUME NEW r \in Nat, Unscanned(r) # {}
    PROVE  /\ NextUnscanned(r) \in Unscanned(r)
           /\ \A n \in Unscanned(r) : NextUnscanned(r) <= n
<1>1. Unscanned(r) \in SUBSET Nat
  BY Bounds DEF Unscanned, Nights
<1>2. \E n \in Unscanned(r) : \A m \in Unscanned(r) : n <= m
  BY <1>1, LeastElement
<1> QED
  BY <1>2 DEF NextUnscanned

-----------------------------------------------------------------------------
(* The inductive invariant.                                                  *)

Reads == [round : 0..MaxRounds, by : 0..MaxRounds, status : AreaStatus, quiet : 0..Stale,
          fresh : BOOLEAN, daily : BOOLEAN, today : BOOLEAN, active : BOOLEAN]
Places == [pc : {"rest", "claim", "push", "recover", "repush"}, round : 0..MaxRounds,
           read : Reads, night : Nights]
Jobs == [at : {"none", "queued", "executing", "kept"}, left : 0..(KeepResult + JobTimeout)]
Processes == [pc : {"idle", "check", "scan", "report", "next"}, round : 0..MaxRounds,
              night : Nights, age : 0..JobTimeout, out : {"none", "completed", "error", "blocked"}]

\* What the tick and the route read has the types of the area's row.
Types == RoundsTypeOK /\ actor \in [Actors -> Places]

Pushing(a) == actor[a].pc = "push"
Untouched(r) == \A n \in Nights : job[r][n].at = "none" /\ scanned[r][n] = 0

\* No actor, row or scan knows of a round that was not claimed.
Counted ==
    /\ area.round <= claims
    /\ \A n \in Nights : seenAt[n] <= claims
    /\ \A a \in Actors : /\ actor[a].round <= claims /\ actor[a].read.round <= claims
                         /\ actor[a].pc \in {"claim", "recover"} => actor[a].round = actor[a].read.round
                         /\ Pushing(a) => actor[a].round # 0
    /\ actor["tick"].pc = "repush" => actor["tick"].round # 0

\* Until its first push nothing exists of a round.
Unpushed ==
    /\ \A a, b \in Actors : a # b /\ Pushing(a) /\ Pushing(b) => actor[a].round # actor[b].round
    /\ \A a \in Actors : Pushing(a) => Untouched(actor[a].round)
    /\ \A r \in Rounds : r > claims => Untouched(r)

\* The tick restarts no chain of a round the route has yet to push: a row that
\* was just claimed is not silent, and neither is one restored from it.
Restarting ==
    \/ actor["tick"].pc \in {"claim", "recover"} /\ Silent(actor["tick"].read)
    \/ actor["tick"].pc = "repush"
NotYetSilent ==
    /\ Restarting /\ Pushing("route") => actor["tick"].round # actor["route"].round
    /\ \A a \in Actors : Pushing(a) =>
         /\ area.round = actor[a].round => area.quiet = 0
         /\ \A b \in Actors : Pushing(b) /\ actor[b].read.round = actor[a].round => actor[b].read.quiet = 0

\* What the area's round did not scan is older than it, and the same holds of
\* every round a failed push could bring back.
Own(q) == q # 0 => \A n \in Nights : seenAt[n] >= q => scanned[q][n] >= 1
OwnNights ==
    /\ Own(area.round)
    /\ \A a \in Actors : Pushing(a) /\ area.round = actor[a].round => Own(actor[a].read.round)
    /\ \A a, b \in Actors : Pushing(a) /\ Pushing(b) /\ area.round = actor[b].round
                            /\ actor[b].read.round = actor[a].round => Own(actor[a].read.round)

\* CompletedIsScanned, of the row and of what a failed push brings back.
Honest(x) == x.status = "completed" /\ x.by = x.round => Unscanned(x.round) = {}
AllHonest == Honest(area) /\ \A a \in Actors : Pushing(a) => Honest(actor[a].read)

\* A job exists for a night when those before it were tried.
Tried(r, n) == \A m \in Nights : m < n => seenAt[m] >= r
InOrder ==
    /\ \A r \in Rounds, n \in Nights : job[r][n].at \in {"queued", "executing"} => Tried(r, n)
    /\ actor["tick"].pc = "repush" => Tried(actor["tick"].round, actor["tick"].night)

\* The scans of a round are of its first nights, and no older than it.
Scanned(r, n) == scanned[r][n] >= 1
FirstNights ==
    /\ \A r \in Rounds, n \in Nights : Scanned(r, n) => seenAt[n] >= r
    /\ \A r \in Rounds, m \in Nights, n \in Nights : m < n /\ Scanned(r, n) => Scanned(r, m)

\* A process executes its job, and no other process does.
Busy(w) == proc[w].pc # "idle"
Apart(v, w) == proc[v].round # proc[w].round \/ proc[v].night # proc[w].night
OneProcess ==
    /\ \A w \in ListWorkers : Busy(w) =>
         /\ proc[w].round # 0 /\ job[proc[w].round][proc[w].night].at = "executing"
         /\ proc[w].pc = "check" => scanned[proc[w].round][proc[w].night] = 0
         /\ proc[w].pc # "check" => Scanned(proc[w].round, proc[w].night)
         /\ proc[w].pc = "next" => proc[w].night + 1 < RoundNights
    /\ \A v, w \in ListWorkers : v # w /\ Busy(v) /\ Busy(w) => Apart(v, w)

\* A night that was scanned is not pushed again: its id is refused as long as
\* the job of the night before, or the restart that would push it, can last.
Refused(r, n, age) ==
    \/ job[r][n].at = "executing"
    \/ job[r][n].at = "kept" /\ job[r][n].left + age >= KeepResult
NeverAgain ==
    /\ \A r \in Rounds, n \in Nights : job[r][n].at = "queued" => scanned[r][n] = 0
    /\ \A w \in ListWorkers : Busy(w) /\ proc[w].night + 1 < RoundNights =>
         (Scanned(proc[w].round, proc[w].night + 1) => Refused(proc[w].round, proc[w].night + 1, proc[w].age))
    /\ actor["tick"].pc = "repush" =>
         (Scanned(actor["tick"].round, actor["tick"].night)
            => job[actor["tick"].round][actor["tick"].night].at # "none")

RoundsInv ==
    /\ Types /\ NightScannedOnce /\ Counted /\ Unpushed /\ NotYetSilent /\ OwnNights /\ AllHonest
    /\ InOrder /\ FirstNights /\ OneProcess /\ NeverAgain

-----------------------------------------------------------------------------
(* Types.                                                                    *)

LEMMA Shapes ==
    ASSUME Types
    PROVE  /\ area \in Reads /\ actor \in [Actors -> Places]
           /\ scanned \in [Rounds -> [Nights -> Nat]] /\ seenAt \in [Nights -> 0..MaxRounds]
           /\ job \in [Rounds -> [Nights -> Jobs]] /\ proc \in [ListWorkers -> Processes]
           /\ claims \in 0..MaxRounds /\ MaxRounds \in Nat
BY Bounds DEF Types, RoundsTypeOK, Reads, Jobs, Processes

LEMMA TypesAre ==
    ASSUME area \in Reads, actor \in [Actors -> Places],
           scanned \in [Rounds -> [Nights -> Nat]], seenAt \in [Nights -> 0..MaxRounds],
           open \subseteq [night : Nights, round : Rounds, age : 0..Stale],
           job \in [Rounds -> [Nights -> Jobs]], proc \in [ListWorkers -> Processes],
           paused \in BOOLEAN, faults \in 0..RoundFaults, day \in 0..MaxDays, claims \in 0..MaxRounds
    PROVE  Types
BY DEF Types, RoundsTypeOK, Reads, Places, Jobs, Processes

LEMMA FaultCounted == ASSUME Types, Fault PROVE faults' \in 0..RoundFaults
BY Bounds DEF Types, RoundsTypeOK, Fault

\* What a push does to the jobs: a new id is queued, a known one is refused.
LEMMA PushIs ==
    ASSUME NEW jobs \in [Rounds -> [Nights -> Jobs]], NEW r \in Rounds, NEW n \in Nights
    PROVE  /\ Pushed(jobs, r, n) \in [Rounds -> [Nights -> Jobs]]
           /\ \A q \in Rounds, m \in Nights :
                IF q = r /\ m = n /\ jobs[r][n].at = "none"
                THEN Pushed(jobs, r, n)[q][m].at = "queued"
                ELSE Pushed(jobs, r, n)[q][m] = jobs[q][m]
<1>1. CASE jobs[r][n].at # "none"
  BY <1>1 DEF Pushed
<1>2. CASE jobs[r][n].at = "none"
  <2>1. Pushed(jobs, r, n) = [jobs EXCEPT ![r][n].at = "queued"]
    BY <1>2 DEF Pushed
  <2>2. jobs[r][n] \in Jobs
    OBVIOUS
  <2>3. [jobs[r][n] EXCEPT !.at = "queued"] \in Jobs /\ [jobs[r][n] EXCEPT !.at = "queued"].at = "queued"
    BY <2>2 DEF Jobs
  <2> QED
    BY <1>2, <2>1, <2>3
<1> QED
  BY <1>1, <1>2

\* What the end of a job does to the jobs: its id is kept.
LEMMA EndIs ==
    ASSUME Types, NEW w \in ListWorkers, proc[w].round # 0,
           NEW left \in 0..(KeepResult + JobTimeout)
    PROVE  /\ Ended(w, left) \in [Rounds -> [Nights -> Jobs]]
           /\ proc[w].round \in Rounds /\ proc[w].night \in Nights
           /\ \A q \in Rounds, m \in Nights :
                IF q = proc[w].round /\ m = proc[w].night
                THEN Ended(w, left)[q][m] = [at |-> "kept", left |-> left]
                ELSE Ended(w, left)[q][m] = job[q][m]
<1>1. proc[w].round \in Rounds /\ proc[w].night \in Nights
  BY Shapes, Bounds DEF Processes, Rounds
<1>2. [at |-> "kept", left |-> left] \in Jobs
  BY DEF Jobs
<1>3. job \in [Rounds -> [Nights -> Jobs]]
  BY Shapes
<1> QED
  BY <1>1, <1>2, <1>3 DEF Ended

\* How long a kept result is remembered.
LEMMA Remembered ==
    ASSUME Types, NEW w \in ListWorkers
    PROVE  /\ KeepResult \in 0..(KeepResult + JobTimeout) /\ KeepResult \in Nat
           /\ \A wait \in {0, JobTimeout - proc[w].age} :
                KeepResult + wait \in 0..(KeepResult + JobTimeout) /\ KeepResult + wait >= KeepResult
<1>1. proc[w].age \in 0..JobTimeout
  BY Shapes DEF Processes
<1> QED
  BY <1>1, Bounds

\* A step of a busy process is a step of one with a round.
LEMMA BusyHasJob ==
    ASSUME RoundsInv, NEW w \in ListWorkers, Busy(w)
    PROVE  /\ proc[w].round # 0 /\ proc[w].round \in Rounds /\ proc[w].night \in Nights
           /\ job[proc[w].round][proc[w].night].at = "executing"
BY Shapes, Bounds DEF RoundsInv, OneProcess, Processes, Rounds

LEMMA IdleShapes == Idle \in Processes /\ NoArea \in Reads /\ Rest \in Places
BY SomeNight, Bounds DEF Idle, Processes, NoArea, Reads, Rest, Places, AreaStatus

\* One column of the row at a time.
LEMMA RowChanges ==
    ASSUME NEW x \in Reads
    PROVE  /\ \A v \in 0..MaxRounds : LET y == [x EXCEPT !.round = v] IN
                y \in Reads /\ y.round = v /\ y.by = x.by /\ y.status = x.status /\ y.quiet = x.quiet
           /\ \A v \in 0..MaxRounds : LET y == [x EXCEPT !.by = v] IN
                y \in Reads /\ y.by = v /\ y.round = x.round /\ y.status = x.status /\ y.quiet = x.quiet
           /\ \A v \in AreaStatus : LET y == [x EXCEPT !.status = v] IN
                y \in Reads /\ y.status = v /\ y.round = x.round /\ y.by = x.by /\ y.quiet = x.quiet
           /\ \A v \in 0..Stale : LET y == [x EXCEPT !.quiet = v] IN
                y \in Reads /\ y.quiet = v /\ y.round = x.round /\ y.by = x.by /\ y.status = x.status
           /\ \A v \in BOOLEAN : LET y == [x EXCEPT !.fresh = v] IN
                y \in Reads /\ y.round = x.round /\ y.by = x.by /\ y.status = x.status /\ y.quiet = x.quiet
           /\ \A v \in BOOLEAN : LET y == [x EXCEPT !.daily = v] IN
                y \in Reads /\ y.round = x.round /\ y.by = x.by /\ y.status = x.status /\ y.quiet = x.quiet
           /\ \A v \in BOOLEAN : LET y == [x EXCEPT !.today = v] IN
                y \in Reads /\ y.round = x.round /\ y.by = x.by /\ y.status = x.status /\ y.quiet = x.quiet
           /\ \A v \in BOOLEAN : LET y == [x EXCEPT !.active = v] IN
                y \in Reads /\ y.round = x.round /\ y.by = x.by /\ y.status = x.status /\ y.quiet = x.quiet
BY DEF Reads

\* What is written to the row: by a round's chain, by a claim, by the clock.
WrittenRow(x, s, b) == [x EXCEPT !.status = s, !.quiet = 0, !.by = b]
ClaimedRow(x, r) == [x EXCEPT !.status = "queued", !.quiet = 0, !.by = r, !.round = r,
                              !.fresh = TRUE, !.daily = TRUE, !.today = TRUE]
OlderRow(x) == [x EXCEPT !.quiet = Older(x.quiet), !.fresh = FALSE]
NextDayRow(x) == [x EXCEPT !.daily = FALSE, !.today = FALSE]

\* A status written by a round's chain.
LEMMA Written ==
    ASSUME NEW x \in Reads, NEW s \in AreaStatus, NEW b \in 0..MaxRounds
    PROVE  /\ WrittenRow(x, s, b) \in Reads /\ WrittenRow(x, s, b).round = x.round
           /\ WrittenRow(x, s, b).status = s /\ WrittenRow(x, s, b).quiet = 0
           /\ WrittenRow(x, s, b).by = b
<1> DEFINE x1 == [x EXCEPT !.status = s]
           x2 == [x1 EXCEPT !.quiet = 0]
           x3 == [x2 EXCEPT !.by = b]
<1>1. x3 = WrittenRow(x, s, b)
  BY DEF WrittenRow
<1>2. x1 \in Reads /\ x1.status = s /\ x1.round = x.round
  BY RowChanges
<1> HIDE DEF x1
<1>3. x2 \in Reads /\ x2.status = s /\ x2.round = x.round /\ x2.quiet = 0
  BY <1>2, RowChanges, Bounds
<1> HIDE DEF x2
<1>4. x3 \in Reads /\ x3.status = s /\ x3.round = x.round /\ x3.quiet = 0 /\ x3.by = b
  BY <1>3, RowChanges
<1> QED
  BY <1>1, <1>4

\* A claim.
LEMMA Claimed ==
    ASSUME NEW x \in Reads, NEW r \in 0..MaxRounds
    PROVE  /\ ClaimedRow(x, r) \in Reads /\ ClaimedRow(x, r).status = "queued"
           /\ ClaimedRow(x, r).quiet = 0 /\ ClaimedRow(x, r).by = r /\ ClaimedRow(x, r).round = r
<1> DEFINE x1 == WrittenRow(x, "queued", r)
           x2 == [x1 EXCEPT !.round = r]
           x3 == [x2 EXCEPT !.fresh = TRUE]
           x4 == [x3 EXCEPT !.daily = TRUE]
           x5 == [x4 EXCEPT !.today = TRUE]
<1>1. x5 = ClaimedRow(x, r)
  BY DEF ClaimedRow, WrittenRow
<1>0. "queued" \in AreaStatus
  BY DEF AreaStatus, Recoverable
<1>2. x1 \in Reads /\ x1.status = "queued" /\ x1.quiet = 0 /\ x1.by = r
  BY <1>0, Written
<1> HIDE DEF x1
<1>3. x2 \in Reads /\ x2.status = "queued" /\ x2.quiet = 0 /\ x2.by = r /\ x2.round = r
  BY <1>2, RowChanges
<1> HIDE DEF x2
<1>4. x3 \in Reads /\ x3.status = "queued" /\ x3.quiet = 0 /\ x3.by = r /\ x3.round = r
  BY <1>3, RowChanges
<1> HIDE DEF x3
<1>5. x4 \in Reads /\ x4.status = "queued" /\ x4.quiet = 0 /\ x4.by = r /\ x4.round = r
  BY <1>4, RowChanges
<1> HIDE DEF x4
<1>6. x5 \in Reads /\ x5.status = "queued" /\ x5.quiet = 0 /\ x5.by = r /\ x5.round = r
  BY <1>5, RowChanges
<1> QED
  BY <1>1, <1>6

\* Time passes, or a new day begins.
LEMMA Aging ==
    ASSUME NEW x \in Reads
    PROVE  /\ OlderRow(x) \in Reads /\ OlderRow(x).round = x.round
           /\ OlderRow(x).by = x.by /\ OlderRow(x).status = x.status
           /\ NextDayRow(x) \in Reads /\ NextDayRow(x).round = x.round /\ NextDayRow(x).by = x.by
           /\ NextDayRow(x).status = x.status /\ NextDayRow(x).quiet = x.quiet
<1>1. x.quiet \in 0..Stale
  BY DEF Reads
<1>2. Older(x.quiet) \in 0..Stale
  BY <1>1, Bounds DEF Older
<1> DEFINE x1 == [x EXCEPT !.quiet = Older(x.quiet)]
           x2 == [x1 EXCEPT !.fresh = FALSE]
           x3 == [x EXCEPT !.daily = FALSE]
           x4 == [x3 EXCEPT !.today = FALSE]
<1>3. x2 = OlderRow(x) /\ x4 = NextDayRow(x)
  BY DEF OlderRow, NextDayRow
<1>4. x1 \in Reads /\ x1.round = x.round /\ x1.by = x.by /\ x1.status = x.status
  BY <1>2, RowChanges
<1>5. x3 \in Reads /\ x3.round = x.round /\ x3.by = x.by /\ x3.status = x.status /\ x3.quiet = x.quiet
  BY RowChanges
<1> HIDE DEF x1, x3
<1>6. x2 \in Reads /\ x2.round = x.round /\ x2.by = x.by /\ x2.status = x.status
  BY <1>4, RowChanges
<1>7. x4 \in Reads /\ x4.round = x.round /\ x4.by = x.by /\ x4.status = x.status /\ x4.quiet = x.quiet
  BY <1>5, RowChanges
<1> QED
  BY <1>3, <1>6, <1>7

LEMMA SetAreaTypes ==
    ASSUME Types, NEW w \in ListWorkers, NEW s \in AreaStatus, SetArea(w, s)
    PROVE  /\ area' \in Reads
           /\ area'.round = area.round /\ area'.quiet = 0 /\ area'.status = s /\ area'.by = proc[w].round
<1>1. area \in Reads /\ proc[w].round \in 0..MaxRounds
  BY Shapes DEF Processes
<1>2. area' = WrittenRow(area, s, proc[w].round)
  BY DEF SetArea, WrittenRow
<1> QED
  BY <1>1, <1>2, Written

LEMMA ReleaseTypes ==
    ASSUME Types, NEW a \in Actors
    PROVE  /\ Released(a) \in Reads
           /\ area.round # actor[a].round => Released(a) = area
           /\ area.round = actor[a].round =>
                /\ Released(a).round = actor[a].read.round
                /\ Released(a).status = actor[a].read.status /\ Released(a).by = actor[a].read.by
                /\ Released(a).quiet \in {0, actor[a].read.quiet}
<1>1. area \in Reads /\ actor[a].read \in Reads
  BY Shapes DEF Places
<1> DEFINE was == actor[a].read
<1>2. was.quiet \in 0..Stale /\ was.daily \in BOOLEAN /\ was.today \in BOOLEAN
      /\ area.daily \in BOOLEAN /\ area.today \in BOOLEAN /\ area.active \in BOOLEAN
  BY <1>1 DEF Reads
<1> DEFINE d == was.daily /\ area.daily
           t == was.today /\ area.today
           q == IF area.by = area.round THEN was.quiet ELSE 0
           x1 == [was EXCEPT !.daily = d]
           x2 == [x1 EXCEPT !.today = t]
           x3 == [x2 EXCEPT !.active = area.active]
           x4 == [x3 EXCEPT !.quiet = q]
<1>3. Released(a) = IF area.round # actor[a].round THEN area ELSE x4
  BY DEF Released
<1>4. d \in BOOLEAN /\ t \in BOOLEAN
  OBVIOUS
<1>5. q \in 0..Stale /\ q \in {0, was.quiet}
  BY <1>2, Bounds
<1> HIDE DEF d, t, q
<1>6. x1 \in Reads /\ x1.round = was.round /\ x1.by = was.by /\ x1.status = was.status
  BY <1>1, <1>4, RowChanges
<1> HIDE DEF x1
<1>7. x2 \in Reads /\ x2.round = was.round /\ x2.by = was.by /\ x2.status = was.status
  BY <1>6, <1>4, RowChanges
<1> HIDE DEF x2
<1>8. x3 \in Reads /\ x3.round = was.round /\ x3.by = was.by /\ x3.status = was.status
  BY <1>7, <1>2, RowChanges
<1> HIDE DEF x3
<1>9. x4 \in Reads /\ x4.round = was.round /\ x4.by = was.by /\ x4.status = was.status /\ x4.quiet = q
  BY <1>8, <1>5, RowChanges
<1> HIDE DEF x4
<1> QED
  BY <1>1, <1>3, <1>5, <1>9

-----------------------------------------------------------------------------
(* Three kinds of steps: what the actors do on the area's row, the pushes    *)
(* and what the workers do, and the rest.                                    *)

ActorStep(a) ==
    \/ ReadArea(a) \/ ClaimRound(a) \/ ClaimRefused(a) \/ PushFails(a) \/ ActorDies(a)
    \/ RecoverRound \/ NothingToRecover

ChainStep ==
    \/ \E a \in Actors : PushFirst(a)
    \/ RecoverPush
    \/ \E w \in ListWorkers :
         \/ \E r \in Rounds, n \in Nights : TakeNight(w, r, n)
         \/ StopSuperseded(w) \/ StopPaused(w) \/ InsertScan(w)
         \/ \E out \in {"completed", "error", "blocked"} : SaveScan(w, out)
         \/ StopBlocked(w) \/ ReportNight(w) \/ PushNext(w) \/ WorkerDies(w)

WorldStep ==
    \/ FailStuck \/ PauseRound \/ PauseEnds \/ SwitchArea \/ NewDay \/ TimePasses
    \/ UNCHANGED roundsVars

LEMMA Kinds ==
    ASSUME [RoundsNext]_roundsVars
    PROVE  ChainStep \/ WorldStep \/ \E a \in Actors : ActorStep(a)
BY DEF RoundsNext, Tick, Route, Worker, ChainStep, WorldStep, ActorStep, Actors

LEMMA TypesNext ==
    ASSUME area' \in Reads, actor' \in [Actors -> Places],
           scanned' \in [Rounds -> [Nights -> Nat]], seenAt' \in [Nights -> 0..MaxRounds],
           open' \subseteq [night : Nights, round : Rounds, age : 0..Stale],
           job' \in [Rounds -> [Nights -> Jobs]], proc' \in [ListWorkers -> Processes],
           paused' \in BOOLEAN, faults' \in 0..RoundFaults, day' \in 0..MaxDays, claims' \in 0..MaxRounds
    PROVE  Types'
BY DEF Types, RoundsTypeOK, Reads, Places, Jobs, Processes

\* The steps that leave the chain alone: what the actors do but push.
LEMMA TypesOfActors ==
    ASSUME RoundsInv, NEW a \in Actors, ActorStep(a)
    PROVE  Types'
<1>1. Types
  BY DEF RoundsInv
<1>2. /\ area \in Reads /\ actor \in [Actors -> Places] /\ Rest \in Places /\ claims \in 0..MaxRounds
      /\ scanned \in [Rounds -> [Nights -> Nat]] /\ seenAt \in [Nights -> 0..MaxRounds]
      /\ job \in [Rounds -> [Nights -> Jobs]] /\ proc \in [ListWorkers -> Processes]
  BY <1>1, Shapes, IdleShapes
<1>3. /\ open \subseteq [night : Nights, round : Rounds, age : 0..Stale]
      /\ paused \in BOOLEAN /\ faults \in 0..RoundFaults /\ day \in 0..MaxDays
  BY <1>1 DEF Types, RoundsTypeOK
<1>4. Fault => faults' \in 0..RoundFaults
  BY <1>1, FaultCounted
<1>5. "tick" \in Actors /\ area.round \in 0..MaxRounds
  BY <1>2 DEF Actors, Reads
<1>6. CASE ReadArea(a)
  <2>1. [pc |-> "claim", round |-> area.round, read |-> area, night |-> 0] \in Places
    BY <1>2, <1>5, SomeNight DEF Places
  <2>2. actor' \in [Actors -> Places]
    BY <1>2, <1>6, <2>1 DEF ReadArea
  <2> QED
    BY <1>2, <1>3, <1>6, <2>2, TypesNext DEF ReadArea, areaVars
<1>7. CASE ClaimRound(a)
  <2>1. claims + 1 \in 0..MaxRounds
    BY <1>2, <1>7, Bounds DEF ClaimRound, Claimable
  <2>2. [pc |-> "push", round |-> claims + 1, read |-> area, night |-> 0] \in Places
    BY <1>2, <2>1, SomeNight DEF Places
  <2>3. actor' \in [Actors -> Places]
    BY <1>2, <1>7, <2>2 DEF ClaimRound
  <2>4. area' = ClaimedRow(area, claims + 1)
    BY <1>7 DEF ClaimRound, ClaimedRow
  <2>5. area' \in Reads
    BY <1>2, <2>1, <2>4, Claimed
  <2> QED
    BY <1>2, <1>3, <1>7, <2>1, <2>3, <2>5, TypesNext DEF ClaimRound
<1>8. CASE ClaimRefused(a)
  <2>1. [actor[a] EXCEPT !.pc = "recover"] \in Places
    BY <1>2 DEF Places
  <2>2. actor' \in [Actors -> Places]
    BY <1>2, <1>8, <2>1 DEF ClaimRefused
  <2> QED
    BY <1>2, <1>3, <1>8, <2>2, TypesNext DEF ClaimRefused, areaVars
<1>9. CASE PushFails(a)
  <2>1. area' \in Reads
    BY <1>1, <1>9, ReleaseTypes DEF PushFails
  <2>2. actor' \in [Actors -> Places]
    BY <1>2, <1>9 DEF PushFails
  <2> QED
    BY <1>2, <1>3, <1>4, <1>9, <2>1, <2>2, TypesNext DEF PushFails
<1>10. CASE ActorDies(a)
  <2>1. actor' \in [Actors -> Places]
    BY <1>2, <1>10 DEF ActorDies
  <2> QED
    BY <1>2, <1>3, <1>4, <1>10, <2>1, TypesNext DEF ActorDies, areaVars
<1>11. CASE RecoverRound
  <2> DEFINE r == actor["tick"].round
             s == IF Unscanned(r) = {} THEN "completed" ELSE "queued"
             p == [actor["tick"] EXCEPT !.pc = "repush", !.night = NextUnscanned(r)]
  <2>1. r \in 0..MaxRounds /\ r \in Nat /\ actor["tick"] \in Places
    BY <1>2, <1>5, Bounds DEF Places
  <2>2. s \in AreaStatus
    BY DEF AreaStatus, Recoverable
  <2>3. area' = WrittenRow(area, s, r)
    BY <1>11 DEF RecoverRound, WrittenRow
  <2>4. area' \in Reads
    BY <1>2, <2>1, <2>2, <2>3, Written
  <2>5. Unscanned(r) # {} => NextUnscanned(r) \in Nights
    BY <2>1, NextIsFirst DEF Unscanned
  <2>6. Unscanned(r) # {} => p \in Places
    BY <2>1, <2>5 DEF Places
  <2>7. actor' = [actor EXCEPT !["tick"] = IF Unscanned(r) = {} THEN Rest ELSE p]
    BY <1>11 DEF RecoverRound
  <2> HIDE DEF p, s, r
  <2>8. actor' \in [Actors -> Places]
    BY <1>2, <2>6, <2>7
  <2> QED
    BY <1>2, <1>3, <1>11, <2>4, <2>8, TypesNext DEF RecoverRound
<1>12. CASE NothingToRecover
  <2>1. actor' \in [Actors -> Places]
    BY <1>2, <1>12 DEF NothingToRecover
  <2> QED
    BY <1>2, <1>3, <1>12, <2>1, TypesNext DEF NothingToRecover, areaVars
<1> QED
  BY <1>6, <1>7, <1>8, <1>9, <1>10, <1>11, <1>12 DEF ActorStep

\* The steps of the world around.
LEMMA TypesOfWorld ==
    ASSUME RoundsInv, WorldStep
    PROVE  Types'
<1>1. Types
  BY DEF RoundsInv
<1>2. /\ area \in Reads /\ actor \in [Actors -> Places] /\ claims \in 0..MaxRounds
      /\ scanned \in [Rounds -> [Nights -> Nat]] /\ seenAt \in [Nights -> 0..MaxRounds]
      /\ job \in [Rounds -> [Nights -> Jobs]] /\ proc \in [ListWorkers -> Processes]
  BY <1>1, Shapes
<1>3. /\ open \subseteq [night : Nights, round : Rounds, age : 0..Stale]
      /\ paused \in BOOLEAN /\ faults \in 0..RoundFaults /\ day \in 0..MaxDays
  BY <1>1 DEF Types, RoundsTypeOK
<1>4. Fault => faults' \in 0..RoundFaults
  BY <1>1, FaultCounted
<1>5. CASE FailStuck
  BY <1>2, <1>3, <1>5, TypesNext DEF FailStuck
<1>6. CASE PauseRound
  BY <1>2, <1>3, <1>4, <1>6, TypesNext DEF PauseRound, areaVars
<1>7. CASE PauseEnds
  BY <1>2, <1>3, <1>7, TypesNext DEF PauseEnds, areaVars
<1>8. CASE SwitchArea
  <2>1. area.active \in BOOLEAN
    BY <1>2 DEF Reads
  <2> DEFINE v == ~area.active
  <2>2. area' = [area EXCEPT !.active = v]
    BY <1>8, Zenon DEF SwitchArea
  <2>5. v \in BOOLEAN
    OBVIOUS
  <2> HIDE DEF v
  <2>3. area' \in Reads
    BY <1>2, <2>2, <2>5, RowChanges
  <2>4. faults' \in 0..RoundFaults
    BY <1>3, <1>4, <1>8 DEF SwitchArea
  <2> QED
    BY <1>2, <1>3, <1>8, <2>3, <2>4, TypesNext DEF SwitchArea
<1>9. CASE NewDay
  <2>1. area' = NextDayRow(area)
    BY <1>9 DEF NewDay, NextDayRow
  <2>2. area' \in Reads
    BY <1>2, <2>1, Aging
  <2>3. day' \in 0..MaxDays
    BY <1>3, <1>9, Bounds DEF NewDay
  <2> QED
    BY <1>2, <1>3, <1>9, <2>2, <2>3, TypesNext DEF NewDay
<1>10. CASE TimePasses
  <2>1. area' = OlderRow(area)
    BY <1>10 DEF TimePasses, OlderRow
  <2>2. area' \in Reads
    BY <1>2, <2>1, Aging
  <2>3. open' \subseteq [night : Nights, round : Rounds, age : 0..Stale]
    <3>1. \A x \in open : [x EXCEPT !.age = Older(x.age)] \in [night : Nights, round : Rounds, age : 0..Stale]
      BY <1>3, Bounds DEF Older
    <3>2. open' = {[x EXCEPT !.age = Older(x.age)] : x \in open}
      BY <1>10 DEF TimePasses
    <3> QED
      BY <3>1, <3>2
  <2>4. proc' \in [ListWorkers -> Processes]
    <3>1. \A w \in ListWorkers : proc[w].pc # "idle" => [proc[w] EXCEPT !.age = proc[w].age + 1] \in Processes
      <4> SUFFICES ASSUME NEW w \in ListWorkers, proc[w].pc # "idle"
                   PROVE  [proc[w] EXCEPT !.age = proc[w].age + 1] \in Processes
        OBVIOUS
      <4>1. proc[w].age < JobTimeout
        BY <1>10 DEF TimePasses
      <4>2. proc[w].age \in 0..JobTimeout
        BY <1>2 DEF Processes
      <4>3. proc[w].age + 1 \in 0..JobTimeout
        BY <4>1, <4>2, Bounds
      <4> QED
        BY <1>2, <4>3 DEF Processes
    <3>2. proc' = [w \in ListWorkers |-> IF proc[w].pc = "idle" THEN Idle ELSE [proc[w] EXCEPT !.age = proc[w].age + 1]]
      BY <1>10 DEF TimePasses
    <3> QED
      BY <3>1, <3>2, IdleShapes
  <2>5. job' \in [Rounds -> [Nights -> Jobs]]
    <3>1. \A j \in Jobs : Aged(j) \in Jobs
      BY Bounds DEF Aged, Jobs, NoJob
    <3>2. job' = [r \in Rounds |-> [n \in Nights |-> Aged(job[r][n])]]
      BY <1>10 DEF TimePasses
    <3> QED
      BY <1>2, <3>1, <3>2
  <2> QED
    BY <1>2, <1>3, <1>10, <2>2, <2>3, <2>4, <2>5, TypesNext DEF TimePasses
<1>11. CASE UNCHANGED roundsVars
  BY <1>2, <1>3, <1>11, TypesNext DEF roundsVars, areaVars
<1> QED
  BY <1>5, <1>6, <1>7, <1>8, <1>9, <1>10, <1>11 DEF WorldStep

\* The steps of the chain: the pushes and what the workers do.
LEMMA TypesOfChain ==
    ASSUME RoundsInv, ChainStep
    PROVE  Types'
<1>1. Types
  BY DEF RoundsInv
<1>2. /\ area \in Reads /\ actor \in [Actors -> Places] /\ claims \in 0..MaxRounds
      /\ scanned \in [Rounds -> [Nights -> Nat]] /\ seenAt \in [Nights -> 0..MaxRounds]
      /\ job \in [Rounds -> [Nights -> Jobs]] /\ proc \in [ListWorkers -> Processes]
      /\ Rest \in Places /\ Idle \in Processes
  BY <1>1, Shapes, IdleShapes
<1>3. /\ open \subseteq [night : Nights, round : Rounds, age : 0..Stale]
      /\ paused \in BOOLEAN /\ faults \in 0..RoundFaults /\ day \in 0..MaxDays
  BY <1>1 DEF Types, RoundsTypeOK
<1>4. Fault => faults' \in 0..RoundFaults
  BY <1>1, FaultCounted
<1>5. ASSUME NEW a \in Actors, PushFirst(a) PROVE Types'
  <2>1. actor[a].round \in Rounds
    BY <1>2, <1>5, Bounds DEF RoundsInv, Counted, Pushing, PushFirst, Places, Rounds
  <2>2. job' \in [Rounds -> [Nights -> Jobs]]
    BY <1>2, <1>5, <2>1, SomeNight, PushIs DEF PushFirst
  <2>3. actor' \in [Actors -> Places]
    BY <1>2, <1>5 DEF PushFirst
  <2> QED
    BY <1>2, <1>3, <1>5, <2>2, <2>3, TypesNext DEF PushFirst, areaVars
<1>6. CASE RecoverPush
  <2>1. actor["tick"].round \in Rounds /\ actor["tick"].night \in Nights
    BY <1>2, <1>6, Bounds DEF RoundsInv, Counted, RecoverPush, Places, Rounds, Actors
  <2>2. job' \in [Rounds -> [Nights -> Jobs]]
    BY <1>2, <1>6, <2>1, PushIs DEF RecoverPush
  <2>3. actor' \in [Actors -> Places]
    BY <1>2, <1>6 DEF RecoverPush
  <2> QED
    BY <1>2, <1>3, <1>6, <2>2, <2>3, TypesNext DEF RecoverPush, areaVars
<1>7. ASSUME NEW w \in ListWorkers, NEW left \in 0..(KeepResult + JobTimeout), Busy(w)
      PROVE  Ended(w, left) \in [Rounds -> [Nights -> Jobs]]
  BY <1>1, <1>7, BusyHasJob, EndIs
<1>8. ASSUME NEW w \in ListWorkers, JobEnds(w), Busy(w)
      PROVE  job' \in [Rounds -> [Nights -> Jobs]] /\ proc' \in [ListWorkers -> Processes]
  BY <1>1, <1>2, <1>7, <1>8, Remembered DEF JobEnds
<1>9. ASSUME NEW w \in ListWorkers, NEW s \in AreaStatus, SetArea(w, s)
      PROVE  area' \in Reads
  BY <1>1, <1>9, SetAreaTypes
<1>10. {"paused", "blocked", "completed", "running"} \subseteq AreaStatus
  BY DEF AreaStatus, Recoverable
<1>11. ASSUME NEW w \in ListWorkers, NEW r \in Rounds, NEW n \in Nights, TakeNight(w, r, n) PROVE Types'
  <2>1. [pc |-> "check", round |-> r, night |-> n, age |-> 0, out |-> "none"] \in Processes
    BY Bounds DEF Processes, Rounds
  <2>2. proc' \in [ListWorkers -> Processes]
    BY <1>2, <1>11, <2>1 DEF TakeNight
  <2>0. job[r][n] \in Jobs
    BY <1>2
  <2>3. [job[r][n] EXCEPT !.at = "executing"] \in Jobs
    BY <2>0 DEF Jobs
  <2>4. job' \in [Rounds -> [Nights -> Jobs]]
    BY <1>2, <1>11, <2>3 DEF TakeNight
  <2> QED
    BY <1>2, <1>3, <1>11, <2>2, <2>4, TypesNext DEF TakeNight, areaVars
<1>12. ASSUME NEW w \in ListWorkers, StopSuperseded(w) PROVE Types'
  <2>1. job' \in [Rounds -> [Nights -> Jobs]] /\ proc' \in [ListWorkers -> Processes]
    BY <1>8, <1>12 DEF StopSuperseded, Busy
  <2> QED
    BY <1>2, <1>3, <1>12, <2>1, TypesNext DEF StopSuperseded, areaVars
<1>13. ASSUME NEW w \in ListWorkers, StopPaused(w) PROVE Types'
  <2>1. job' \in [Rounds -> [Nights -> Jobs]] /\ proc' \in [ListWorkers -> Processes]
    BY <1>8, <1>13 DEF StopPaused, Busy
  <2>2. area' \in Reads
    BY <1>9, <1>10, <1>13 DEF StopPaused
  <2> QED
    BY <1>2, <1>3, <1>13, <2>1, <2>2, TypesNext DEF StopPaused
<1>14. ASSUME NEW w \in ListWorkers, InsertScan(w) PROVE Types'
  <2> DEFINE p == proc[w]
  <2>1. p \in Processes /\ p.round \in Rounds /\ p.night \in Nights
    BY <1>2, <1>14, BusyHasJob DEF InsertScan, Busy
  <2>2. /\ scanned' = [scanned EXCEPT ![p.round][p.night] = scanned[p.round][p.night] + 1]
        /\ seenAt' = [seenAt EXCEPT ![p.night] = claims]
        /\ open' = open \cup {[night |-> p.night, round |-> p.round, age |-> 0]}
        /\ proc' = [proc EXCEPT ![w].pc = "scan"]
        /\ UNCHANGED <<area, job, actor, paused, faults, day, claims>>
    BY <1>14 DEF InsertScan
  <2> HIDE DEF p
  <2>3. scanned' \in [Rounds -> [Nights -> Nat]]
    BY <1>2, <2>1, <2>2
  <2>4. seenAt' \in [Nights -> 0..MaxRounds]
    BY <1>2, <2>1, <2>2
  <2>5. open' \subseteq [night : Nights, round : Rounds, age : 0..Stale]
    BY <1>3, <2>1, <2>2, Bounds
  <2>6. proc' \in [ListWorkers -> Processes]
    BY <1>2, <2>2 DEF Processes
  <2> QED
    BY <1>2, <1>3, <2>2, <2>3, <2>4, <2>5, <2>6, TypesNext
<1>15. ASSUME NEW w \in ListWorkers, NEW out \in {"completed", "error", "blocked"}, SaveScan(w, out)
       PROVE  Types'
  <2>1. proc' \in [ListWorkers -> Processes]
    <3>1. proc' = [proc EXCEPT ![w].pc = "report", ![w].out = out]
      BY <1>15 DEF SaveScan
    <3>2. proc[w] \in Processes
      BY <1>2
    <3>3. [proc[w] EXCEPT !.pc = "report"] \in Processes
      BY <3>2 DEF Processes
    <3>4. [[proc[w] EXCEPT !.pc = "report"] EXCEPT !.out = out] \in Processes
      BY <3>3 DEF Processes
    <3>5. proc' = [proc EXCEPT ![w] = [[proc[w] EXCEPT !.pc = "report"] EXCEPT !.out = out]]
      BY <1>2, <3>1
    <3> QED
      BY <1>2, <3>4, <3>5
  <2>2. open' \subseteq open
    BY <1>15 DEF SaveScan
  <2>3. faults' \in 0..RoundFaults
    BY <1>3, <1>4, <1>15 DEF SaveScan
  <2> QED
    BY <1>2, <1>3, <1>15, <2>1, <2>2, <2>3, TypesNext DEF SaveScan
<1>16. ASSUME NEW w \in ListWorkers, StopBlocked(w) PROVE Types'
  <2>1. job' \in [Rounds -> [Nights -> Jobs]] /\ proc' \in [ListWorkers -> Processes]
    BY <1>8, <1>16 DEF StopBlocked, Busy
  <2>2. area' \in Reads
    BY <1>9, <1>10, <1>16 DEF StopBlocked
  <2> QED
    BY <1>2, <1>3, <1>16, <2>1, <2>2, TypesNext DEF StopBlocked
<1>17. ASSUME NEW w \in ListWorkers, ReportNight(w) PROVE Types'
  <2>1. area' \in Reads
    BY <1>9, <1>10, <1>17 DEF ReportNight
  <2>2. job' \in [Rounds -> [Nights -> Jobs]] /\ proc' \in [ListWorkers -> Processes]
    <3>1. CASE LastNight(w)
      BY <1>8, <1>17, <3>1 DEF ReportNight, Busy
    <3>2. CASE ~LastNight(w)
      <4>1. proc' = [proc EXCEPT ![w].pc = "next"] /\ job' = job
        BY <1>17, <3>2 DEF ReportNight
      <4> QED
        BY <1>2, <4>1 DEF Processes
    <3> QED
      BY <3>1, <3>2
  <2> QED
    BY <1>2, <1>3, <1>17, <2>1, <2>2, TypesNext DEF ReportNight
<1>18. ASSUME NEW w \in ListWorkers, PushNext(w) PROVE Types'
  <2>1. Busy(w)
    BY <1>18 DEF PushNext, Busy
  <2>2. proc[w].round \in Rounds /\ proc[w].night + 1 \in Nights
    <3>1. proc[w].night + 1 < RoundNights /\ proc[w].night \in Nights /\ proc[w].round \in Rounds
      BY <1>18, <2>1, BusyHasJob DEF RoundsInv, OneProcess, PushNext
    <3> QED
      BY <3>1, Bounds DEF Nights
  <2>3. Ended(w, KeepResult) \in [Rounds -> [Nights -> Jobs]]
    BY <1>1, <1>7, <2>1, Remembered
  <2>4. job' \in [Rounds -> [Nights -> Jobs]]
    BY <1>18, <2>2, <2>3, PushIs DEF PushNext
  <2>5. proc' \in [ListWorkers -> Processes]
    BY <1>2, <1>18 DEF PushNext
  <2> QED
    BY <1>2, <1>3, <1>18, <2>4, <2>5, TypesNext DEF PushNext, areaVars
<1>19. ASSUME NEW w \in ListWorkers, WorkerDies(w) PROVE Types'
  <2>1. Busy(w)
    BY <1>19 DEF WorkerDies, Busy
  <2>2. PICK wait \in {0, JobTimeout - proc[w].age} : job' = Ended(w, KeepResult + wait)
    BY <1>19 DEF WorkerDies
  <2>3. KeepResult + wait \in 0..(KeepResult + JobTimeout)
    BY <1>1, Remembered
  <2>4. job' \in [Rounds -> [Nights -> Jobs]]
    BY <1>7, <2>1, <2>2, <2>3
  <2>5. proc' \in [ListWorkers -> Processes]
    BY <1>2, <1>19 DEF WorkerDies
  <2> QED
    BY <1>2, <1>3, <1>4, <1>19, <2>4, <2>5, TypesNext DEF WorkerDies, areaVars
<1> QED
  BY <1>5, <1>6, <1>11, <1>12, <1>13, <1>14, <1>15, <1>16, <1>17, <1>18, <1>19 DEF ChainStep

-----------------------------------------------------------------------------
(* What the kinds of steps leave alone.                                      *)

LEMMA ActorKeeps ==
    ASSUME NEW a \in Actors, ActorStep(a)
    PROVE  UNCHANGED <<scanned, seenAt, job, proc>>
BY DEF ActorStep, ReadArea, ClaimRound, ClaimRefused, PushFails, ActorDies, RecoverRound,
       NothingToRecover, areaVars

LEMMA WorldKeeps ==
    ASSUME RoundsInv, WorldStep
    PROVE  /\ UNCHANGED <<scanned, seenAt, actor, claims>>
           /\ area'.round = area.round /\ area'.by = area.by /\ area'.status = area.status
           /\ \/ UNCHANGED <<job, proc>> /\ area'.quiet = area.quiet
              \/ TimePasses
<1>1. area \in Reads
  BY Shapes DEF RoundsInv
<1>2. CASE FailStuck \/ PauseRound \/ PauseEnds \/ UNCHANGED roundsVars
  BY <1>2 DEF FailStuck, PauseRound, PauseEnds, areaVars, roundsVars
<1>3. CASE SwitchArea
  <2>1. area.active \in BOOLEAN
    BY <1>1 DEF Reads
  <2> DEFINE v == ~area.active
  <2>2. area' = [area EXCEPT !.active = v]
    BY <1>3, Zenon DEF SwitchArea
  <2>3. v \in BOOLEAN
    OBVIOUS
  <2> HIDE DEF v
  <2> QED
    BY <1>1, <1>3, <2>2, <2>3, RowChanges DEF SwitchArea
<1>4. CASE NewDay
  <2>1. area' = NextDayRow(area)
    BY <1>4 DEF NewDay, NextDayRow
  <2> QED
    BY <1>1, <1>4, <2>1, Aging DEF NewDay
<1>5. CASE TimePasses
  <2>1. area' = OlderRow(area)
    BY <1>5 DEF TimePasses, OlderRow
  <2> QED
    BY <1>1, <1>5, <2>1, Aging DEF TimePasses
<1> QED
  BY <1>2, <1>3, <1>4, <1>5 DEF WorldStep

LEMMA ChainKeeps ==
    ASSUME RoundsInv, ChainStep
    PROVE  /\ claims' = claims /\ area'.round = area.round
           /\ area'.quiet = area.quiet \/ area'.quiet = 0
           /\ \A a \in Actors : actor'[a] = actor[a] \/ actor'[a] = Rest
           /\ UNCHANGED <<scanned, seenAt>> \/ \E w \in ListWorkers : InsertScan(w)
<1>1. actor \in [Actors -> Places] /\ Types
  BY Shapes DEF RoundsInv
<1>2. CASE \E a \in Actors : PushFirst(a)
  BY <1>1, <1>2 DEF PushFirst, areaVars
<1>3. CASE RecoverPush
  BY <1>1, <1>3 DEF RecoverPush, areaVars
<1>4. ASSUME NEW w \in ListWorkers, NEW s \in AreaStatus, SetArea(w, s)
      PROVE  area'.round = area.round /\ area'.quiet = 0
  BY <1>1, <1>4, SetAreaTypes
<1>5. {"paused", "blocked", "completed", "running"} \subseteq AreaStatus
  BY DEF AreaStatus, Recoverable
<1>6. ASSUME NEW w \in ListWorkers, StopPaused(w) \/ StopBlocked(w) \/ ReportNight(w)
      PROVE  area'.round = area.round /\ area'.quiet = 0 /\ UNCHANGED <<scanned, seenAt, actor, claims>>
  BY <1>4, <1>5, <1>6 DEF StopPaused, StopBlocked, ReportNight
<1>7. ASSUME NEW w \in ListWorkers,
             \/ \E r \in Rounds, n \in Nights : TakeNight(w, r, n)
             \/ StopSuperseded(w) \/ InsertScan(w)
             \/ \E out \in {"completed", "error", "blocked"} : SaveScan(w, out)
             \/ PushNext(w) \/ WorkerDies(w)
      PROVE  UNCHANGED <<area, actor, claims>> /\ (UNCHANGED <<scanned, seenAt>> \/ InsertScan(w))
  BY <1>7 DEF TakeNight, StopSuperseded, InsertScan, SaveScan, PushNext, WorkerDies, areaVars
<1> QED
  BY <1>2, <1>3, <1>6, <1>7 DEF ChainStep

\* An insert, night by night.
LEMMA InsertIs ==
    ASSUME RoundsInv, NEW w \in ListWorkers, InsertScan(w)
    PROVE  /\ proc[w].round \in Rounds /\ proc[w].night \in Nights
           /\ proc[w].round = area.round /\ job[proc[w].round][proc[w].night].at = "executing"
           /\ scanned[proc[w].round][proc[w].night] = 0
           /\ \A r \in Rounds, n \in Nights :
                scanned'[r][n] = IF r = proc[w].round /\ n = proc[w].night THEN 1 ELSE scanned[r][n]
           /\ \A n \in Nights : seenAt'[n] = IF n = proc[w].night THEN claims ELSE seenAt[n]
           /\ UNCHANGED <<area, job, actor, claims>>
<1>1. Busy(w) /\ proc[w].pc = "check"
  BY DEF InsertScan, Busy
<1>2. /\ proc[w].round \in Rounds /\ proc[w].night \in Nights
      /\ job[proc[w].round][proc[w].night].at = "executing"
  BY <1>1, BusyHasJob
<1>3. scanned[proc[w].round][proc[w].night] = 0
  BY <1>1 DEF RoundsInv, OneProcess
<1>4. scanned \in [Rounds -> [Nights -> Nat]] /\ seenAt \in [Nights -> 0..MaxRounds]
  BY Shapes DEF RoundsInv
<1> DEFINE p == proc[w]
<1>5. /\ scanned' = [scanned EXCEPT ![p.round][p.night] = scanned[p.round][p.night] + 1]
      /\ seenAt' = [seenAt EXCEPT ![p.night] = claims]
      /\ p.round = area.round /\ UNCHANGED <<area, job, actor, claims>>
  BY DEF InsertScan, Superseded
<1>6. p.round \in Rounds /\ p.night \in Nights /\ scanned[p.round][p.night] = 0 /\ p = proc[w]
  BY <1>2, <1>3
<1> HIDE DEF p
<1>7. /\ \A r \in Rounds, n \in Nights :
           scanned'[r][n] = IF r = p.round /\ n = p.night THEN 1 ELSE scanned[r][n]
      /\ \A n \in Nights : seenAt'[n] = IF n = p.night THEN claims ELSE seenAt[n]
  BY <1>4, <1>5, <1>6
<1> QED
  BY <1>2, <1>3, <1>5, <1>6, <1>7

\* Claims and sightings only grow.
LEMMA Growth ==
    ASSUME RoundsInv, [RoundsNext]_roundsVars
    PROVE  /\ claims \in Nat /\ claims' \in {claims, claims + 1}
           /\ \A n \in Nights : /\ seenAt[n] \in Nat /\ seenAt'[n] \in Nat
                                /\ seenAt'[n] >= seenAt[n] /\ seenAt'[n] <= claims
<1>1. /\ claims \in Nat /\ seenAt \in [Nights -> Nat] /\ \A n \in Nights : seenAt[n] <= claims
  BY Shapes DEF RoundsInv, Counted
<1>2. CASE ChainStep
  <2>1. CASE UNCHANGED <<scanned, seenAt>>
    BY <1>1, <1>2, <2>1, ChainKeeps
  <2>2. CASE \E w \in ListWorkers : InsertScan(w)
    BY <1>1, <1>2, <2>2, InsertIs
  <2> QED
    BY <1>2, <2>1, <2>2, ChainKeeps
<1>3. CASE WorldStep
  BY <1>1, <1>3, WorldKeeps
<1>4. ASSUME NEW a \in Actors, ActorStep(a)
      PROVE  UNCHANGED seenAt /\ claims' \in {claims, claims + 1}
  BY <1>4, ActorKeeps DEF ActorStep, ReadArea, ClaimRound, ClaimRefused, PushFails, ActorDies,
     RecoverRound, NothingToRecover
<1> QED
  BY <1>1, <1>2, <1>3, <1>4, Kinds

\* Where an actor's step leaves it: at a claim, at a round just claimed, or
\* further on in what it does for the round it was at.
MovesToClaim(c) ==
    /\ ReadArea(c) /\ UNCHANGED <<area, claims>>
    /\ actor'[c].pc = "claim" /\ actor'[c].round = area.round /\ actor'[c].read = area
MovesToPush(c) ==
    /\ actor[c].pc = "claim" /\ claims' = claims + 1
    /\ actor'[c].pc = "push" /\ actor'[c].round = claims + 1 /\ actor'[c].read = area
    /\ area'.round = claims + 1 /\ area'.quiet = 0 /\ area'.status = "queued"
MovesToRecover(c) ==
    /\ c = "tick" /\ UNCHANGED <<area, claims>>
    /\ actor[c].pc = "claim" /\ actor'[c].pc = "recover"
    /\ actor'[c].round = actor[c].round /\ actor'[c].read = actor[c].read
MovesToRest(c) == UNCHANGED <<area, claims>> /\ actor'[c] = Rest
MovesBack(c) == Pushing(c) /\ area' = Released(c) /\ UNCHANGED claims /\ actor'[c] = Rest
MovesToRepush(c) ==
    /\ c = "tick" /\ UNCHANGED claims /\ area'.round = area.round
    /\ actor[c].pc = "recover" /\ Silent(actor[c].read)
    /\ area'.quiet = 0 /\ area'.by = actor[c].round /\ actor[c].round \in Rounds
    /\ area'.status = "completed" => Unscanned(actor[c].round) = {}
    /\ \/ actor'[c] = Rest
       \/ /\ actor'[c].pc = "repush" /\ actor'[c].round = actor[c].round
          /\ actor'[c].night = NextUnscanned(actor[c].round) /\ actor'[c].read = actor[c].read
          /\ Unscanned(actor[c].round) # {}
Moves(c) ==
    /\ \A b \in Actors \ {c} : actor'[b] = actor[b]
    /\ \/ MovesToClaim(c) \/ MovesToPush(c) \/ MovesToRecover(c) \/ MovesToRest(c) \/ MovesBack(c)
       \/ MovesToRepush(c)

LEMMA ActorMoves ==
    ASSUME RoundsInv, NEW a \in Actors, ActorStep(a)
    PROVE  \E c \in Actors : Moves(c)
<1>1. /\ actor \in [Actors -> Places] /\ area \in Reads /\ Types /\ "tick" \in Actors
      /\ claims \in 0..MaxRounds /\ MaxRounds \in Nat
  BY Shapes DEF RoundsInv, Actors
<1>2. CASE ReadArea(a)
  BY <1>1, <1>2 DEF ReadArea, areaVars, Moves, MovesToClaim
<1>3. CASE ClaimRound(a)
  <2>1. claims + 1 \in 0..MaxRounds
    BY <1>1, <1>3 DEF ClaimRound, Claimable
  <2>2. area' = ClaimedRow(area, claims + 1)
    BY <1>3 DEF ClaimRound, ClaimedRow
  <2>3. area'.round = claims + 1 /\ area'.quiet = 0 /\ area'.status = "queued"
    BY <1>1, <2>1, <2>2, Claimed
  <2>4. /\ actor[a].pc = "claim" /\ claims' = claims + 1
        /\ actor' = [actor EXCEPT ![a] = [pc |-> "push", round |-> claims + 1, read |-> area, night |-> 0]]
    BY <1>3 DEF ClaimRound
  <2>5. /\ \A b \in Actors \ {a} : actor'[b] = actor[b]
        /\ actor'[a] = [pc |-> "push", round |-> claims + 1, read |-> area, night |-> 0]
    BY <1>1, <2>4
  <2> QED
    BY <1>3, <2>3, <2>4, <2>5 DEF Moves, MovesToPush
<1>4. CASE ClaimRefused(a)
  <2>0. UNCHANGED <<area, claims>> /\ actor[a].pc = "claim"
    BY <1>4 DEF ClaimRefused, areaVars
  <2>1. CASE a = "tick"
    <3>1. actor' = [actor EXCEPT ![a] = [actor[a] EXCEPT !.pc = "recover"]]
      BY <1>4, <2>1 DEF ClaimRefused
    <3>2. /\ \A b \in Actors \ {a} : actor'[b] = actor[b]
          /\ actor'[a] = [actor[a] EXCEPT !.pc = "recover"]
      BY <1>1, <3>1
    <3>3. actor[a] \in Places
      BY <1>1
    <3>4. /\ actor'[a].pc = "recover" /\ actor'[a].round = actor[a].round
          /\ actor'[a].read = actor[a].read
      BY <3>2, <3>3 DEF Places
    <3> QED
      BY <2>0, <2>1, <3>2, <3>4 DEF Moves, MovesToRecover
  <2>2. CASE a # "tick"
    <3>1. actor' = [actor EXCEPT ![a] = Rest]
      BY <1>4, <2>2 DEF ClaimRefused
    <3> QED
      BY <1>1, <2>0, <3>1 DEF Moves, MovesToRest
  <2> QED
    BY <2>1, <2>2
<1>5. CASE PushFails(a)
  BY <1>1, <1>5 DEF PushFails, Pushing, Moves, MovesBack
<1>6. CASE ActorDies(a)
  BY <1>1, <1>6 DEF ActorDies, areaVars, Moves, MovesToRest
<1>7. CASE RecoverRound
  <2> DEFINE r == actor["tick"].round
             s == IF Unscanned(r) = {} THEN "completed" ELSE "queued"
             p == [actor["tick"] EXCEPT !.pc = "repush", !.night = NextUnscanned(r)]
  <2>1. actor["tick"] \in Places /\ r \in 0..MaxRounds
    BY <1>1 DEF Places
  <2>2. r \in Rounds
    BY <1>1, <1>7, <2>1 DEF RoundsInv, Counted, RecoverRound, Silent, Rounds
  <2>3. s \in AreaStatus
    BY DEF AreaStatus, Recoverable
  <2>4. area' = WrittenRow(area, s, r)
    BY <1>7 DEF RecoverRound, WrittenRow
  <2>5. area'.round = area.round /\ area'.quiet = 0 /\ area'.by = r /\ area'.status = s
    BY <1>1, <2>1, <2>3, <2>4, Written, SMTT(30)
  <2>6. s = "completed" => Unscanned(r) = {}
    OBVIOUS
  <2>7. actor' = [actor EXCEPT !["tick"] = IF Unscanned(r) = {} THEN Rest ELSE p] /\ UNCHANGED claims
    BY <1>7 DEF RecoverRound
  <2>8. /\ p.pc = "repush" /\ p.round = r /\ p.night = NextUnscanned(r)
        /\ p.read = actor["tick"].read
    BY <2>1 DEF Places
  <2> HIDE DEF p, s
  <2>9. /\ \A b \in Actors \ {"tick"} : actor'[b] = actor[b]
        /\ actor'["tick"] = IF Unscanned(r) = {} THEN Rest ELSE p
    BY <1>1, <2>7
  <2> QED
    BY <1>1, <1>7, <2>2, <2>5, <2>6, <2>7, <2>8, <2>9 DEF RecoverRound, Moves, MovesToRepush
<1>8. CASE NothingToRecover
  BY <1>1, <1>8 DEF NothingToRecover, areaVars, Moves, MovesToRest
<1> QED
  BY <1>2, <1>3, <1>4, <1>5, <1>6, <1>7, <1>8 DEF ActorStep

LEMMA RestIs == Rest.pc = "rest" /\ Rest.round = 0 /\ Rest.read.round = 0
BY DEF Rest, NoArea

LEMMA Rounded ==
    ASSUME RoundsInv
    PROVE  /\ area \in Reads /\ area.round \in Nat /\ claims \in Nat /\ actor \in [Actors -> Places]
           /\ \A a \in Actors : actor[a].round \in Nat /\ actor[a].read.round \in Nat
           /\ Actors = {"tick", "route"}
BY Shapes, Bounds DEF RoundsInv, Places, Reads, Actors

LEMMA CountedStays ==
    ASSUME RoundsInv, [RoundsNext]_roundsVars
    PROVE  Counted'
<1>1. Counted /\ Types
  BY DEF RoundsInv
<1>2. /\ area.round \in Nat /\ \A a \in Actors : actor[a].round \in Nat /\ actor[a].read.round \in Nat
  BY Rounded
<1>3. claims \in Nat /\ claims' \in {claims, claims + 1} /\ \A n \in Nights : seenAt'[n] <= claims
  BY Growth
<1>4. \A n \in Nights : seenAt'[n] <= claims'
  BY <1>3, Growth
<1>5. CASE ChainStep
  BY <1>1, <1>2, <1>3, <1>4, <1>5, ChainKeeps, RestIs DEF Counted, Pushing, Actors
<1>6. CASE WorldStep
  BY <1>1, <1>2, <1>3, <1>4, <1>6, WorldKeeps DEF Counted, Pushing
<1>7. ASSUME NEW a \in Actors, ActorStep(a)
      PROVE  Counted'
  <2>1. PICK c \in Actors : Moves(c)
    BY <1>7, ActorMoves
  <2>2. \A b \in Actors : b # c => actor'[b] = actor[b]
    BY <2>1 DEF Moves
  <2>3. CASE MovesToClaim(c)
    BY <1>1, <1>2, <1>3, <1>4, <2>2, <2>3 DEF MovesToClaim, Counted, Pushing, Actors
  <2>4. CASE MovesToPush(c)
    BY <1>1, <1>2, <1>3, <1>4, <2>2, <2>4 DEF MovesToPush, Counted, Pushing, Actors
  <2>5. CASE MovesToRecover(c)
    BY <1>1, <1>2, <1>3, <1>4, <2>2, <2>5 DEF MovesToRecover, Counted, Pushing, Actors
  <2>6. CASE MovesToRest(c)
    BY <1>1, <1>2, <1>3, <1>4, <2>2, <2>6, RestIs DEF MovesToRest, Counted, Pushing, Actors
  <2>7. CASE MovesBack(c)
    <3>1. area'.round <= claims
      BY <1>1, <1>2, <2>7, ReleaseTypes DEF MovesBack, Counted
    <3> QED
      BY <1>1, <1>2, <1>3, <1>4, <2>2, <2>7, <3>1, RestIs DEF MovesBack, Counted, Pushing, Actors
  <2>8. CASE MovesToRepush(c)
    <3>1. actor[c].round # 0
      BY <2>8, Bounds DEF MovesToRepush, Rounds
    <3>2. actor'[c] = Rest \/ (actor'[c].pc = "repush" /\ actor'[c].round = actor[c].round)
      BY <2>8 DEF MovesToRepush
    <3>3. actor'[c].read.round <= claims
      BY <1>1, <1>3, <2>8, RestIs DEF MovesToRepush, Counted
    <3> QED
      BY <1>1, <1>2, <1>3, <1>4, <2>2, <2>8, <3>1, <3>2, <3>3, RestIs DEF MovesToRepush, Counted, Pushing, Actors
  <2> QED
    BY <2>1, <2>3, <2>4, <2>5, <2>6, <2>7, <2>8 DEF Moves
<1> QED
  BY <1>5, <1>6, <1>7, Kinds

-----------------------------------------------------------------------------
(* What the chain does to a job.                                             *)

\* The end of a busy process's job.
LEMMA EndOf ==
    ASSUME RoundsInv, NEW w \in ListWorkers, Busy(w), NEW left \in 0..(KeepResult + JobTimeout),
           NEW r \in Rounds, NEW n \in Nights
    PROVE  /\ r = proc[w].round /\ n = proc[w].night =>
                /\ job[r][n].at = "executing"
                /\ Ended(w, left)[r][n].at = "kept" /\ Ended(w, left)[r][n].left = left
           /\ ~ (r = proc[w].round /\ n = proc[w].night) => Ended(w, left)[r][n] = job[r][n]
<1>1. Types /\ proc[w].round # 0 /\ job[proc[w].round][proc[w].night].at = "executing"
  BY BusyHasJob DEF RoundsInv
<1>2. CASE r = proc[w].round /\ n = proc[w].night
  <2>1. Ended(w, left)[r][n] = [at |-> "kept", left |-> left]
    BY <1>1, <1>2, EndIs
  <2> QED
    BY <1>1, <1>2, <2>1
<1>3. CASE ~ (r = proc[w].round /\ n = proc[w].night)
  <2>1. Ended(w, left)[r][n] = job[r][n]
    BY <1>1, <1>3, EndIs, ZenonT(60)
  <2> QED
    BY <1>3, <2>1
<1> QED
  BY <1>2, <1>3

\* A worker's step that ends its job and pushes nothing.
Ends(w) ==
    /\ Busy(w) /\ proc' = [proc EXCEPT ![w] = Idle]
    /\ \E left \in 0..(KeepResult + JobTimeout) : left >= KeepResult /\ job' = Ended(w, left)
    /\ UNCHANGED <<scanned, seenAt, actor, claims>>

LEMMA WhoEnds ==
    ASSUME RoundsInv, NEW w \in ListWorkers,
           \/ StopSuperseded(w) \/ StopPaused(w) \/ StopBlocked(w) \/ WorkerDies(w)
           \/ ReportNight(w) /\ LastNight(w)
    PROVE  Ends(w)
<1>1. /\ KeepResult \in 0..(KeepResult + JobTimeout) /\ KeepResult >= KeepResult
      /\ \A wait \in {0, JobTimeout - proc[w].age} :
            KeepResult + wait \in 0..(KeepResult + JobTimeout) /\ KeepResult + wait >= KeepResult
  BY Remembered DEF RoundsInv
<1>2. JobEnds(w) /\ Busy(w) /\ UNCHANGED <<scanned, seenAt, actor, claims>> => Ends(w)
  BY <1>1 DEF JobEnds, Ends
<1>3. CASE WorkerDies(w)
  BY <1>1, <1>3 DEF WorkerDies, Ends, Busy, areaVars
<1> QED
  BY <1>2, <1>3 DEF StopSuperseded, StopPaused, StopBlocked, ReportNight, Busy, areaVars

\* The other steps of a worker: it takes a job, inserts, saves or reports the
\* night's scan, or pushes the next night.
Reports(w) ==
    /\ proc[w].pc \in {"scan", "report"}
    /\ \E p \in Processes :
         /\ proc' = [proc EXCEPT ![w] = p]
         /\ p.round = proc[w].round /\ p.night = proc[w].night /\ p.age = proc[w].age
         /\ p.pc \in {"report", "next"} /\ (p.pc = "next" => ~LastNight(w))
    /\ UNCHANGED <<scanned, seenAt, job, actor, claims>>

LEMMA WhoReports ==
    ASSUME RoundsInv, NEW w \in ListWorkers,
           \/ \E out \in {"completed", "error", "blocked"} : SaveScan(w, out)
           \/ ReportNight(w) /\ ~LastNight(w)
    PROVE  Reports(w)
<1>1. proc[w] \in Processes /\ proc \in [ListWorkers -> Processes]
  BY Shapes DEF RoundsInv
<1>2. ASSUME NEW out \in {"completed", "error", "blocked"}, SaveScan(w, out)
      PROVE  Reports(w)
  <2> DEFINE p == [[proc[w] EXCEPT !.pc = "report"] EXCEPT !.out = out]
  <2>1. proc' = [proc EXCEPT ![w].pc = "report", ![w].out = out]
    BY <1>2 DEF SaveScan
  <2>2. [proc[w] EXCEPT !.pc = "report"] \in Processes
    BY <1>1 DEF Processes
  <2>3. /\ p \in Processes /\ p.pc = "report" /\ p.round = proc[w].round /\ p.night = proc[w].night
        /\ p.age = proc[w].age
    BY <1>1, <2>2 DEF Processes
  <2>4. proc' = [proc EXCEPT ![w] = p]
    BY <1>1, <2>1
  <2> HIDE DEF p
  <2> QED
    BY <1>2, <2>3, <2>4 DEF SaveScan, Reports
<1>3. CASE ReportNight(w) /\ ~LastNight(w)
  <2> DEFINE p == [proc[w] EXCEPT !.pc = "next"]
  <2>1. proc' = [proc EXCEPT ![w].pc = "next"] /\ job' = job
    BY <1>3 DEF ReportNight
  <2>2. /\ p \in Processes /\ p.pc = "next" /\ p.round = proc[w].round /\ p.night = proc[w].night
        /\ p.age = proc[w].age
    BY <1>1 DEF Processes
  <2>3. proc' = [proc EXCEPT ![w] = p]
    BY <1>1, <2>1
  <2> HIDE DEF p
  <2> QED
    BY <1>3, <2>1, <2>2, <2>3 DEF ReportNight, Reports
<1> QED
  BY <1>2, <1>3

\* Which leaves eight kinds of steps of the chain.
LEMMA ChainMoves ==
    ASSUME RoundsInv, ChainStep
    PROVE  \/ \E a \in Actors : PushFirst(a)
           \/ RecoverPush
           \/ \E w \in ListWorkers :
                \/ \E r \in Rounds, n \in Nights : TakeNight(w, r, n)
                \/ Ends(w) \/ InsertScan(w) \/ Reports(w) \/ PushNext(w)
BY WhoEnds, WhoReports DEF ChainStep

\* The night a finished process pushes.
LEMMA NextIs ==
    ASSUME RoundsInv, NEW w \in ListWorkers, PushNext(w)
    PROVE  /\ Busy(w) /\ proc[w].round \in Rounds /\ proc[w].night \in Nights /\ proc[w].night + 1 \in Nights
           /\ job[proc[w].round][proc[w].night].at = "executing"
           /\ Scanned(proc[w].round, proc[w].night)
           /\ \A r \in Rounds, n \in Nights :
                CASE r = proc[w].round /\ n = proc[w].night ->
                       job'[r][n].at = "kept" /\ job'[r][n].left = KeepResult
                  [] r = proc[w].round /\ n = proc[w].night + 1 /\ job[r][n].at = "none" ->
                       job'[r][n].at = "queued"
                  [] OTHER -> job'[r][n] = job[r][n]
           /\ proc' = [proc EXCEPT ![w] = Idle] /\ UNCHANGED <<scanned, seenAt, actor, claims>>
<1>1. Busy(w) /\ proc[w].pc = "next"
  BY DEF PushNext, Busy
<1>2. /\ proc[w].round \in Rounds /\ proc[w].night \in Nights
      /\ job[proc[w].round][proc[w].night].at = "executing"
  BY <1>1, BusyHasJob
<1>3. Scanned(proc[w].round, proc[w].night) /\ proc[w].night + 1 < RoundNights
  BY <1>1 DEF RoundsInv, OneProcess
<1>4. proc[w].night + 1 \in Nights /\ proc[w].night # proc[w].night + 1
  BY <1>2, <1>3, Bounds DEF Nights
<1> DEFINE jobs == Ended(w, KeepResult)
<1>5. KeepResult \in 0..(KeepResult + JobTimeout)
  BY Remembered DEF RoundsInv
<1>6. jobs \in [Rounds -> [Nights -> Jobs]]
  BY <1>1, <1>5, BusyHasJob, EndIs DEF RoundsInv
<1>7. \A r \in Rounds, n \in Nights :
        IF r = proc[w].round /\ n = proc[w].night
        THEN jobs[r][n].at = "kept" /\ jobs[r][n].left = KeepResult
        ELSE jobs[r][n] = job[r][n]
  BY <1>1, <1>5, EndOf
<1> HIDE DEF jobs
<1>8. /\ job' = Pushed(jobs, proc[w].round, proc[w].night + 1)
      /\ proc' = [proc EXCEPT ![w] = Idle] /\ UNCHANGED <<scanned, seenAt, actor, claims>>
  BY DEF PushNext, jobs, areaVars
<1>9. \A q \in Rounds, m \in Nights :
        IF q = proc[w].round /\ m = proc[w].night + 1 /\ jobs[proc[w].round][proc[w].night + 1].at = "none"
        THEN job'[q][m].at = "queued"
        ELSE job'[q][m] = jobs[q][m]
  BY <1>2, <1>4, <1>6, <1>8, PushIs
<1> QED
  BY <1>1, <1>2, <1>3, <1>4, <1>7, <1>8, <1>9

\* The push of an actor: the first night of its round, or the restart's.
Pushes(a, r, n) ==
    /\ a \in Actors /\ r \in Rounds /\ n \in Nights /\ r = actor[a].round
    /\ \/ Pushing(a) /\ n = 0
       \/ a = "tick" /\ actor[a].pc = "repush" /\ n = actor[a].night
    /\ \A q \in Rounds, m \in Nights :
         IF q = r /\ m = n /\ job[r][n].at = "none"
         THEN job'[q][m].at = "queued" ELSE job'[q][m] = job[q][m]
    /\ actor' = [actor EXCEPT ![a] = Rest] /\ UNCHANGED <<scanned, seenAt, proc, claims>>

LEMMA WhoPushes ==
    ASSUME RoundsInv
    PROVE  /\ \A a \in Actors : PushFirst(a) => Pushes(a, actor[a].round, 0)
           /\ RecoverPush => Pushes("tick", actor["tick"].round, actor["tick"].night)
<1>1. /\ actor \in [Actors -> Places] /\ job \in [Rounds -> [Nights -> Jobs]] /\ "tick" \in Actors
  BY Shapes DEF RoundsInv, Actors
<1>2. ASSUME NEW a \in Actors, PushFirst(a)
      PROVE  Pushes(a, actor[a].round, 0)
  <2>1. actor[a].round \in Rounds
    BY <1>1, <1>2, Bounds DEF RoundsInv, Counted, Pushing, PushFirst, Places, Rounds
  <2> QED
    BY <1>1, <1>2, <2>1, SomeNight, PushIs DEF PushFirst, Pushes, Pushing, areaVars
<1>3. ASSUME RecoverPush
      PROVE  Pushes("tick", actor["tick"].round, actor["tick"].night)
  <2>1. actor["tick"].round \in Rounds /\ actor["tick"].night \in Nights
    BY <1>1, <1>3, Bounds DEF RoundsInv, Counted, RecoverPush, Places, Rounds
  <2> QED
    BY <1>1, <1>3, <2>1, PushIs DEF RecoverPush, Pushes, areaVars
<1> QED
  BY <1>2, <1>3

LEMMA ChainKinds ==
    ASSUME RoundsInv, ChainStep
    PROVE  \/ \E a \in Actors, r \in Rounds, n \in Nights : Pushes(a, r, n)
           \/ \E w \in ListWorkers :
                \/ \E r \in Rounds, n \in Nights : TakeNight(w, r, n)
                \/ Ends(w) \/ InsertScan(w) \/ Reports(w) \/ PushNext(w)
<1>1. CASE \E a \in Actors : PushFirst(a)
  BY <1>1, WhoPushes DEF Pushes
<1>2. CASE RecoverPush
  BY <1>2, WhoPushes DEF Pushes
<1> QED
  BY <1>1, <1>2, ChainMoves

\* What time does to jobs and processes.
LEMMA TimeIs ==
    ASSUME RoundsInv, TimePasses
    PROVE  /\ \A r \in Rounds, n \in Nights :
                /\ job[r][n].at # "kept" => job'[r][n] = job[r][n]
                /\ job[r][n].at = "kept" /\ job[r][n].left > 0 =>
                     job'[r][n].at = "kept" /\ job'[r][n].left = job[r][n].left - 1
                /\ job[r][n].at = "kept" /\ job[r][n].left = 0 => job'[r][n].at = "none"
           /\ \A w \in ListWorkers :
                IF Busy(w) THEN /\ proc[w].age < JobTimeout /\ proc'[w].pc = proc[w].pc
                                /\ proc'[w].round = proc[w].round /\ proc'[w].night = proc[w].night
                                /\ proc'[w].age = proc[w].age + 1
                ELSE proc'[w].pc = "idle"
           /\ \A a \in Actors : actor[a].pc \notin {"push", "repush"}
<1>1. /\ job \in [Rounds -> [Nights -> Jobs]] /\ proc \in [ListWorkers -> Processes]
  BY Shapes DEF RoundsInv
<1>2. \A j \in Jobs : /\ j.at # "kept" => Aged(j) = j
                      /\ j.at = "kept" /\ j.left > 0 => Aged(j).at = "kept" /\ Aged(j).left = j.left - 1
                      /\ j.at = "kept" /\ j.left = 0 => Aged(j).at = "none"
  BY Bounds DEF Aged, Jobs, NoJob
<1>3. job' = [r \in Rounds |-> [n \in Nights |-> Aged(job[r][n])]]
  BY DEF TimePasses
<1>4. \A r \in Rounds, n \in Nights : job'[r][n] = Aged(job[r][n]) /\ job[r][n] \in Jobs
  BY <1>1, <1>3
<1>5. /\ \A w \in ListWorkers : proc[w].pc # "idle" => proc[w].age < JobTimeout
      /\ \A a \in Actors : actor[a].pc \notin {"push", "repush"}
      /\ proc' = [w \in ListWorkers |-> IF proc[w].pc = "idle" THEN Idle ELSE [proc[w] EXCEPT !.age = proc[w].age + 1]]
  BY DEF TimePasses
<1>6. \A w \in ListWorkers : proc'[w] = IF proc[w].pc = "idle" THEN Idle ELSE [proc[w] EXCEPT !.age = proc[w].age + 1]
  BY <1>5
<1>7. \A p \in Processes : LET q == [p EXCEPT !.age = p.age + 1] IN
        q.pc = p.pc /\ q.round = p.round /\ q.night = p.night /\ q.age = p.age + 1
  BY DEF Processes
<1>8. Idle.pc = "idle"
  BY DEF Idle
<1>9. \A w \in ListWorkers :
        IF Busy(w) THEN /\ proc[w].age < JobTimeout /\ proc'[w].pc = proc[w].pc
                        /\ proc'[w].round = proc[w].round /\ proc'[w].night = proc[w].night
                        /\ proc'[w].age = proc[w].age + 1
        ELSE proc'[w].pc = "idle"
  BY <1>1, <1>5, <1>6, <1>7, <1>8 DEF Busy
<1> QED
  BY <1>2, <1>4, <1>5, <1>9

\* What the take of a job does to jobs and processes.
LEMMA TakeIs ==
    ASSUME RoundsInv, NEW w \in ListWorkers, NEW q \in Rounds, NEW m \in Nights, TakeNight(w, q, m)
    PROVE  /\ ~Busy(w) /\ job[q][m].at = "queued"
           /\ \A r \in Rounds, n \in Nights :
                IF r = q /\ n = m THEN job'[r][n].at = "executing" ELSE job'[r][n] = job[r][n]
           /\ proc'[w].pc = "check" /\ proc'[w].round = q /\ proc'[w].night = m /\ proc'[w].age = 0
           /\ \A v \in ListWorkers : v # w => proc'[v] = proc[v]
           /\ UNCHANGED <<scanned, seenAt, actor, claims>>
<1>1. /\ job \in [Rounds -> [Nights -> Jobs]] /\ proc \in [ListWorkers -> Processes]
  BY Shapes DEF RoundsInv
<1> DEFINE j == [job[q][m] EXCEPT !.at = "executing"]
<1>2. job[q][m] \in Jobs
  BY <1>1
<1>3. j.at = "executing"
  BY <1>2 DEF Jobs
<1>4. job' = [job EXCEPT ![q] = [job[q] EXCEPT ![m] = j]]
  BY <1>1 DEF TakeNight
<1> HIDE DEF j
<1>5. \A r \in Rounds, n \in Nights : job'[r][n] = IF r = q /\ n = m THEN j ELSE job[r][n]
  BY <1>1, <1>4
<1>6. /\ proc' = [proc EXCEPT ![w] = [pc |-> "check", round |-> q, night |-> m, age |-> 0, out |-> "none"]]
      /\ ~Busy(w) /\ job[q][m].at = "queued" /\ UNCHANGED <<scanned, seenAt, actor, claims>>
  BY DEF TakeNight, Busy, areaVars
<1> QED
  BY <1>1, <1>3, <1>5, <1>6

\* Nothing comes to exist of a round but by the pushes of its actors.
LEMMA UntouchedStays ==
    ASSUME RoundsInv, [RoundsNext]_roundsVars, NEW r \in Rounds, Untouched(r),
           \A a \in Actors : Pushing(a) /\ actor[a].round = r => actor'[a].pc = "push",
           actor["tick"].pc = "repush" => actor["tick"].round # r
    PROVE  Untouched(r)'
<1> SUFFICES ASSUME NEW n \in Nights PROVE job'[r][n].at = "none" /\ scanned'[r][n] = 0
  BY DEF Untouched
<1>1. \A m \in Nights : job[r][m].at = "none" /\ scanned[r][m] = 0
  BY DEF Untouched
<1>2. CASE WorldStep
  BY <1>1, <1>2, WorldKeeps, TimeIs
<1>3. CASE \E a \in Actors : ActorStep(a)
  BY <1>1, <1>3, ActorKeeps
<1>4. CASE ChainStep
  <2>1. ASSUME NEW a \in Actors, NEW q \in Rounds, NEW m \in Nights, Pushes(a, q, m)
        PROVE  job'[r][n].at = "none" /\ scanned'[r][n] = 0
    <3>1. q # r
      BY <2>1, Rounded, RestIs DEF Pushes
    <3> QED
      BY <1>1, <2>1, <3>1 DEF Pushes
  <2>2. ASSUME NEW w \in ListWorkers, NEW q \in Rounds, NEW m \in Nights, TakeNight(w, q, m)
        PROVE  job'[r][n].at = "none" /\ scanned'[r][n] = 0
    <3>1. q # r /\ UNCHANGED scanned
      BY <1>1, <2>2, TakeIs
    <3>2. job'[r][n] = job[r][n]
      BY <2>2, <3>1, TakeIs
    <3> QED
      BY <1>1, <3>1, <3>2
  <2>3. ASSUME NEW w \in ListWorkers, Ends(w)
        PROVE  job'[r][n].at = "none" /\ scanned'[r][n] = 0
    <3>1. PICK left \in 0..(KeepResult + JobTimeout) : job' = Ended(w, left)
      BY <2>3 DEF Ends
    <3>2. Busy(w) /\ UNCHANGED scanned
      BY <2>3 DEF Ends
    <3>3. Ended(w, left)[r][n] = job[r][n]
      BY <1>1, <3>2, EndOf
    <3> QED
      BY <1>1, <3>1, <3>2, <3>3
  <2>4. ASSUME NEW w \in ListWorkers, InsertScan(w)
        PROVE  job'[r][n].at = "none" /\ scanned'[r][n] = 0
    BY <1>1, <2>4, InsertIs
  <2>5. ASSUME NEW w \in ListWorkers, Reports(w)
        PROVE  job'[r][n].at = "none" /\ scanned'[r][n] = 0
    BY <1>1, <2>5 DEF Reports
  <2>6. ASSUME NEW w \in ListWorkers, PushNext(w)
        PROVE  job'[r][n].at = "none" /\ scanned'[r][n] = 0
    <3>1. proc[w].round # r /\ UNCHANGED scanned
      BY <1>1, <2>6, NextIs
    <3>2. job'[r][n] = job[r][n]
      BY <2>6, <3>1, NextIs
    <3> QED
      BY <1>1, <3>1, <3>2
  <2> QED
    BY <1>4, <2>1, <2>2, <2>3, <2>4, <2>5, <2>6, ChainKinds
<1> QED
  BY <1>2, <1>3, <1>4, Kinds

\* Who is about to push was so before, or has just claimed.
LEMMA WhoIsPushing ==
    ASSUME RoundsInv, [RoundsNext]_roundsVars, NEW a \in Actors, actor'[a].pc = "push"
    PROVE  \/ Pushing(a) /\ actor'[a] = actor[a]
           \/ ~Pushing(a) /\ MovesToPush(a) /\ \A b \in Actors : b # a => actor'[b] = actor[b]
<1>1. CASE ChainStep
  BY <1>1, ChainKeeps, RestIs DEF Pushing
<1>2. CASE WorldStep
  BY <1>2, WorldKeeps DEF Pushing
<1>3. ASSUME NEW b \in Actors, ActorStep(b)
      PROVE  \/ Pushing(a) /\ actor'[a] = actor[a]
             \/ ~Pushing(a) /\ MovesToPush(a) /\ \A c \in Actors : c # a => actor'[c] = actor[c]
  <2>1. PICK c \in Actors : Moves(c)
    BY <1>3, ActorMoves
  <2>2. CASE c # a
    BY <2>1, <2>2 DEF Moves, Pushing
  <2>3. CASE c = a
    BY <2>1, <2>3, RestIs DEF Moves, MovesToClaim, MovesToRecover, MovesToRest, MovesBack, MovesToRepush,
       MovesToPush, Pushing
  <2> QED
    BY <2>2, <2>3
<1> QED
  BY <1>1, <1>2, <1>3, Kinds

-----------------------------------------------------------------------------
(* The actors' side of the invariant.                                        *)

LEMMA UnpushedStays ==
    ASSUME RoundsInv, [RoundsNext]_roundsVars, Types'
    PROVE  Unpushed'
<1>1. /\ \A a \in Actors : actor[a].round \in Nat /\ actor[a].round <= claims
      /\ claims \in Nat /\ claims' \in {claims, claims + 1} /\ Actors = {"tick", "route"}
  BY Rounded, Growth DEF RoundsInv, Counted
<1>2. \A a, b \in Actors : a # b /\ Pushing(a) /\ Pushing(b) => actor[a].round # actor[b].round
  BY DEF RoundsInv, Unpushed
<1>3. ASSUME NEW a \in Actors, NEW b \in Actors, a # b, actor'[a].pc = "push", actor'[b].pc = "push"
      PROVE  actor'[a].round # actor'[b].round
  BY <1>1, <1>2, <1>3, WhoIsPushing DEF MovesToPush
<1>4. ASSUME NEW r \in Rounds, r > claims
      PROVE  Untouched(r)'
  <2>1. Untouched(r)
    BY <1>4 DEF RoundsInv, Unpushed
  <2>2. r \in Nat /\ \A a \in Actors : actor[a].round # r
    BY <1>1, <1>4, Bounds DEF Rounds
  <2> QED
    BY <1>1, <2>1, <2>2, UntouchedStays
<1>5. ASSUME NEW a \in Actors, actor'[a].pc = "push"
      PROVE  actor'[a].round \in Rounds /\ \A n \in Nights : job'[actor'[a].round][n].at = "none" /\ scanned'[actor'[a].round][n] = 0
  <2>1. CASE Pushing(a) /\ actor'[a] = actor[a]
    <3> DEFINE r == actor[a].round
    <3>1. r \in Rounds
      BY <1>1, <2>1, Bounds, Shapes DEF RoundsInv, Counted, Places, Rounds
    <3>2. Untouched(r)
      BY <2>1 DEF RoundsInv, Unpushed
    <3>3. \A b \in Actors : Pushing(b) /\ actor[b].round = r => actor'[b].pc = "push"
      BY <1>2, <1>5, <2>1
    <3>4. actor["tick"].pc = "repush" => actor["tick"].round # r
      BY <1>1, <2>1 DEF RoundsInv, NotYetSilent, Restarting, Pushing
    <3>5. r = actor'[a].round
      BY <2>1
    <3> HIDE DEF r
    <3>6. PICK k : k = r
      OBVIOUS
    <3>7. Untouched(k)'
      BY <3>1, <3>2, <3>3, <3>4, <3>6, UntouchedStays
    <3> QED
      BY <3>1, <3>5, <3>6, <3>7 DEF Untouched
  <2>2. CASE MovesToPush(a)
    <3>1. actor'[a].round = claims + 1
      BY <2>2 DEF MovesToPush
    <3>2. actor'[a].round \in 0..MaxRounds
      BY DEF Types, Places
    <3>3. claims + 1 \in Rounds
      BY <1>1, <3>1, <3>2, Bounds DEF Rounds
    <3> DEFINE c == claims + 1
    <3>4. c \in Rounds /\ c > claims /\ actor'[a].round = c
      BY <1>1, <3>1, <3>3
    <3> HIDE DEF c
    <3>5. PICK k : k = c
      OBVIOUS
    <3>6. Untouched(k)'
      BY <1>4, <3>4, <3>5
    <3> QED
      BY <3>4, <3>5, <3>6 DEF Untouched
  <2> QED
    BY <1>5, <2>1, <2>2, WhoIsPushing
<1>6. \A r \in Rounds : r > claims' => r > claims
  BY <1>1, Bounds DEF Rounds
<1> QED
  BY <1>3, <1>4, <1>5, <1>6 DEF Unpushed, Pushing, Untouched

LEMMA RestartsApart ==
    ASSUME RoundsInv, [RoundsNext]_roundsVars, Restarting', actor'["route"].pc = "push"
    PROVE  actor'["tick"].round # actor'["route"].round
<1>1. /\ \A a \in Actors : actor[a].round \in Nat /\ actor[a].round <= claims
      /\ claims \in Nat /\ "tick" \in Actors /\ "route" \in Actors /\ area.round \in Nat
      /\ \A a \in Actors : a = "tick" \/ a = "route"
  BY Rounded DEF RoundsInv, Counted
<1>2. /\ Restarting /\ Pushing("route") => actor["tick"].round # actor["route"].round
      /\ Pushing("route") /\ area.round = actor["route"].round => area.quiet = 0
  BY <1>1 DEF RoundsInv, NotYetSilent
<1>3. CASE MovesToPush("route") /\ actor'["tick"] = actor["tick"]
  BY <1>1, <1>3 DEF MovesToPush
<1>4. CASE Pushing("route") /\ actor'["route"] = actor["route"] /\ actor'["tick"] = actor["tick"]
  BY <1>2, <1>4 DEF Restarting, Silent
<1>5. CASE Pushing("route") /\ actor'["route"] = actor["route"] /\ actor'["tick"] # actor["tick"]
  <2>1. actor'["tick"].pc # "rest"
    BY DEF Restarting
  <2>2. PICK a \in Actors : ActorStep(a)
    BY <1>1, <1>5, <2>1, Kinds, ChainKeeps, WorldKeeps, RestIs
  <2>3. PICK c \in Actors : Moves(c)
    BY <2>2, ActorMoves
  <2>4. c = "tick"
    BY <1>1, <1>5, <2>3 DEF Moves
  <2>5. CASE MovesToClaim("tick")
    <3>1. Silent(area)
      BY <2>5 DEF Restarting, MovesToClaim, Silent
    <3>2. area.quiet # 0
      BY <3>1, Bounds DEF Silent
    <3> QED
      BY <1>2, <1>5, <2>5, <3>2 DEF MovesToClaim
  <2>6. CASE MovesToRecover("tick")
    <3>1. Restarting
      BY <2>6 DEF Restarting, MovesToRecover, Silent
    <3> QED
      BY <1>2, <1>5, <2>6, <3>1 DEF MovesToRecover
  <2>7. CASE MovesToRepush("tick")
    <3>1. Restarting
      BY <2>7 DEF Restarting, MovesToRepush
    <3> QED
      BY <1>2, <1>5, <2>1, <2>7, <3>1, RestIs DEF MovesToRepush
  <2>8. CASE MovesToPush("tick")
    BY <2>8 DEF MovesToPush, Restarting
  <2> QED
    BY <2>1, <2>3, <2>4, <2>5, <2>6, <2>7, <2>8, RestIs DEF Moves, MovesToRest, MovesBack
<1> QED
  BY <1>1, <1>3, <1>4, <1>5, WhoIsPushing

\* What the row reads as while its claim is not pushed.
LEMMA RowOfUnpushed ==
    ASSUME RoundsInv, [RoundsNext]_roundsVars, NEW a \in Actors, Pushing(a), actor'[a] = actor[a],
           area'.round = actor[a].round
    PROVE  area'.quiet = 0
<1>1. area.round = actor[a].round => area.quiet = 0
  BY DEF RoundsInv, NotYetSilent
<1>2. CASE ChainStep
  BY <1>1, <1>2, ChainKeeps
<1>3. CASE WorldStep
  <2>1. ~TimePasses
    BY TimeIs DEF Pushing
  <2> QED
    BY <1>1, <1>3, <2>1, WorldKeeps
<1>4. ASSUME NEW b \in Actors, ActorStep(b)
      PROVE  area'.quiet = 0
  <2>1. PICK c \in Actors : Moves(c)
    BY <1>4, ActorMoves
  <2>2. CASE MovesToClaim(c) \/ MovesToRecover(c) \/ MovesToRest(c)
    BY <1>1, <2>2 DEF MovesToClaim, MovesToRecover, MovesToRest
  <2>3. CASE MovesToPush(c) \/ MovesToRepush(c)
    BY <2>3 DEF MovesToPush, MovesToRepush
  <2>4. CASE MovesBack(c)
    <3>1. area.round # actor[c].round => area' = area
      BY <2>4, ReleaseTypes DEF MovesBack, RoundsInv
    <3>2. area.round = actor[c].round =>
            area'.round = actor[c].read.round /\ area'.quiet \in {0, actor[c].read.quiet}
      BY <2>4, ReleaseTypes DEF MovesBack, RoundsInv
    <3>3. actor[c].read.round = actor[a].round => actor[c].read.quiet = 0
      BY <2>4 DEF RoundsInv, NotYetSilent, MovesBack
    <3> QED
      BY <1>1, <3>1, <3>2, <3>3
  <2> QED
    BY <2>1, <2>2, <2>3, <2>4 DEF Moves
<1> QED
  BY <1>2, <1>3, <1>4, Kinds

LEMMA NotYetSilentStays ==
    ASSUME RoundsInv, [RoundsNext]_roundsVars
    PROVE  NotYetSilent'
<1>1. /\ \A a \in Actors : /\ actor[a].round \in Nat /\ actor[a].round <= claims
                           /\ actor[a].read.round \in Nat /\ actor[a].read.round <= claims
      /\ claims \in Nat /\ area.round \in Nat /\ area.round <= claims
  BY Rounded DEF RoundsInv, Counted
<1>2. ASSUME NEW a \in Actors, actor'[a].pc = "push", area'.round = actor'[a].round
      PROVE  area'.quiet = 0
  <2>1. CASE MovesToPush(a)
    BY <2>1 DEF MovesToPush
  <2>2. CASE Pushing(a) /\ actor'[a] = actor[a]
    BY <1>2, <2>2, RowOfUnpushed
  <2> QED
    BY <1>2, <2>1, <2>2, WhoIsPushing
<1>3. ASSUME NEW a \in Actors, actor'[a].pc = "push",
             NEW b \in Actors, actor'[b].pc = "push", actor'[b].read.round = actor'[a].round
      PROVE  actor'[b].read.quiet = 0
  <2>1. CASE Pushing(a) /\ actor'[a] = actor[a] /\ Pushing(b) /\ actor'[b] = actor[b]
    BY <1>3, <2>1 DEF RoundsInv, NotYetSilent
  <2>2. CASE Pushing(a) /\ actor'[a] = actor[a] /\ MovesToPush(b)
    BY <1>3, <2>2 DEF RoundsInv, NotYetSilent, MovesToPush
  <2>3. CASE MovesToPush(a) /\ a = b
    BY <1>1, <1>3, <2>3 DEF MovesToPush
  <2>4. CASE MovesToPush(a) /\ actor'[b] = actor[b]
    BY <1>1, <1>3, <2>4 DEF MovesToPush
  <2> QED
    BY <1>3, <2>1, <2>2, <2>3, <2>4, WhoIsPushing
<1>4. Restarting' /\ actor'["route"].pc = "push" => actor'["tick"].round # actor'["route"].round
  BY RestartsApart
<1> QED
  BY <1>2, <1>3, <1>4 DEF NotYetSilent, Pushing

OwnNext(q) == q # 0 => \A n \in Nights : seenAt'[n] >= q => scanned'[q][n] >= 1

LEMMA OwnNightsNext ==
    ASSUME OwnNext(area'.round),
           \A a \in Actors : actor'[a].pc = "push" /\ area'.round = actor'[a].round => OwnNext(actor'[a].read.round),
           \A a, b \in Actors : actor'[a].pc = "push" /\ actor'[b].pc = "push" /\ area'.round = actor'[b].round
                               /\ actor'[b].read.round = actor'[a].round => OwnNext(actor'[a].read.round)
    PROVE  OwnNights'
BY DEF OwnNights, Own, OwnNext, Pushing

LEMMA OwnNightsStay ==
    ASSUME RoundsInv, [RoundsNext]_roundsVars
    PROVE  OwnNights'
<1>1. OwnNights /\ Actors = {"tick", "route"}
  BY Rounded DEF RoundsInv
<1>2. CASE \E w \in ListWorkers : InsertScan(w)
  <2> PICK w \in ListWorkers : InsertScan(w)
    BY <1>2
  <2>1. /\ proc[w].round \in Rounds /\ proc[w].night \in Nights /\ proc[w].round = area.round
        /\ job[proc[w].round][proc[w].night].at = "executing"
        /\ \A r \in Rounds, n \in Nights :
             scanned'[r][n] = IF r = proc[w].round /\ n = proc[w].night THEN 1 ELSE scanned[r][n]
        /\ \A n \in Nights : seenAt'[n] = IF n = proc[w].night THEN claims ELSE seenAt[n]
        /\ UNCHANGED <<area, actor>>
    BY InsertIs
  <2>2. \A a \in Actors : Pushing(a) => area.round # actor[a].round
    BY <2>1 DEF RoundsInv, Unpushed, Untouched
  <2>3. \A n \in Nights : seenAt'[n] >= area.round => scanned'[area.round][n] >= 1
    <3> TAKE n \in Nights
    <3>1. seenAt[n] >= area.round => scanned[area.round][n] >= 1
      BY <1>1, <2>1, Bounds DEF OwnNights, Own, Rounds
    <3> QED
      BY <2>1, <3>1
  <2> QED
    BY <2>1, <2>2, <2>3, OwnNightsNext DEF OwnNext, Pushing
<1>3. CASE UNCHANGED <<scanned, seenAt>>
  <2>1. \A q : Own(q) => OwnNext(q)
    BY <1>3 DEF Own, OwnNext
  <2>2. CASE ChainStep
    <3>1. area'.round = area.round /\ \A a \in Actors : actor'[a].pc = "push" => actor'[a] = actor[a]
      BY <2>2, ChainKeeps, RestIs
    <3> QED
      BY <1>1, <2>1, <3>1, OwnNightsNext DEF OwnNights, Pushing
  <2>3. CASE WorldStep
    BY <1>1, <2>1, <2>3, WorldKeeps, OwnNightsNext DEF OwnNights, Pushing
  <2>4. ASSUME NEW b \in Actors, ActorStep(b)
        PROVE  OwnNights'
    <3>1. PICK c \in Actors : Moves(c)
      BY <2>4, ActorMoves
    <3>2. \A a \in Actors : a # c => actor'[a] = actor[a]
      BY <3>1 DEF Moves
    <3>3. CASE area'.round = area.round /\ actor'[c].pc # "push"
      <4>1. \A a \in Actors : actor'[a].pc = "push" => actor'[a] = actor[a]
        BY <3>2, <3>3
      <4> QED
        BY <1>1, <2>1, <3>3, <4>1, OwnNightsNext DEF OwnNights, Pushing
    <3>4. CASE MovesToPush(c)
      <4>1. \A a \in Actors : actor[a].round \in Nat /\ actor[a].round <= claims /\ claims \in Nat
        BY Rounded DEF RoundsInv, Counted
      <4>2. \A n \in Nights : seenAt[n] \in Nat /\ seenAt[n] <= claims
        BY Growth DEF RoundsInv, Counted
      <4>3. /\ area'.round = claims + 1 /\ actor'[c].round = claims + 1 /\ actor'[c].read = area
            /\ actor'[c].pc = "push"
        BY <3>4 DEF MovesToPush
      <4>4. Own(area.round)
        BY <1>1 DEF OwnNights
      <4>5. OwnNext(area'.round)
        BY <1>3, <4>1, <4>2, <4>3 DEF OwnNext
      <4>6. ASSUME NEW a \in Actors, actor'[a].pc = "push", area'.round = actor'[a].round
            PROVE  a = c /\ OwnNext(actor'[a].read.round)
        <5>1. a = c
          BY <3>2, <4>1, <4>3, <4>6
        <5>2. actor'[a].read = area
          BY <4>3, <5>1
        <5> QED
          BY <2>1, <4>4, <5>1, <5>2
      <4>7. ASSUME NEW a \in Actors, NEW d \in Actors, actor'[a].pc = "push", actor'[d].pc = "push",
                   area'.round = actor'[d].round, actor'[d].read.round = actor'[a].round
            PROVE  OwnNext(actor'[a].read.round)
        <5>1. d = c
          BY <4>6, <4>7
        <5>2. CASE a = c
          BY <4>3, <4>6, <4>7, <5>1, <5>2
        <5>3. CASE a # c
          <6>1. actor'[a] = actor[a] /\ Pushing(a) /\ area.round = actor[a].round
            BY <3>2, <4>3, <4>7, <5>1, <5>3 DEF Pushing
          <6>2. Own(actor[a].read.round)
            BY <1>1, <6>1 DEF OwnNights
          <6> QED
            BY <2>1, <6>1, <6>2
        <5> QED
          BY <5>2, <5>3
      <4> QED
        BY <4>5, <4>6, <4>7, OwnNightsNext
    <3>5. CASE MovesBack(c) /\ area'.round # area.round
      <4>1. Pushing(c) /\ area.round = actor[c].round /\ area'.round = actor[c].read.round
        BY <3>5, ReleaseTypes DEF MovesBack, RoundsInv
      <4>2. actor'[c].pc # "push"
        BY <3>5, RestIs DEF MovesBack
      <4>3. Own(actor[c].read.round)
        BY <1>1, <4>1 DEF OwnNights
      <4>4. OwnNext(area'.round)
        BY <2>1, <4>1, <4>3
      <4>5. ASSUME NEW a \in Actors, actor'[a].pc = "push", area'.round = actor'[a].round
            PROVE  OwnNext(actor'[a].read.round)
        <5>1. actor'[a] = actor[a] /\ Pushing(a) /\ actor[c].read.round = actor[a].round
          BY <3>2, <4>1, <4>2, <4>5 DEF Pushing
        <5>2. Own(actor[a].read.round)
          BY <1>1, <4>1, <5>1 DEF OwnNights
        <5> QED
          BY <2>1, <5>1, <5>2
      <4>6. ASSUME NEW a \in Actors, NEW d \in Actors, actor'[a].pc = "push", actor'[d].pc = "push",
                   area'.round = actor'[d].round, actor'[d].read.round = actor'[a].round
            PROVE  OwnNext(actor'[a].read.round)
        <5>1. a = d
          BY <1>1, <4>2, <4>6
        <5> QED
          BY <4>5, <4>6, <5>1
      <4> QED
        BY <4>4, <4>5, <4>6, OwnNightsNext
    <3> QED
      BY <3>1, <3>3, <3>4, <3>5, RestIs DEF Moves, MovesToClaim, MovesToRecover, MovesToRest, MovesBack,
         MovesToRepush
  <2> QED
    BY <2>2, <2>3, <2>4, Kinds
<1> QED
  BY <1>2, <1>3, Kinds, ChainKeeps, WorldKeeps, ActorKeeps

\* A chain that ends says it is completed when its last night was scanned.
LEMMA StatusOfChain ==
    ASSUME RoundsInv, ChainStep
    PROVE  \/ area' = area \/ area'.status # "completed"
           \/ Unscanned(area'.by) = {}
<1>1. Types /\ scanned \in [Rounds -> [Nights -> Nat]] /\ seenAt \in [Nights -> 0..MaxRounds]
  BY Shapes DEF RoundsInv
<1>2. ASSUME NEW w \in ListWorkers, StopPaused(w) \/ StopBlocked(w) \/ (ReportNight(w) /\ ~LastNight(w))
      PROVE  area'.status # "completed"
  <2>1. {"paused", "blocked", "running"} \subseteq AreaStatus
    BY DEF AreaStatus, Recoverable
  <2> QED
    BY <1>1, <1>2, <2>1, SetAreaTypes DEF StopPaused, StopBlocked, ReportNight
<1>3. ASSUME NEW w \in ListWorkers, ReportNight(w), LastNight(w)
      PROVE  Unscanned(area'.by) = {}
  <2>1. "completed" \in AreaStatus
    BY DEF AreaStatus, Recoverable
  <2>2. area'.by = proc[w].round
    BY <1>1, <1>3, <2>1, SetAreaTypes DEF ReportNight
  <2>3. Busy(w) /\ proc[w].pc = "report"
    BY <1>3 DEF ReportNight, Busy
  <2> DEFINE r == proc[w].round  k == proc[w].night
  <2>4. r \in Rounds /\ k \in Nights /\ Scanned(r, k)
    BY <2>3, BusyHasJob DEF RoundsInv, OneProcess
  <2>5. k + 1 >= RoundNights
    BY <1>3 DEF LastNight
  <2> HIDE DEF r, k
  <2>6. ASSUME NEW n \in Nights PROVE seenAt[n] >= r
    <3>1. n < k \/ n = k
      BY <2>4, <2>5, Bounds DEF Nights
    <3>2. Scanned(r, n)
      BY <2>4, <3>1 DEF RoundsInv, FirstNights
    <3> QED
      BY <2>4, <3>2 DEF RoundsInv, FirstNights
  <2>7. r \in Nat /\ \A n \in Nights : seenAt[n] \in Nat
    BY <1>1, <2>4, Bounds DEF Rounds
  <2>8. Unscanned(r) = {}
    BY <2>6, <2>7 DEF Unscanned
  <2> QED
    BY <2>2, <2>8 DEF r
<1>4. (\E a \in Actors : PushFirst(a)) \/ RecoverPush => area' = area
  BY DEF PushFirst, RecoverPush, areaVars
<1>5. ASSUME NEW w \in ListWorkers,
             \/ \E r \in Rounds, n \in Nights : TakeNight(w, r, n)
             \/ StopSuperseded(w) \/ InsertScan(w)
             \/ \E out \in {"completed", "error", "blocked"} : SaveScan(w, out)
             \/ PushNext(w) \/ WorkerDies(w)
      PROVE  area' = area
  BY <1>5 DEF TakeNight, StopSuperseded, InsertScan, SaveScan, PushNext, WorkerDies, areaVars
<1> DEFINE Goal == area' = area \/ area'.status # "completed" \/ Unscanned(area'.by) = {}
<1>6. ASSUME NEW w \in ListWorkers, StopPaused(w) \/ StopBlocked(w) \/ ReportNight(w)
      PROVE  Goal
  BY <1>2, <1>3, <1>6
<1>7. (\E a \in Actors : PushFirst(a)) \/ RecoverPush => Goal
  BY <1>4
<1>8. ASSUME NEW w \in ListWorkers,
             \/ \E r \in Rounds, n \in Nights : TakeNight(w, r, n)
             \/ StopSuperseded(w) \/ InsertScan(w)
             \/ \E out \in {"completed", "error", "blocked"} : SaveScan(w, out)
             \/ PushNext(w) \/ WorkerDies(w)
      PROVE  Goal
  BY <1>5, <1>8
<1> HIDE DEF Goal
<1>9. Goal
  BY <1>6, <1>7, <1>8 DEF ChainStep
<1> QED
  BY <1>9 DEF Goal

LEMMA AllHonestStays ==
    ASSUME RoundsInv, [RoundsNext]_roundsVars
    PROVE  AllHonest'
<1> DEFINE Tomorrow(x) == x.status = "completed" /\ x.by = x.round => \A n \in Nights : ~ (seenAt'[n] < x.round)
<1>1. /\ AllHonest /\ \A n \in Nights : seenAt[n] \in Nat /\ seenAt'[n] \in Nat /\ seenAt'[n] >= seenAt[n]
      /\ area.round \in Nat /\ \A a \in Actors : actor[a].round \in Nat /\ actor[a].read.round \in Nat
  BY Growth, Rounded DEF RoundsInv
<1>2. \A r \in Nat : Unscanned(r) = {} => \A n \in Nights : ~ (seenAt'[n] < r)
  BY <1>1 DEF Unscanned
<1>3. Tomorrow(area) /\ \A a \in Actors : Pushing(a) => Tomorrow(actor[a].read)
  BY <1>1, <1>2 DEF AllHonest, Honest
<1>4. ASSUME NEW a \in Actors, actor'[a].pc = "push"
      PROVE  Tomorrow(actor'[a].read)
  <2>1. actor'[a].read \in {area, actor[a].read} /\ (actor'[a].read = area \/ Pushing(a))
    BY <1>4, WhoIsPushing DEF MovesToPush
  <2> HIDE DEF Tomorrow
  <2> QED
    BY <1>3, <2>1
<1>5. Tomorrow(area')
  <2>1. CASE ChainStep
    <3>1. CASE area' = area
      BY <1>3, <3>1
    <3>2. CASE Unscanned(area'.by) = {}
      <4>1. area'.round \in Nat
        BY <1>1, <2>1, ChainKeeps
      <4> QED
        BY <1>2, <3>2, <4>1
    <3> QED
      BY <2>1, <3>1, <3>2, StatusOfChain
  <2>2. CASE WorldStep
    BY <1>3, <2>2, WorldKeeps
  <2>3. ASSUME NEW b \in Actors, ActorStep(b)
        PROVE  Tomorrow(area')
    <3>1. PICK c \in Actors : Moves(c)
      BY <2>3, ActorMoves
    <3>2. CASE MovesToClaim(c) \/ MovesToRecover(c) \/ MovesToRest(c)
      BY <1>3, <3>2 DEF MovesToClaim, MovesToRecover, MovesToRest
    <3>3. CASE MovesToPush(c)
      BY <3>3 DEF MovesToPush
    <3>4. CASE MovesBack(c)
      <4>1. CASE area' = area
        BY <1>3, <4>1
      <4>2. CASE area' # area
        <5>1. /\ area'.round = actor[c].read.round /\ area'.status = actor[c].read.status
              /\ area'.by = actor[c].read.by /\ Pushing(c)
          BY <3>4, <4>2, ReleaseTypes DEF MovesBack, RoundsInv
        <5>2. Tomorrow(actor[c].read)
          BY <1>3, <5>1
        <5> QED
          BY <5>1, <5>2
      <4> QED
        BY <4>1, <4>2
    <3>5. CASE MovesToRepush(c)
      <4>1. area'.status = "completed" => Unscanned(area'.by) = {}
        BY <3>5 DEF MovesToRepush
      <4>2. area'.round \in Nat
        BY <1>1, <3>5 DEF MovesToRepush
      <4> QED
        BY <1>2, <4>1, <4>2
    <3> QED
      BY <3>1, <3>2, <3>3, <3>4, <3>5 DEF Moves
  <2> QED
    BY <2>1, <2>2, <2>3, Kinds
<1>6. ASSUME NEW x, Tomorrow(x)
      PROVE  x.status = "completed" /\ x.by = x.round => {n \in Nights : seenAt'[n] < x.round} = {}
  BY <1>6
<1> QED
  BY <1>4, <1>5, <1>6 DEF AllHonest, Honest, Unscanned, Pushing

-----------------------------------------------------------------------------
(* The chain's side of the invariant.                                        *)

LEMMA FirstNightsStay ==
    ASSUME RoundsInv, [RoundsNext]_roundsVars
    PROVE  FirstNights' /\ NightScannedOnce'
<1>1. FirstNights /\ NightScannedOnce /\ \A n \in Nights : seenAt[n] \in Nat /\ seenAt'[n] >= seenAt[n]
  BY Growth DEF RoundsInv
<1>2. CASE \E w \in ListWorkers : InsertScan(w)
  <2> PICK w \in ListWorkers : InsertScan(w)
    BY <1>2
  <2> DEFINE p == proc[w].round  k == proc[w].night
  <2>1. /\ p \in Rounds /\ k \in Nights /\ p = area.round /\ job[p][k].at = "executing" /\ scanned[p][k] = 0
        /\ \A r \in Rounds, n \in Nights : scanned'[r][n] = IF r = p /\ n = k THEN 1 ELSE scanned[r][n]
        /\ \A n \in Nights : seenAt'[n] = IF n = k THEN claims ELSE seenAt[n]
    BY InsertIs
  <2> HIDE DEF p, k
  <2>2. /\ claims \in Nat /\ p \in Nat /\ p <= claims /\ p # 0 /\ Own(p)
        /\ \A r \in Rounds : r \in Nat
    BY <2>1, Rounded, Bounds DEF RoundsInv, Counted, OwnNights, Rounds
  <2>3. \A m \in Nights : m < k => seenAt[m] >= p
    BY <2>1 DEF RoundsInv, InOrder, Tried
  <2>4. \A m \in Nights : m < k => Scanned(p, m)
    BY <2>2, <2>3 DEF Own, Scanned
  <2>5. \A r \in Rounds, n \in Nights : scanned'[r][n] >= 1 => seenAt'[n] >= r
    <3> TAKE r \in Rounds, n \in Nights
    <3>1. CASE r = p /\ n = k
      BY <2>1, <2>2, <3>1
    <3>2. CASE ~ (r = p /\ n = k)
      <4>1. scanned'[r][n] = scanned[r][n]
        BY <2>1, <3>2
      <4>2. scanned[r][n] >= 1 => seenAt[n] >= r
        BY <1>1 DEF FirstNights, Scanned
      <4>3. seenAt[n] \in Nat /\ seenAt'[n] >= seenAt[n] /\ r \in Nat /\ seenAt'[n] \in Nat
        BY <1>1, <2>2, Growth
      <4> QED
        BY <4>1, <4>2, <4>3
    <3> QED
      BY <3>1, <3>2
  <2>6. \A r \in Rounds, m \in Nights, n \in Nights : m < n /\ scanned'[r][n] >= 1 => scanned'[r][m] >= 1
    <3> TAKE r \in Rounds, m \in Nights, n \in Nights
    <3>1. CASE r = p /\ n = k
      BY <2>1, <2>4, <3>1 DEF Scanned
    <3>2. CASE ~ (r = p /\ n = k)
      <4>1. scanned'[r][n] = scanned[r][n]
        BY <2>1, <3>2
      <4>2. m < n /\ scanned[r][n] >= 1 => scanned[r][m] >= 1
        BY <1>1 DEF FirstNights, Scanned
      <4>3. scanned'[r][m] = 1 \/ scanned'[r][m] = scanned[r][m]
        BY <2>1
      <4> QED
        BY <4>1, <4>2, <4>3
    <3> QED
      BY <3>1, <3>2
  <2>7. \A r \in Rounds, n \in Nights : scanned'[r][n] <= 1
    BY <1>1, <2>1 DEF NightScannedOnce
  <2> QED
    BY <2>5, <2>6, <2>7 DEF FirstNights, NightScannedOnce, Scanned
<1>3. CASE UNCHANGED <<scanned, seenAt>>
  BY <1>1, <1>3 DEF FirstNights, NightScannedOnce, Scanned
<1> QED
  BY <1>2, <1>3, Kinds, ChainKeeps, WorldKeeps, ActorKeeps

\* Every job that is pushed comes after nights that were tried.
LEMMA InOrderStays ==
    ASSUME RoundsInv, [RoundsNext]_roundsVars
    PROVE  InOrder'
<1> DEFINE TriedNow(r, n) == \A m \in Nights : m < n => seenAt'[m] >= r
<1>1. /\ InOrder /\ \A r \in Rounds : r \in Nat
      /\ \A n \in Nights : n \in Nat /\ seenAt[n] \in Nat /\ seenAt'[n] \in Nat /\ seenAt'[n] >= seenAt[n]
  BY Growth, Bounds DEF RoundsInv, Rounds, Nights
<1>2. \A r \in Nat, n \in Nights : Tried(r, n) => TriedNow(r, n)
  BY <1>1 DEF Tried
<1>3. ASSUME NEW r \in Rounds, NEW n \in Nights, job'[r][n].at \in {"queued", "executing"}
      PROVE  TriedNow(r, n)
  <2>1. CASE job[r][n].at \in {"queued", "executing"}
    BY <1>1, <1>2, <2>1 DEF InOrder
  <2>2. CASE job[r][n].at \notin {"queued", "executing"}
    <3>1. ChainStep
      <4>1. CASE WorldStep
        BY <1>3, <2>2, <4>1, WorldKeeps, TimeIs, Shapes DEF RoundsInv, Jobs
      <4>2. CASE \E a \in Actors : ActorStep(a)
        BY <1>3, <2>2, <4>2, ActorKeeps
      <4> QED
        BY <4>1, <4>2, Kinds
    <3>2. ASSUME NEW a \in Actors, NEW q \in Rounds, NEW m \in Nights, Pushes(a, q, m)
          PROVE  TriedNow(r, n)
      <4>1. r = q /\ n = m
        BY <1>3, <2>2, <3>2 DEF Pushes
      <4>2. CASE n = 0
        BY <1>1, <4>2
      <4>3. CASE actor["tick"].pc = "repush" /\ r = actor["tick"].round /\ n = actor["tick"].night
        BY <1>1, <1>2, <4>3 DEF InOrder
      <4> QED
        BY <3>2, <4>1, <4>2, <4>3 DEF Pushes
    <3>3. ASSUME NEW w \in ListWorkers, NEW q \in Rounds, NEW m \in Nights, TakeNight(w, q, m)
          PROVE  FALSE
      BY <1>3, <2>2, <3>3, TakeIs
    <3>4. ASSUME NEW w \in ListWorkers, Ends(w)
          PROVE  FALSE
      <4>1. PICK left \in 0..(KeepResult + JobTimeout) : job' = Ended(w, left)
        BY <3>4 DEF Ends
      <4>2. Busy(w)
        BY <3>4 DEF Ends
      <4>3. CASE r = proc[w].round /\ n = proc[w].night
        <5>1. Ended(w, left)[r][n].at = "kept"
          BY <4>2, <4>3, EndOf
        <5> QED
          BY <1>3, <4>1, <5>1
      <4>4. CASE ~ (r = proc[w].round /\ n = proc[w].night)
        <5>1. Ended(w, left)[r][n] = job[r][n]
          BY <4>2, <4>4, EndOf
        <5> QED
          BY <1>3, <2>2, <4>1, <5>1
      <4> QED
        BY <4>3, <4>4
    <3>5. ASSUME NEW w \in ListWorkers, InsertScan(w) \/ Reports(w)
          PROVE  FALSE
      BY <1>3, <2>2, <3>5, InsertIs DEF Reports
    <3>6. ASSUME NEW w \in ListWorkers, PushNext(w)
          PROVE  TriedNow(r, n)
      <4> DEFINE p == proc[w].round  k == proc[w].night
      <4>1. p \in Rounds /\ k \in Nights /\ Scanned(p, k) /\ r = p /\ n = k + 1 /\ UNCHANGED seenAt
        BY <1>3, <2>2, <3>6, NextIs
      <4> HIDE DEF p, k
      <4>2. ASSUME NEW m \in Nights, m < n PROVE seenAt[m] >= r
        <5>1. m < k \/ m = k
          BY <1>1, <4>1, <4>2
        <5>2. Scanned(r, m)
          BY <4>1, <5>1 DEF RoundsInv, FirstNights
        <5> QED
          BY <5>2 DEF RoundsInv, FirstNights
      <4> QED
        BY <4>1, <4>2
    <3> QED
      BY <3>1, <3>2, <3>3, <3>4, <3>5, <3>6, ChainKinds
  <2> QED
    BY <2>1, <2>2
<1>4. ASSUME actor'["tick"].pc = "repush"
      PROVE  TriedNow(actor'["tick"].round, actor'["tick"].night)
  <2>1. CASE actor'["tick"] = actor["tick"]
    <3>1. actor["tick"].round \in Nat /\ actor["tick"].night \in Nights
      BY Shapes, Bounds DEF RoundsInv, Places, Actors
    <3>2. Tried(actor["tick"].round, actor["tick"].night)
      BY <1>1, <1>4, <2>1 DEF InOrder
    <3>3. TriedNow(actor["tick"].round, actor["tick"].night)
      BY <1>2, <3>1, <3>2
    <3> QED
      BY <2>1, <3>3
  <2>2. CASE actor'["tick"] # actor["tick"]
    <3>1. PICK c \in Actors : Moves(c)
      BY <1>4, <2>2, Kinds, ChainKeeps, WorldKeeps, ActorMoves, RestIs DEF Actors
    <3>2. c = "tick" /\ MovesToRepush(c)
      BY <1>4, <2>2, <3>1, RestIs DEF Moves, MovesToClaim, MovesToPush, MovesToRecover, MovesToRest, MovesBack, Actors
    <3> DEFINE r == actor["tick"].round  k == NextUnscanned(r)
    <3>3. r \in Rounds /\ Unscanned(r) # {} /\ actor'["tick"].round = r /\ actor'["tick"].night = k
      BY <1>4, <3>2, RestIs DEF MovesToRepush
    <3>4. k \in Unscanned(r) /\ \A n \in Unscanned(r) : k <= n
      BY <1>1, <3>3, NextIsFirst
    <3> HIDE DEF r, k
    <3>5. ASSUME NEW m \in Nights, m < k PROVE seenAt[m] >= r
      BY <1>1, <3>3, <3>4, <3>5 DEF Unscanned
    <3>6. \A m \in Nights : m < k => seenAt'[m] >= r
      BY <1>1, <3>3, <3>5
    <3> QED
      BY <3>3, <3>6
  <2> QED
    BY <2>1, <2>2
<1> QED
  BY <1>3, <1>4 DEF InOrder, Tried

\* Where the processes are after a step of one of them.
LEMMA InsertProc ==
    ASSUME RoundsInv, NEW w \in ListWorkers, InsertScan(w)
    PROVE  /\ proc[w].pc = "check" /\ proc'[w].pc = "scan" /\ proc'[w].round = proc[w].round
           /\ proc'[w].night = proc[w].night /\ proc'[w].age = proc[w].age
           /\ \A v \in ListWorkers : v # w => proc'[v] = proc[v]
<1>1. proc \in [ListWorkers -> Processes] /\ proc[w] \in Processes
  BY Shapes DEF RoundsInv
<1>2. proc' = [proc EXCEPT ![w].pc = "scan"] /\ proc[w].pc = "check"
  BY DEF InsertScan
<1> QED
  BY <1>1, <1>2 DEF Processes

LEMMA IdleAgain ==
    ASSUME RoundsInv, NEW w \in ListWorkers, proc' = [proc EXCEPT ![w] = Idle]
    PROVE  proc'[w].pc = "idle" /\ \A v \in ListWorkers : v # w => proc'[v] = proc[v]
<1>1. proc \in [ListWorkers -> Processes]
  BY Shapes DEF RoundsInv
<1> QED
  BY <1>1 DEF Idle

LEMMA ReportProc ==
    ASSUME RoundsInv, NEW w \in ListWorkers, Reports(w)
    PROVE  /\ proc[w].pc \in {"scan", "report"} /\ proc'[w].pc \in {"report", "next"}
           /\ proc'[w].round = proc[w].round /\ proc'[w].night = proc[w].night /\ proc'[w].age = proc[w].age
           /\ proc'[w].pc = "next" => proc[w].night + 1 < RoundNights
           /\ \A v \in ListWorkers : v # w => proc'[v] = proc[v]
           /\ UNCHANGED <<scanned, job>>
<1>1. proc \in [ListWorkers -> Processes] /\ proc[w].night \in Nat
  BY Shapes, Bounds DEF RoundsInv, Processes, Nights
<1>2. PICK p \in Processes :
         /\ proc' = [proc EXCEPT ![w] = p]
         /\ p.round = proc[w].round /\ p.night = proc[w].night /\ p.age = proc[w].age
         /\ p.pc \in {"report", "next"} /\ (p.pc = "next" => ~LastNight(w))
  BY DEF Reports
<1>3. ~LastNight(w) => proc[w].night + 1 < RoundNights
  BY <1>1, Bounds DEF LastNight
<1> QED
  BY <1>1, <1>2, <1>3 DEF Reports

\* What holds of one process between steps.
Sound(w) ==
    /\ proc[w].round # 0 /\ job[proc[w].round][proc[w].night].at = "executing"
    /\ proc[w].pc = "check" => scanned[proc[w].round][proc[w].night] = 0
    /\ proc[w].pc # "check" => Scanned(proc[w].round, proc[w].night)
    /\ proc[w].pc = "next" => proc[w].night + 1 < RoundNights
SoundNow(w) ==
    /\ proc'[w].round # 0 /\ job'[proc'[w].round][proc'[w].night].at = "executing"
    /\ proc'[w].pc = "check" => scanned'[proc'[w].round][proc'[w].night] = 0
    /\ proc'[w].pc # "check" => scanned'[proc'[w].round][proc'[w].night] >= 1
    /\ proc'[w].pc = "next" => proc'[w].night + 1 < RoundNights
ApartNow(v, w) == proc'[v].round # proc'[w].round \/ proc'[v].night # proc'[w].night

LEMMA OneProcessNext ==
    ASSUME \A w \in ListWorkers : proc'[w].pc # "idle" => SoundNow(w),
           \A v, w \in ListWorkers : v # w /\ proc'[v].pc # "idle" /\ proc'[w].pc # "idle" => ApartNow(v, w)
    PROVE  OneProcess'
BY DEF OneProcess, SoundNow, ApartNow, Apart, Busy, Scanned

LEMMA OneProcessNow ==
    ASSUME RoundsInv
    PROVE  /\ \A w \in ListWorkers : Busy(w) =>
                /\ Sound(w) /\ proc[w].round \in Rounds /\ proc[w].night \in Nights
           /\ \A v, w \in ListWorkers : v # w /\ Busy(v) /\ Busy(w) => Apart(v, w)
BY BusyHasJob DEF RoundsInv, OneProcess, Sound

LEMMA OneProcessStays ==
    ASSUME RoundsInv, [RoundsNext]_roundsVars
    PROVE  OneProcess'
<1>1. /\ \A w \in ListWorkers : Busy(w) =>
            /\ Sound(w) /\ proc[w].round \in Rounds /\ proc[w].night \in Nights
      /\ \A v, w \in ListWorkers : v # w /\ Busy(v) /\ Busy(w) => Apart(v, w)
  BY OneProcessNow
<1>2. CASE UNCHANGED <<scanned, job, proc>>
  BY <1>1, <1>2, OneProcessNext DEF Sound, SoundNow, Apart, ApartNow, Busy, Scanned
<1>3. CASE TimePasses /\ UNCHANGED scanned
  <2>1. \A w \in ListWorkers : proc'[w].pc # "idle" =>
          /\ Busy(w) /\ proc'[w].pc = proc[w].pc /\ proc'[w].round = proc[w].round
          /\ proc'[w].night = proc[w].night
    BY <1>3, TimeIs DEF Busy
  <2>2. \A w \in ListWorkers : Busy(w) =>
          job'[proc[w].round][proc[w].night].at = "executing"
    <3> TAKE w \in ListWorkers
    <3> HAVE Busy(w)
    <3>1. /\ proc[w].round \in Rounds /\ proc[w].night \in Nights
          /\ job[proc[w].round][proc[w].night].at = "executing"
      BY <1>1 DEF Sound
    <3>2. job'[proc[w].round][proc[w].night] = job[proc[w].round][proc[w].night]
      BY <1>3, <3>1, TimeIs
    <3> QED
      BY <3>1, <3>2
  <2> QED
    BY <1>1, <1>3, <2>1, <2>2, OneProcessNext DEF Sound, SoundNow, Apart, ApartNow, Scanned
<1>4. ASSUME NEW a \in Actors, NEW q \in Rounds, NEW m \in Nights, Pushes(a, q, m)
      PROVE  OneProcess'
  <2>1. UNCHANGED <<scanned, proc>>
    BY <1>4 DEF Pushes
  <2>2. \A w \in ListWorkers : Busy(w) =>
          job'[proc[w].round][proc[w].night].at = "executing"
    BY <1>1, <1>4 DEF Pushes, Sound
  <2> QED
    BY <1>1, <2>1, <2>2, OneProcessNext DEF Sound, SoundNow, Apart, ApartNow, Busy, Scanned
<1>5. ASSUME NEW v \in ListWorkers, NEW q \in Rounds, NEW m \in Nights, TakeNight(v, q, m)
      PROVE  OneProcess'
  <2>1. /\ ~Busy(v) /\ job[q][m].at = "queued" /\ UNCHANGED scanned
        /\ proc'[v].pc = "check" /\ proc'[v].round = q /\ proc'[v].night = m
        /\ \A w \in ListWorkers : w # v => proc'[w] = proc[w]
    BY <1>5, TakeIs
  <2>2. job'[q][m].at = "executing" /\ scanned[q][m] = 0 /\ q # 0
    BY <1>5, <2>1, TakeIs, Bounds DEF RoundsInv, NeverAgain, Rounds
  <2>3. SoundNow(v)
    BY <2>1, <2>2 DEF SoundNow
  <2>4. ASSUME NEW w \in ListWorkers, w # v, proc'[w].pc # "idle"
        PROVE  SoundNow(w) /\ ApartNow(v, w) /\ ApartNow(w, v)
    <3>1. Busy(w) /\ proc'[w] = proc[w]
      BY <2>1, <2>4 DEF Busy
    <3> DEFINE r == proc[w].round  n == proc[w].night
    <3>2. r \in Rounds /\ n \in Nights /\ job[r][n].at = "executing" /\ Sound(w)
      BY <1>1, <3>1 DEF Sound
    <3> HIDE DEF r, n
    <3>3. ~ (r = q /\ n = m)
      BY <2>1, <3>2
    <3>4. job'[r][n] = job[r][n]
      BY <1>5, <3>2, <3>3, TakeIs
    <3> QED
      BY <2>1, <3>1, <3>2, <3>3, <3>4 DEF r, n, Sound, SoundNow, ApartNow, Scanned
  <2>5. \A u, w \in ListWorkers : u # w /\ proc'[u].pc # "idle" /\ proc'[w].pc # "idle" => ApartNow(u, w)
    <3> TAKE u, w \in ListWorkers
    <3>1. CASE u # v /\ w # v
      BY <1>1, <2>1, <3>1 DEF Apart, ApartNow, Busy
    <3> QED
      BY <2>4, <3>1
  <2> QED
    BY <2>3, <2>4, <2>5, OneProcessNext
<1>6. ASSUME NEW v \in ListWorkers, Ends(v) \/ PushNext(v)
      PROVE  OneProcess'
  <2>1. /\ Busy(v) /\ UNCHANGED scanned /\ proc'[v].pc = "idle"
        /\ \A w \in ListWorkers : w # v => proc'[w] = proc[w]
    BY <1>6, NextIs, IdleAgain DEF Ends
  <2>2. ASSUME NEW w \in ListWorkers, w # v, proc'[w].pc # "idle"
        PROVE  SoundNow(w)
    <3>1. Busy(w) /\ proc'[w] = proc[w]
      BY <2>1, <2>2 DEF Busy
    <3> DEFINE r == proc[w].round  n == proc[w].night
    <3>2. r \in Rounds /\ n \in Nights /\ job[r][n].at = "executing" /\ Sound(w)
      BY <1>1, <3>1 DEF Sound
    <3>3. ~ (r = proc[v].round /\ n = proc[v].night)
      BY <1>1, <2>1, <2>2, <3>1 DEF Apart
    <3> HIDE DEF r, n
    <3>4. CASE Ends(v)
      <4>1. PICK left \in 0..(KeepResult + JobTimeout) : job' = Ended(v, left)
        BY <3>4 DEF Ends
      <4>2. Ended(v, left)[r][n] = job[r][n]
        BY <2>1, <3>2, <3>3, EndOf
      <4> QED
        BY <2>1, <3>1, <3>2, <4>1, <4>2 DEF r, n, Sound, SoundNow, Scanned
    <3>5. CASE PushNext(v)
      <4>1. job'[r][n] = job[r][n]
        BY <3>2, <3>3, <3>5, NextIs
      <4> QED
        BY <2>1, <3>1, <3>2, <4>1 DEF r, n, Sound, SoundNow, Scanned
    <3> QED
      BY <1>6, <3>4, <3>5
  <2>3. \A u, w \in ListWorkers : u # w /\ proc'[u].pc # "idle" /\ proc'[w].pc # "idle" => ApartNow(u, w)
    BY <1>1, <2>1 DEF Apart, ApartNow, Busy
  <2> QED
    BY <2>1, <2>2, <2>3, OneProcessNext
<1>7. ASSUME NEW v \in ListWorkers, InsertScan(v) \/ Reports(v)
      PROVE  OneProcess'
  <2>1. /\ Busy(v) /\ proc'[v].round = proc[v].round /\ proc'[v].night = proc[v].night
        /\ \A w \in ListWorkers : w # v => proc'[w] = proc[w]
        /\ proc'[v].pc \in {"scan", "report", "next"} /\ UNCHANGED job
    BY <1>7, InsertProc, ReportProc, InsertIs DEF Busy
  <2> DEFINE p == proc[v].round  k == proc[v].night
  <2>2. p \in Rounds /\ k \in Nights /\ Sound(v)
    BY <1>1, <2>1
  <2>3. \A r \in Rounds, n \in Nights : ~ (r = p /\ n = k) => scanned'[r][n] = scanned[r][n]
    BY <1>7, InsertIs, ReportProc
  <2>4. scanned'[p][k] >= 1
    <3>1. CASE InsertScan(v)
      BY <2>2, <3>1, InsertIs
    <3>2. CASE Reports(v)
      BY <2>2, <3>2, ReportProc DEF Sound, Scanned
    <3> QED
      BY <1>7, <3>1, <3>2
  <2>5. proc'[v].pc = "next" => k + 1 < RoundNights
    BY <1>7, InsertProc, ReportProc
  <2>6. SoundNow(v)
    BY <2>1, <2>2, <2>4, <2>5 DEF Sound, SoundNow
  <2>7. ASSUME NEW w \in ListWorkers, w # v, proc'[w].pc # "idle"
        PROVE  SoundNow(w)
    <3>1. Busy(w) /\ proc'[w] = proc[w]
      BY <2>1, <2>7 DEF Busy
    <3> DEFINE r == proc[w].round  n == proc[w].night
    <3>2. r \in Rounds /\ n \in Nights /\ Sound(w)
      BY <1>1, <3>1
    <3>3. ~ (r = p /\ n = k)
      BY <1>1, <2>1, <2>7, <3>1 DEF Apart
    <3>4. scanned'[r][n] = scanned[r][n]
      BY <2>3, <3>2, <3>3
    <3> QED
      BY <2>1, <3>1, <3>2, <3>4 DEF Sound, SoundNow, Scanned
  <2>8. \A w \in ListWorkers : proc'[w].pc # "idle" =>
          Busy(w) /\ proc'[w].round = proc[w].round /\ proc'[w].night = proc[w].night
    BY <2>1 DEF Busy
  <2>9. \A u, w \in ListWorkers : u # w /\ proc'[u].pc # "idle" /\ proc'[w].pc # "idle" => ApartNow(u, w)
    BY <1>1, <2>8 DEF Apart, ApartNow
  <2> QED
    BY <2>6, <2>7, <2>9, OneProcessNext
<1>8. CASE ChainStep
  BY <1>4, <1>5, <1>6, <1>7, <1>8, ChainKinds
<1>9. CASE WorldStep
  BY <1>2, <1>3, <1>9, WorldKeeps
<1>10. CASE \E a \in Actors : ActorStep(a)
  BY <1>2, <1>10, ActorKeeps
<1> QED
  BY <1>8, <1>9, <1>10, Kinds

\* A job that no longer exists after a step of the chain did not exist before,
\* and the step scanned nothing for it.
LEMMA StillNone ==
    ASSUME RoundsInv, ChainStep, NEW r \in Rounds, NEW n \in Nights, job'[r][n].at = "none"
    PROVE  job[r][n].at = "none" /\ scanned'[r][n] = scanned[r][n]
<1>1. ASSUME NEW a \in Actors, NEW q \in Rounds, NEW m \in Nights, Pushes(a, q, m)
      PROVE  job[r][n].at = "none" /\ scanned'[r][n] = scanned[r][n]
  BY <1>1 DEF Pushes
<1>2. ASSUME NEW w \in ListWorkers, NEW q \in Rounds, NEW m \in Nights, TakeNight(w, q, m)
      PROVE  job[r][n].at = "none" /\ scanned'[r][n] = scanned[r][n]
  BY <1>2, TakeIs
<1>3. ASSUME NEW w \in ListWorkers, Ends(w)
      PROVE  job[r][n].at = "none" /\ scanned'[r][n] = scanned[r][n]
  <2>1. PICK left \in 0..(KeepResult + JobTimeout) : job' = Ended(w, left)
    BY <1>3 DEF Ends
  <2>2. Busy(w) /\ UNCHANGED scanned
    BY <1>3 DEF Ends
  <2>3. ~ (r = proc[w].round /\ n = proc[w].night)
    BY <2>1, <2>2, EndOf
  <2>4. Ended(w, left)[r][n] = job[r][n]
    BY <2>2, <2>3, EndOf
  <2> QED
    BY <2>1, <2>2, <2>4
<1>4. ASSUME NEW w \in ListWorkers, InsertScan(w)
      PROVE  job[r][n].at = "none" /\ scanned'[r][n] = scanned[r][n]
  BY <1>4, InsertIs
<1>5. ASSUME NEW w \in ListWorkers, Reports(w)
      PROVE  job[r][n].at = "none" /\ scanned'[r][n] = scanned[r][n]
  BY <1>5, ReportProc
<1>6. ASSUME NEW w \in ListWorkers, PushNext(w)
      PROVE  job[r][n].at = "none" /\ scanned'[r][n] = scanned[r][n]
  <2>1. UNCHANGED scanned /\ job'[r][n] = job[r][n]
    BY <1>6, NextIs
  <2> QED
    BY <2>1
<1> QED
  BY <1>1, <1>2, <1>3, <1>4, <1>5, <1>6, ChainKinds

\* A queued job is of a night its round has not scanned.
LEMMA QueuedIsNew ==
    ASSUME RoundsInv, [RoundsNext]_roundsVars, NEW r \in Rounds, NEW n \in Nights, job'[r][n].at = "queued"
    PROVE  scanned'[r][n] = 0
<1>1. /\ job[r][n].at = "queued" => scanned[r][n] = 0
      /\ scanned[r][n] \in Nat
  BY Shapes DEF RoundsInv, NeverAgain
<1>2. CASE WorldStep
  BY <1>1, <1>2, WorldKeeps, TimeIs, Shapes DEF RoundsInv, Jobs
<1>3. CASE \E a \in Actors : ActorStep(a)
  BY <1>1, <1>3, ActorKeeps
<1>4. ASSUME NEW a \in Actors, NEW q \in Rounds, NEW m \in Nights, Pushes(a, q, m)
      PROVE  scanned'[r][n] = 0
  <2>1. CASE job[r][n].at = "queued"
    BY <1>1, <1>4, <2>1 DEF Pushes
  <2>2. CASE job[r][n].at # "queued"
    <3>1. r = q /\ n = m /\ job[r][n].at = "none" /\ r = actor[a].round /\ UNCHANGED scanned
      BY <1>4, <2>2 DEF Pushes
    <3>2. CASE Pushing(a)
      BY <3>1, <3>2 DEF RoundsInv, Unpushed, Untouched
    <3>3. CASE a = "tick" /\ actor[a].pc = "repush" /\ n = actor[a].night
      <4>1. ~Scanned(r, n)
        BY <3>1, <3>3 DEF RoundsInv, NeverAgain
      <4> QED
        BY <1>1, <3>1, <4>1 DEF Scanned
    <3> QED
      BY <1>4, <3>1, <3>2, <3>3 DEF Pushes
  <2> QED
    BY <2>1, <2>2
<1>5. ASSUME NEW w \in ListWorkers, NEW q \in Rounds, NEW m \in Nights, TakeNight(w, q, m)
      PROVE  scanned'[r][n] = 0
  BY <1>1, <1>5, TakeIs
<1>6. ASSUME NEW w \in ListWorkers, Ends(w)
      PROVE  scanned'[r][n] = 0
  <2>1. PICK left \in 0..(KeepResult + JobTimeout) : job' = Ended(w, left)
    BY <1>6 DEF Ends
  <2>2. Busy(w) /\ UNCHANGED scanned
    BY <1>6 DEF Ends
  <2>3. ~ (r = proc[w].round /\ n = proc[w].night)
    BY <2>1, <2>2, EndOf
  <2>4. Ended(w, left)[r][n] = job[r][n]
    BY <2>2, <2>3, EndOf
  <2> QED
    BY <1>1, <2>1, <2>2, <2>4
<1>7. ASSUME NEW w \in ListWorkers, InsertScan(w)
      PROVE  scanned'[r][n] = 0
  BY <1>1, <1>7, InsertIs
<1>8. ASSUME NEW w \in ListWorkers, Reports(w)
      PROVE  scanned'[r][n] = 0
  BY <1>1, <1>8, ReportProc
<1>9. ASSUME NEW w \in ListWorkers, PushNext(w)
      PROVE  scanned'[r][n] = 0
  <2>1. UNCHANGED scanned
    BY <1>9, NextIs
  <2>2. CASE job[r][n].at = "queued"
    BY <1>1, <2>1, <2>2
  <2>3. CASE job[r][n].at # "queued"
    <3>1. /\ r = proc[w].round /\ n = proc[w].night + 1 /\ job[r][n].at = "none" /\ Busy(w)
      BY <1>9, <2>3, NextIs
    <3>2. proc[w].night + 1 < RoundNights
      BY <3>1, Bounds DEF Nights
    <3>3. ~Scanned(r, n)
      BY <3>1, <3>2 DEF RoundsInv, NeverAgain, Refused
    <3> QED
      BY <1>1, <2>1, <3>3 DEF Scanned
  <2> QED
    BY <2>2, <2>3
<1>10. CASE ChainStep
  BY <1>4, <1>5, <1>6, <1>7, <1>8, <1>9, <1>10, ChainKinds
<1> QED
  BY <1>2, <1>3, <1>10, Kinds

RefusedNow(r, n, age) ==
    \/ job'[r][n].at = "executing"
    \/ job'[r][n].at = "kept" /\ job'[r][n].left + age >= KeepResult

\* A step of the chain ends no refusal.
LEMMA RefusalStays ==
    ASSUME RoundsInv, ChainStep, NEW r \in Rounds, NEW n \in Nights, NEW age \in Nat, Refused(r, n, age)
    PROVE  RefusedNow(r, n, age)
<1>1. job[r][n].at \notin {"none", "queued"}
  BY DEF Refused
<1>2. job'[r][n] = job[r][n] => RefusedNow(r, n, age)
  BY DEF Refused, RefusedNow
<1>3. ASSUME NEW a \in Actors, NEW q \in Rounds, NEW m \in Nights, Pushes(a, q, m)
      PROVE  job'[r][n] = job[r][n]
  BY <1>1, <1>3 DEF Pushes
<1>4. ASSUME NEW w \in ListWorkers, NEW q \in Rounds, NEW m \in Nights, TakeNight(w, q, m)
      PROVE  job'[r][n] = job[r][n]
  BY <1>1, <1>4, TakeIs
<1>5. ASSUME NEW w \in ListWorkers, Ends(w)
      PROVE  RefusedNow(r, n, age)
  <2>1. PICK left \in 0..(KeepResult + JobTimeout) : left >= KeepResult /\ job' = Ended(w, left)
    BY <1>5 DEF Ends
  <2>2. Busy(w)
    BY <1>5 DEF Ends
  <2>3. CASE r = proc[w].round /\ n = proc[w].night
    <3>1. Ended(w, left)[r][n].at = "kept" /\ Ended(w, left)[r][n].left = left
      BY <2>2, <2>3, EndOf
    <3> QED
      BY <2>1, <3>1, Bounds DEF RefusedNow
  <2>4. CASE ~ (r = proc[w].round /\ n = proc[w].night)
    <3>1. Ended(w, left)[r][n] = job[r][n]
      BY <2>2, <2>4, EndOf
    <3> QED
      BY <1>2, <2>1, <3>1
  <2> QED
    BY <2>3, <2>4
<1>6. ASSUME NEW w \in ListWorkers, InsertScan(w) \/ Reports(w)
      PROVE  job'[r][n] = job[r][n]
  BY <1>6, InsertIs, ReportProc
<1>7. ASSUME NEW w \in ListWorkers, PushNext(w)
      PROVE  RefusedNow(r, n, age)
  <2>1. CASE r = proc[w].round /\ n = proc[w].night
    <3>1. job'[r][n].at = "kept" /\ job'[r][n].left = KeepResult
      BY <1>7, <2>1, NextIs
    <3> QED
      BY <3>1, Bounds DEF RefusedNow
  <2>2. CASE ~ (r = proc[w].round /\ n = proc[w].night)
    <3>1. job'[r][n] = job[r][n]
      BY <1>1, <1>7, <2>2, NextIs
    <3> QED
      BY <1>2, <3>1
  <2> QED
    BY <2>1, <2>2
<1> QED
  BY <1>2, <1>3, <1>4, <1>5, <1>6, <1>7, ChainKinds

\* The night after the one a process executes.
LEMMA NextRefused ==
    ASSUME RoundsInv, [RoundsNext]_roundsVars, NEW w \in ListWorkers, proc'[w].pc # "idle",
           NEW r \in Rounds, NEW k \in Nights, r = proc'[w].round, k = proc'[w].night, k + 1 < RoundNights,
           scanned'[r][k + 1] >= 1
    PROVE  RefusedNow(r, k + 1, proc'[w].age)
<1> DEFINE n == k + 1
<1>1. n \in Nights /\ n # k /\ k < n
  BY Bounds DEF Nights
<1> HIDE DEF n
<1>2. \A v \in ListWorkers : Busy(v) =>
        /\ Sound(v) /\ proc[v].round \in Rounds /\ proc[v].night \in Nights /\ proc[v].age \in 0..JobTimeout
        /\ proc[v].age \in Nat
  BY OneProcessNow, Shapes, Bounds DEF RoundsInv, Processes
<1>3. ASSUME Busy(w), proc[w].round = r, proc[w].night = k, Scanned(r, n)
      PROVE  Refused(r, n, proc[w].age)
  BY <1>1, <1>3 DEF RoundsInv, NeverAgain, n
<1>4. CASE proc' = proc /\ job' = job /\ scanned' = scanned
  <2>1. Busy(w) /\ Scanned(r, n) /\ proc'[w] = proc[w]
    BY <1>4 DEF Busy, Scanned, n
  <2>2. Refused(r, n, proc[w].age)
    BY <1>3, <2>1
  <2> QED
    BY <1>4, <2>1, <2>2 DEF Refused, RefusedNow, n
<1>5. CASE TimePasses
  <2>1. /\ Busy(w) /\ proc[w].round = r /\ proc[w].night = k /\ proc[w].age < JobTimeout
        /\ proc'[w].age = proc[w].age + 1
    BY <1>5, TimeIs DEF Busy
  <2>2. Scanned(r, n)
    BY <1>5 DEF TimePasses, Scanned, n
  <2>3. Refused(r, n, proc[w].age)
    BY <1>3, <2>1, <2>2
  <2>4. proc[w].age \in Nat /\ job[r][n].left \in Nat
    BY <1>1, <1>2, <2>1, Shapes, Bounds DEF RoundsInv, Jobs
  <2>5. CASE job[r][n].at = "executing"
    BY <1>1, <1>5, <2>5, TimeIs DEF RefusedNow, n
  <2>6. CASE job[r][n].at = "kept" /\ job[r][n].left + proc[w].age >= KeepResult
    <3>1. job[r][n].left > 0
      BY <2>1, <2>4, <2>6, Bounds
    <3>2. job'[r][n].at = "kept" /\ job'[r][n].left = job[r][n].left - 1
      BY <1>1, <1>5, <2>6, <3>1, TimeIs
    <3> QED
      BY <2>1, <2>4, <2>6, <3>2, Bounds DEF RefusedNow, n
  <2> QED
    BY <2>3, <2>5, <2>6 DEF Refused
<1>6. ASSUME ChainStep, proc'[w].round = proc[w].round, proc'[w].night = proc[w].night,
             proc'[w].age = proc[w].age, Busy(w), scanned[r][n] >= 1
      PROVE  RefusedNow(r, k + 1, proc'[w].age)
  <2>1. Refused(r, n, proc[w].age) /\ proc[w].age \in Nat
    BY <1>2, <1>3, <1>6 DEF Scanned
  <2> DEFINE g == proc[w].age
  <2>2. g \in Nat /\ Refused(r, n, g) /\ proc'[w].age = g
    BY <1>6, <2>1
  <2>3. PICK h : h = g
    OBVIOUS
  <2> HIDE DEF g
  <2>4. RefusedNow(r, n, h)
    BY <1>1, <1>6, <2>2, <2>3, RefusalStays
  <2> QED
    BY <2>2, <2>3, <2>4 DEF n
<1>7. ASSUME ChainStep PROVE RefusedNow(r, k + 1, proc'[w].age)
  <2>1. ASSUME NEW a \in Actors, NEW q \in Rounds, NEW m \in Nights, Pushes(a, q, m)
        PROVE  RefusedNow(r, k + 1, proc'[w].age)
    BY <1>6, <1>7, <2>1 DEF Pushes, Busy, n
  <2>2. ASSUME NEW v \in ListWorkers, NEW q \in Rounds, NEW m \in Nights, TakeNight(v, q, m)
        PROVE  RefusedNow(r, k + 1, proc'[w].age)
    <3>1. scanned[r][n] >= 1
      BY <2>2, TakeIs DEF n
    <3>2. v # w
      <4> SUFFICES ASSUME v = w PROVE FALSE
        OBVIOUS
      <4>1. job[r][k].at = "queued"
        BY <2>2, TakeIs
      <4>2. scanned[r][k] = 0
        BY <4>1 DEF RoundsInv, NeverAgain
      <4>3. scanned[r][k] >= 1
        BY <1>1, <3>1 DEF RoundsInv, FirstNights, Scanned
      <4> QED
        BY <4>2, <4>3
    <3>3. proc'[w] = proc[w]
      BY <2>2, <3>2, TakeIs
    <3> QED
      BY <1>6, <1>7, <3>1, <3>3 DEF Busy
  <2>3. ASSUME NEW v \in ListWorkers, Ends(v) \/ PushNext(v)
        PROVE  RefusedNow(r, k + 1, proc'[w].age)
    <3>1. proc' = [proc EXCEPT ![v] = Idle] /\ UNCHANGED scanned
      BY <2>3, NextIs DEF Ends
    <3>2. v # w /\ proc'[w] = proc[w]
      BY <3>1, IdleAgain
    <3> QED
      BY <1>6, <1>7, <3>1, <3>2 DEF Busy, n
  <2>4. ASSUME NEW v \in ListWorkers, Reports(v)
        PROVE  RefusedNow(r, k + 1, proc'[w].age)
    <3>1. /\ UNCHANGED scanned /\ proc'[w].round = proc[w].round /\ proc'[w].night = proc[w].night
          /\ proc'[w].age = proc[w].age /\ Busy(w)
      BY <2>4, ReportProc DEF Busy
    <3> QED
      BY <1>6, <1>7, <3>1 DEF n
  <2>5. ASSUME NEW v \in ListWorkers, InsertScan(v)
        PROVE  RefusedNow(r, k + 1, proc'[w].age)
    <3>1. /\ proc'[w].round = proc[w].round /\ proc'[w].night = proc[w].night
          /\ proc'[w].age = proc[w].age /\ Busy(w)
      BY <2>5, InsertProc DEF Busy
    <3>2. CASE r = proc[v].round /\ n = proc[v].night
      <4>1. job'[r][n].at = "executing"
        BY <2>5, <3>2, InsertIs
      <4> QED
        BY <4>1 DEF RefusedNow, n
    <3>3. CASE ~ (r = proc[v].round /\ n = proc[v].night)
      <4>1. scanned'[r][n] = scanned[r][n]
        BY <1>1, <2>5, <3>3, InsertIs
      <4>2. scanned[r][n] >= 1
        BY <4>1 DEF n
      <4> QED
        BY <1>6, <1>7, <3>1, <4>2
    <3> QED
      BY <3>2, <3>3
  <2> QED
    BY <1>7, <2>1, <2>2, <2>3, <2>4, <2>5, ChainKinds
<1>8. CASE WorldStep
  BY <1>4, <1>5, <1>8, WorldKeeps
<1>9. CASE \E a \in Actors : ActorStep(a)
  BY <1>4, <1>9, ActorKeeps
<1> QED
  BY <1>7, <1>8, <1>9, Kinds

\* The night a chain is restarted at.
LEMMA RestartRefused ==
    ASSUME RoundsInv, [RoundsNext]_roundsVars, actor'["tick"].pc = "repush",
           NEW r \in Rounds, NEW n \in Nights, r = actor'["tick"].round, n = actor'["tick"].night,
           scanned'[r][n] >= 1
    PROVE  job'[r][n].at # "none"
<1>1. "tick" \in Actors
  BY DEF Actors
<1>2. CASE actor'["tick"] = actor["tick"]
  <2>1. actor["tick"].pc = "repush" /\ r = actor["tick"].round /\ n = actor["tick"].night
    BY <1>2
  <2>2. scanned[r][n] >= 1 => job[r][n].at # "none"
    BY <2>1 DEF RoundsInv, NeverAgain, Scanned
  <2>3. CASE WorldStep
    <3>1. ~TimePasses
      BY <1>1, <2>1, TimeIs
    <3> QED
      BY <2>2, <2>3, <3>1, WorldKeeps
  <2>4. CASE \E a \in Actors : ActorStep(a)
    BY <2>2, <2>4, ActorKeeps
  <2>5. CASE ChainStep
    BY <2>2, <2>5, StillNone
  <2> QED
    BY <2>3, <2>4, <2>5, Kinds
<1>3. CASE actor'["tick"] # actor["tick"]
  <2>1. PICK a \in Actors : ActorStep(a)
    BY <1>1, <1>3, Kinds, ChainKeeps, WorldKeeps, RestIs
  <2>2. PICK c \in Actors : Moves(c)
    BY <2>1, ActorMoves
  <2>3. c = "tick" /\ MovesToRepush(c)
    BY <1>1, <1>3, <2>2, RestIs DEF Moves, MovesToClaim, MovesToPush, MovesToRecover, MovesToRest, MovesBack
  <2>4. /\ Unscanned(r) # {} /\ n = NextUnscanned(r)
    BY <2>3, RestIs DEF MovesToRepush
  <2>5. r \in Nat /\ seenAt[n] \in Nat
    BY Bounds, Growth DEF Rounds
  <2>6. seenAt[n] < r
    BY <2>4, <2>5, NextIsFirst DEF Unscanned
  <2>7. ~Scanned(r, n)
    BY <2>5, <2>6 DEF RoundsInv, FirstNights
  <2> QED
    BY <2>1, <2>7, ActorKeeps DEF Scanned
<1> QED
  BY <1>2, <1>3

LEMMA NeverAgainStays ==
    ASSUME RoundsInv, [RoundsNext]_roundsVars, Types', Counted', OneProcess'
    PROVE  NeverAgain'
<1>1. \A r \in Rounds, n \in Nights : job'[r][n].at = "queued" => scanned'[r][n] = 0
  BY QueuedIsNew
<1>2. ASSUME NEW w \in ListWorkers, proc'[w].pc # "idle", proc'[w].night + 1 < RoundNights,
             scanned'[proc'[w].round][proc'[w].night + 1] >= 1
      PROVE  RefusedNow(proc'[w].round, proc'[w].night + 1, proc'[w].age)
  <2>1. proc'[w].round \in 0..MaxRounds /\ proc'[w].night \in Nights
    BY DEF Types, RoundsTypeOK
  <2>2. proc'[w].round # 0
    BY <1>2 DEF OneProcess, Busy
  <2>3. PICK r \in Rounds : r = proc'[w].round
    BY <2>1, <2>2, Bounds DEF Rounds
  <2>4. PICK k \in Nights : k = proc'[w].night
    BY <2>1
  <2>5. RefusedNow(r, k + 1, proc'[w].age)
    BY <1>2, <2>3, <2>4, NextRefused
  <2> QED
    BY <2>3, <2>4, <2>5
<1>3. ASSUME actor'["tick"].pc = "repush", scanned'[actor'["tick"].round][actor'["tick"].night] >= 1
      PROVE  job'[actor'["tick"].round][actor'["tick"].night].at # "none"
  <2>1. actor'["tick"].round \in 0..MaxRounds /\ actor'["tick"].night \in Nights /\ actor'["tick"].round # 0
    BY <1>3 DEF Types, RoundsTypeOK, Counted, Actors
  <2>2. PICK r \in Rounds : r = actor'["tick"].round
    BY <2>1, Bounds DEF Rounds
  <2>3. PICK k \in Nights : k = actor'["tick"].night
    BY <2>1
  <2> QED
    BY <1>3, <2>2, <2>3, RestartRefused
<1> QED
  BY <1>1, <1>2, <1>3 DEF NeverAgain, Refused, RefusedNow, Scanned, Busy

-----------------------------------------------------------------------------
(* The theorems.                                                             *)

LEMMA RoundsInvInit == RoundsInit => RoundsInv
<1> SUFFICES ASSUME RoundsInit PROVE RoundsInv
  OBVIOUS
<1>1. /\ area = NoArea /\ claims = 0 /\ faults = 0 /\ day = 0 /\ paused = FALSE /\ open = {}
      /\ scanned = [r \in Rounds |-> [n \in Nights |-> 0]] /\ seenAt = [n \in Nights |-> 0]
      /\ job = [r \in Rounds |-> [n \in Nights |-> NoJob]]
      /\ proc = [w \in ListWorkers |-> Idle] /\ actor = [a \in Actors |-> Rest]
  BY DEF RoundsInit
<1>2. NoJob \in Jobs /\ NoJob.at = "none" /\ Idle.pc = "idle" /\ NoArea.round = 0 /\ NoArea.status = "none"
  BY Bounds DEF NoJob, Jobs, Idle, NoArea
<1>3. /\ \A r \in Rounds, n \in Nights : job[r][n] = NoJob /\ scanned[r][n] = 0
      /\ \A n \in Nights : seenAt[n] = 0
      /\ \A w \in ListWorkers : proc[w].pc = "idle"
      /\ \A a \in Actors : actor[a] = Rest /\ actor[a].pc = "rest" /\ actor[a].round = 0 /\ actor[a].read.round = 0
      /\ actor["tick"].pc = "rest" /\ actor["route"].pc = "rest"
  BY <1>1, <1>2, RestIs DEF Actors
<1>4. Types
  <2>1. 0 \in 0..RoundFaults /\ 0 \in 0..MaxDays /\ 0 \in 0..MaxRounds
    BY Bounds
  <2>2. /\ scanned \in [Rounds -> [Nights -> Nat]] /\ seenAt \in [Nights -> 0..MaxRounds]
        /\ job \in [Rounds -> [Nights -> Jobs]] /\ proc \in [ListWorkers -> Processes]
        /\ actor \in [Actors -> Places] /\ area \in Reads
    BY <1>1, <1>2, <2>1, IdleShapes
  <2> QED
    BY <1>1, <2>1, <2>2, TypesAre
<1>5. Counted
  BY <1>1, <1>2, <1>3 DEF Counted, Pushing, Untouched
<1>6. Unpushed
  BY <1>2, <1>3 DEF Unpushed, Pushing, Untouched
<1>7. NotYetSilent /\ OwnNights /\ AllHonest
  BY <1>1, <1>2, <1>3 DEF NotYetSilent, Restarting, OwnNights, Own, AllHonest, Honest, Pushing
<1>8. InOrder /\ FirstNights /\ NightScannedOnce
  BY <1>2, <1>3 DEF InOrder, FirstNights, Scanned, NightScannedOnce
<1>9. OneProcess /\ NeverAgain
  BY <1>2, <1>3 DEF OneProcess, NeverAgain, Busy
<1> QED
  BY <1>4, <1>5, <1>6, <1>7, <1>8, <1>9 DEF RoundsInv

LEMMA RoundsInvStays == RoundsInv /\ [RoundsNext]_roundsVars => RoundsInv'
<1> SUFFICES ASSUME RoundsInv, [RoundsNext]_roundsVars PROVE RoundsInv'
  OBVIOUS
<1>1. Types'
  BY Kinds, TypesOfActors, TypesOfChain, TypesOfWorld
<1>2. Counted' /\ Unpushed' /\ NotYetSilent' /\ OwnNights' /\ AllHonest'
  BY <1>1, CountedStays, UnpushedStays, NotYetSilentStays, OwnNightsStay, AllHonestStays
<1>3. InOrder' /\ FirstNights' /\ NightScannedOnce' /\ OneProcess'
  BY InOrderStays, FirstNightsStay, OneProcessStays
<1>4. NeverAgain'
  BY <1>1, <1>2, <1>3, NeverAgainStays
<1> QED
  BY <1>1, <1>2, <1>3, <1>4 DEF RoundsInv

LEMMA RoundsInvGives == RoundsInv => RoundIsWhole
<1> SUFFICES ASSUME RoundsInv PROVE RoundIsWhole
  OBVIOUS
<1>1. RoundsTypeOK /\ NightScannedOnce
  BY DEF RoundsInv, Types
<1>2. NoNightSkipped
  <2> SUFFICES ASSUME NEW r \in Rounds, NEW n \in Nights, scanned[r][n] > 0, NEW m \in 0..n
               PROVE  seenAt[m] >= r
    BY DEF NoNightSkipped
  <2>1. m \in Nights /\ (m < n \/ m = n)
    BY Bounds DEF Nights
  <2>2. Scanned(r, n)
    BY Shapes DEF RoundsInv, Scanned
  <2>3. Scanned(r, m)
    BY <2>1, <2>2 DEF RoundsInv, FirstNights
  <2> QED
    BY <2>1, <2>3 DEF RoundsInv, FirstNights
<1>3. CompletedIsScanned
  BY DEF RoundsInv, AllHonest, Honest, CompletedIsScanned
<1> QED
  BY <1>1, <1>2, <1>3 DEF RoundIsWhole

\* The invariant holds in every behaviour, under any fairness.
THEOREM RoundsInvariant == RoundsSpec => []RoundsInv
BY RoundsInvInit, RoundsInvStays, PTL DEF RoundsSpec

\* However the tick, the "scan now" route and the workers interleave, whoever
\* dies between a commit and the push after it, and however late a restarted
\* chain's old jobs are executed: no night of a round is scanned twice, none is
\* skipped, and a round its own chain or recovery calls completed has had every
\* night tried (marketscan/rounds.py, jobs.py, scheduling.py).
THEOREM RoundsAreWhole == RoundsSpec => []RoundIsWhole
BY RoundsInvariant, RoundsInvGives, PTL

-----------------------------------------------------------------------------
(* A night: folds over the cards of a page first.                            *)

\* Of the numbers 1..n some, not none: one of them is the greatest.
LEMMA GreatestElement ==
    ASSUME NEW n \in Nat, NEW S \in SUBSET (1..n), S # {}
    PROVE  Max(S) \in S /\ \A y \in S : y <= Max(S)
<1> DEFINE T == {k \in Nat : \E x \in S : k = n - x}
<1>1. \A x \in S : x \in Int /\ 1 <= x /\ x <= n
  OBVIOUS
<1>2. \A x \in S : n - x \in T
  BY <1>1
<1>3. PICK t \in T : \A u \in T : t <= u
  <2>1. T \in SUBSET Nat /\ T # {}
    BY <1>2
  <2> HIDE DEF T
  <2> QED
    BY <2>1, LeastElement
<1>4. PICK x \in S : t = n - x
  OBVIOUS
<1>5. \A y \in S : x >= y
  <2> TAKE y \in S
  <2>1. t <= n - y
    BY <1>2, <1>3
  <2> QED
    BY <2>1, <1>4, <1>1
<1>6. \E m \in S : \A y \in S : m >= y
  BY <1>5
<1>7. Max(S) \in S /\ \A y \in S : Max(S) >= y
  BY <1>6 DEF Max
<1> QED
  BY <1>7, <1>1

\* A function that takes the greatest number out of a set of 1..n at a time is
\* defined for every such set: what a fold over a sequence needs.
LEMMA FoldExists ==
    ASSUME NEW n \in Nat, NEW V, NEW b \in V, NEW step \in [1..n -> [V -> V]]
    PROVE  \E it \in [SUBSET (1..n) -> V] :
              \A S \in SUBSET (1..n) : it[S] = IF S = {} THEN b ELSE step[Max(S)][it[S \ {Max(S)}]]
<1> DEFINE Sub(k) == {S \in SUBSET (1..n) : S \subseteq 1..k}
           Is(it, D) == /\ it \in [D -> V]
                        /\ \A S \in D : it[S] = IF S = {} THEN b ELSE step[Max(S)][it[S \ {Max(S)}]]
           Bad == {k \in Nat : ~ \E it : Is(it, Sub(k))}
<1>1. \E it : Is(it, Sub(0))
  <2>1. Sub(0) = {{}}
    OBVIOUS
  <2>2. Is([S \in {{}} |-> b], {{}})
    OBVIOUS
  <2> HIDE DEF Is, Sub
  <2> QED
    BY <2>1, <2>2
<1>2. ASSUME NEW k \in Nat, NEW it, Is(it, Sub(k)) PROVE \E x : Is(x, Sub(k + 1))
  <2> DEFINE next == [S \in Sub(k + 1) |-> IF S = {} THEN b ELSE step[Max(S)][it[S \ {Max(S)}]]]
  <2>1. ASSUME NEW S \in Sub(k + 1), S # {}
        PROVE  Max(S) \in 1..n /\ S \ {Max(S)} \in Sub(k)
    <3>1. S \in SUBSET (1..n) /\ S # {} /\ \A y \in S : y \in Nat /\ 1 <= y /\ y <= n /\ y <= k + 1
      BY <2>1
    <3>2. Max(S) \in S /\ \A y \in S : y <= Max(S)
      BY GreatestElement, <3>1
    <3>3. PICK m : m = Max(S)
      OBVIOUS
    <3>4. m \in S /\ \A y \in S : y <= m
      BY <3>2, <3>3
    <3> HIDE DEF Is, Sub, Bad, next
    <3>5. \A y \in S : y # m => y \in 1..k
      BY <3>1, <3>4
    <3>6. m \in 1..n /\ S \ {m} \in SUBSET (1..n) /\ S \ {m} \subseteq 1..k
      BY <3>1, <3>4, <3>5
    <3> USE DEF Sub
    <3> QED
      BY <3>3, <3>6
  <2>2. Sub(k) \subseteq Sub(k + 1) /\ {} \in Sub(k)
    OBVIOUS
  <2> HIDE DEF Sub, Bad
  <2>3. \A S \in Sub(k) : next[S] = it[S]
    BY <1>2, <2>2
  <2>4. next \in [Sub(k + 1) -> V]
    BY <1>2, <2>1
  <2>5. \A S \in Sub(k + 1) : next[S] = IF S = {} THEN b ELSE step[Max(S)][next[S \ {Max(S)}]]
    BY <2>1, <2>3
  <2> HIDE DEF next
  <2> QED
    BY <2>4, <2>5
<1>3. Bad = {}
  <2> HIDE DEF Is, Sub
  <2> SUFFICES ASSUME Bad # {} PROVE FALSE
    OBVIOUS
  <2>1. PICK k \in Bad : \A j \in Bad : k <= j
    BY LeastElement
  <2>2. k \in Nat /\ k # 0
    BY <1>1
  <2>3. k - 1 \in Nat /\ k - 1 \notin Bad
    BY <2>1, <2>2
  <2>4. \E it : Is(it, Sub(k - 1))
    BY <2>3
  <2>5. \E it : Is(it, Sub((k - 1) + 1))
    BY <1>2, <2>3, <2>4
  <2> QED
    BY <2>2, <2>5
<1>4. PICK it : Is(it, Sub(n))
  <2> HIDE DEF Is, Sub
  <2> QED
    BY <1>3
<1>5. Sub(n) = SUBSET (1..n)
  OBVIOUS
<1> HIDE DEF Sub
<1> QED
  BY <1>4, <1>5
-----------------------------------------------------------------------------
(* A page's cards, read one after the other.                                 *)

Hotels == DOMAIN Town

\* A hotel seen is one of those seen, once.
LEMMA SeeLemma ==
    ASSUME NEW H, NEW v \in Seq(H), NEW h \in H
    PROVE  /\ See(v, h) \in Seq(H)
           /\ ToSet(See(v, h)) = ToSet(v) \cup {h}
           /\ IsInjective(v) => IsInjective(See(v, h))
<1>1. CASE h \in ToSet(v)
  BY <1>1, Zenon DEF See
<1>2. CASE h \notin ToSet(v)
  <2> DEFINE w == Append(v, h)
  <2>1. See(v, h) = w
    BY <1>2 DEF See
  <2>2. /\ w \in Seq(H) /\ Len(v) \in Nat /\ DOMAIN v = 1..Len(v)
        /\ DOMAIN w = 1..(Len(v) + 1) /\ w[Len(v) + 1] = h
        /\ \A i \in 1..Len(v) : w[i] = v[i]
    OBVIOUS
  <2>3. \A i \in 1..Len(v) : v[i] # h
    BY <1>2, <2>2 DEF ToSet
  <2> HIDE DEF w
  <2>4. ToSet(w) = ToSet(v) \cup {h}
    BY <2>2 DEF ToSet
  <2>5. ASSUME IsInjective(v), NEW a \in DOMAIN w, NEW b \in DOMAIN w, w[a] = w[b] PROVE a = b
    <3>1. \A i, j \in 1..Len(v) : v[i] = v[j] => i = j
      BY <2>2, <2>5 DEF IsInjective
    <3> QED
      BY <2>2, <2>3, <2>5, <3>1
  <2>6. IsInjective(v) => IsInjective(w)
    BY <2>5, Zenon DEF IsInjective
  <2> QED
    BY <2>1, <2>2, <2>4, <2>6
<1> QED
  BY <1>1, <1>2

\* After the cards are read, the hotels seen are those of before and those of
\* the cards, none twice.
LEMMA ReadCards ==
    ASSUME NEW H, NEW s0 \in Seq(H), NEW cards \in Seq(H)
    PROVE  /\ FoldLeft(See, s0, cards) \in Seq(H)
           /\ ToSet(FoldLeft(See, s0, cards)) = ToSet(s0) \cup ToSet(cards)
           /\ IsInjective(s0) => IsInjective(FoldLeft(See, s0, cards))
<1> DEFINE n == Len(cards)
           Body(it) == [S \in SUBSET (1..n) |-> IF S = {} THEN s0 ELSE See(it[S \ {Max(S)}], cards[Max(S)])]
           Fix == CHOOSE it : it = Body(it)
           step == [i \in 1..n |-> [v \in Seq(H) |-> See(v, cards[i])]]
<1>1. n \in Nat /\ DOMAIN cards = 1..n /\ \A i \in 1..n : cards[i] \in H
  OBVIOUS
<1>2. FoldLeft(See, s0, cards) = Fix[1..n]
  BY <1>1, Zenon DEF FoldLeft, MapThenFoldSet
<1> HIDE DEF n
<1>3. step \in [1..n -> [Seq(H) -> Seq(H)]]
  BY <1>1, SeeLemma
<1>4. \E it \in [SUBSET (1..n) -> Seq(H)] :
         \A S \in SUBSET (1..n) : it[S] = IF S = {} THEN s0 ELSE step[Max(S)][it[S \ {Max(S)}]]
  <2> DEFINE Is(it, m, U, c, st) ==
               \A S \in SUBSET (1..m) : it[S] = IF S = {} THEN c ELSE st[Max(S)][it[S \ {Max(S)}]]
  <2>1. \A m \in Nat : \A U : \A c \in U : \A st \in [1..m -> [U -> U]] :
           \E it \in [SUBSET (1..m) -> U] : Is(it, m, U, c, st)
    BY FoldExists
  <2> HIDE DEF Is, step
  <2>2. \E it \in [SUBSET (1..n) -> Seq(H)] : Is(it, n, Seq(H), s0, step)
    BY <1>1, <1>3, <2>1
  <2> QED
    BY <2>2 DEF Is
<1>5. \E it : it = Body(it)
  <2>1. PICK it \in [SUBSET (1..n) -> Seq(H)] :
         \A S \in SUBSET (1..n) : it[S] = IF S = {} THEN s0 ELSE step[Max(S)][it[S \ {Max(S)}]]
    BY <1>4
  <2>2. ASSUME NEW S \in SUBSET (1..n), S # {}
        PROVE  step[Max(S)][it[S \ {Max(S)}]] = See(it[S \ {Max(S)}], cards[Max(S)])
    <3>1. Max(S) \in 1..n /\ S \ {Max(S)} \in SUBSET (1..n)
      BY <2>2, <1>1, GreatestElement
    <3>2. it[S \ {Max(S)}] \in Seq(H)
      BY <2>1, <3>1
    <3> QED
      BY <3>1, <3>2
  <2> HIDE DEF step
  <2>3. it = Body(it)
    BY <2>1, <2>2
  <2> QED
    BY <2>3
<1>6. Fix = Body(Fix)
  BY <1>5
<1> HIDE DEF Fix
<1> DEFINE Good(S) == /\ Fix[S] \in Seq(H)
                      /\ ToSet(Fix[S]) = ToSet(s0) \cup {cards[i] : i \in S}
                      /\ IsInjective(s0) => IsInjective(Fix[S])
           Bad == {k \in 0..n : \E S \in SUBSET (1..n) : S \subseteq 1..k /\ ~ Good(S)}
<1>7. Good({})
  <2>1. Fix[{}] = s0
    BY <1>6
  <2> QED
    BY <2>1
<1>8. ASSUME NEW S \in SUBSET (1..n), S # {}, Good(S \ {Max(S)}) PROVE Good(S)
  <2>1. Fix[S] = See(Fix[S \ {Max(S)}], cards[Max(S)])
    BY <1>6, <1>8
  <2>2. Max(S) \in S /\ Max(S) \in 1..n
    BY <1>8, <1>1, GreatestElement
  <2>3. {cards[i] : i \in S} = {cards[i] : i \in S \ {Max(S)}} \cup {cards[Max(S)]}
    BY <2>2
  <2>4. PICK v : v = Fix[S \ {Max(S)}]
    OBVIOUS
  <2>5. PICK h : h = cards[Max(S)]
    OBVIOUS
  <2>6. /\ v \in Seq(H) /\ ToSet(v) = ToSet(s0) \cup {cards[i] : i \in S \ {Max(S)}}
        /\ IsInjective(s0) => IsInjective(v)
    BY <1>8, <2>4
  <2>7. h \in H /\ Fix[S] = See(v, h)
    BY <1>1, <2>1, <2>2, <2>4, <2>5
  <2>8. /\ Fix[S] \in Seq(H) /\ ToSet(Fix[S]) = ToSet(v) \cup {h}
        /\ IsInjective(v) => IsInjective(Fix[S])
    BY <2>6, <2>7, SeeLemma
  <2>9. ToSet(Fix[S]) = ToSet(s0) \cup {cards[i] : i \in S}
    BY <2>3, <2>5, <2>6, <2>8
  <2> QED
    BY <2>6, <2>8, <2>9
<1> HIDE DEF Good
<1>9. Bad = {}
  <2> SUFFICES ASSUME Bad # {} PROVE FALSE
    OBVIOUS
  <2>1. Bad \in SUBSET Nat
    BY <1>1
  <2> HIDE DEF Bad
  <2>2. PICK k \in Bad : \A j \in Bad : k <= j
    BY <2>1, LeastElement
  <2> USE DEF Bad
  <2>3. PICK S \in SUBSET (1..n) : S \subseteq 1..k /\ ~ Good(S)
    BY <2>2
  <2>4. k \in Nat /\ k <= n
    BY <1>1
  <2>11. S # {}
    BY <1>7, <2>3, Zenon
  <2>5. Max(S) \in S /\ (\A y \in S : y <= Max(S)) /\ ~ Good(S \ {Max(S)})
    BY <1>1, <1>8, <2>3, <2>11, GreatestElement
  <2>6. PICK m : m = Max(S)
    OBVIOUS
  <2>7. \A y \in S : y \in Nat /\ y >= 1 /\ y <= k
    BY <2>3
  <2>8. m \in S /\ \A y \in S : y <= m
    BY <2>5, <2>6
  <2>9. k - 1 \in Nat /\ k - 1 <= n /\ S \ {m} \subseteq 1..(k - 1)
    BY <1>1, <2>4, <2>7, <2>8
  <2>10. k - 1 \in Bad
    BY <2>5, <2>6, <2>9, <1>1
  <2> QED
    BY <2>2, <2>4, <2>10
<1>10. Good(1..n)
  <2>1. n \notin Bad
    BY <1>9
  <2> QED
    BY <2>1, <1>1
<1> QED
  BY <1>1, <1>2, <1>10 DEF Good, ToSet
-----------------------------------------------------------------------------
(* The counters of the planner.                                              *)

Agree(m, S) == \A k \in DOMAIN m : m[k] = Cardinality(S \cap Satisfying(k))
IsPlanner(p) == p = [totals |-> p.totals, matched |-> p.matched, candidates |-> p.candidates]

\* Nothing infinite is counted.
LEMMA SatisfyingFinite ==
    ASSUME NEW k, NEW S
    PROVE  IsFiniteSet(S \cap Satisfying(k))
<1>1. IsFiniteSet(Hotels) /\ S \cap Satisfying(k) \subseteq Hotels
  BY NightBounds DEF Satisfying, Hotels
<1> QED
  BY <1>1, FS_Subset

\* A counter begun now counts the cards of before.
LEMMA TrackAgrees ==
    ASSUME NEW p, NEW filters, NEW S, Agree(p.matched, S)
    PROVE  Agree(Track(p, filters, S), S)
<1> DEFINE g == [k \in {KnownPart(x) : x \in filters} |-> Cardinality(S \cap Satisfying(k))]
           t == With(p.matched, g)
<1>1. Track(p, filters, S) = t
  BY DEF Track
<1>2. \A k \in DOMAIN g : g[k] = Cardinality(S \cap Satisfying(k))
  OBVIOUS
<1> HIDE DEF g
<1>3. /\ DOMAIN t = DOMAIN p.matched \cup DOMAIN g
      /\ \A k \in DOMAIN t : t[k] = IF k \in DOMAIN p.matched THEN p.matched[k] ELSE g[k]
  BY DEF With
<1> HIDE DEF t
<1> QED
  BY <1>1, <1>2, <1>3 DEF Agree

\* What a page tells leaves the counters right, and makes no slice a candidate
\* that was read.
LEMMA KnowLemma ==
    ASSUME NEW p, NEW told, NEW S, NEW done
    PROVE  /\ IsPlanner(Know(p, told, S, done))
           /\ Agree(p.matched, S) => Agree(Know(p, told, S, done).matched, S)
           /\ p.candidates \cap done = {} => Know(p, told, S, done).candidates \cap done = {}
<1> DEFINE new == DOMAIN told \ DOMAIN p.totals
           q == [totals |-> With(p.totals, told), matched |-> Track(p, new, S),
                 candidates |-> p.candidates \cup FreshSlices(new, done)]
<1>1. Know(p, told, S, done) = q
  BY DEF Know
<1>2. FreshSlices(new, done) \cap done = {}
  BY DEF FreshSlices
<1> HIDE DEF new
<1>3. IsPlanner(q)
  BY DEF IsPlanner
<1>4. q.matched = Track(p, new, S) /\ q.candidates = p.candidates \cup FreshSlices(new, done)
  OBVIOUS
<1> HIDE DEF q
<1> QED
  BY <1>1, <1>2, <1>3, <1>4, TrackAgrees

\* A card is counted when it is seen first.
LEMMA AddCardsLemma ==
    ASSUME NEW p, IsPlanner(p), NEW shown, NEW S, Agree(p.matched, S)
    PROVE  /\ IsPlanner(AddCards(p, shown, S))
           /\ Agree(AddCards(p, shown, S).matched, S \cup shown)
           /\ AddCards(p, shown, S).candidates = p.candidates
<1> DEFINE m == [k \in DOMAIN p.matched |-> p.matched[k] + Cardinality((shown \ S) \cap Satisfying(k))]
           q == [totals |-> p.totals, matched |-> m, candidates |-> p.candidates]
<1>1. AddCards(p, shown, S) = q
  <2>1. PICK t, mm, c : p = [totals |-> t, matched |-> mm, candidates |-> c]
    BY DEF IsPlanner
  <2>2. p.totals = t /\ p.matched = mm /\ p.candidates = c
    BY <2>1
  <2>3. [p EXCEPT !.matched = m] = [totals |-> t, matched |-> m, candidates |-> c]
    <3> HIDE DEF m
    <3> QED
      BY <2>1
  <2>4. AddCards(p, shown, S) = [p EXCEPT !.matched = m]
    BY Zenon DEF AddCards
  <2> QED
    BY <2>2, <2>3, <2>4
<1>2. IsPlanner(q) /\ q.matched = m /\ q.candidates = p.candidates
  BY DEF IsPlanner
<1>3. ASSUME NEW k \in DOMAIN m PROVE m[k] = Cardinality((S \cup shown) \cap Satisfying(k))
  <2> DEFINE A == S \cap Satisfying(k)
             B == (shown \ S) \cap Satisfying(k)
  <2>1. IsFiniteSet(A) /\ IsFiniteSet(B)
    BY SatisfyingFinite
  <2>2. A \cap B = {} /\ (S \cup shown) \cap Satisfying(k) = A \cup B
    OBVIOUS
  <2>3. m[k] = Cardinality(A) + Cardinality(B)
    BY <1>3 DEF Agree
  <2>4. Cardinality(A) \in Nat /\ Cardinality(B) \in Nat
    BY <2>1, FS_CardinalityType
  <2>5. Cardinality(A \cup B) = Cardinality(A) + Cardinality(B) - Cardinality(A \cap B)
    BY <2>1, FS_Union
  <2>6. Cardinality(A \cap B) = 0
    BY <2>2, FS_EmptySet
  <2> HIDE DEF A, B, m
  <2>7. Cardinality(A \cup B) = Cardinality(A) + Cardinality(B)
    BY <2>4, <2>5, <2>6
  <2> QED
    BY <2>2, <2>3, <2>7
<1> HIDE DEF m, q
<1>4. Agree(m, S \cup shown)
  BY <1>3 DEF Agree
<1> QED
  BY <1>1, <1>2, <1>4

\* A page observed: the counters stay right, and no slice read is a candidate.
LEMMA ObserveLemma ==
    ASSUME NEW p, IsPlanner(p), NEW s, NEW page, NEW S, Agree(p.matched, S), p.candidates \cap fetched = {}
    PROVE  /\ IsPlanner(Observe(p, s, page, S))
           /\ Agree(Observe(p, s, page, S).matched, S)
           /\ Observe(p, s, page, S).candidates \cap (fetched \cup {s}) = {}
<1> DEFINE done == fetched \cup {s}
           q == [p EXCEPT !.candidates = @ \ {s}]
           q2 == [q EXCEPT !.totals = Without(@, s.filters)]
           r == IF page.total = Unknown THEN q
                ELSE Know(q2, [x \in {s.filters} |-> page.total], S, done)
           total == IF s.filters \in DOMAIN r.totals THEN r.totals[s.filters] ELSE Unknown
           split == {f \in DOMAIN page.facets : /\ SplitBy[f] \notin FieldsOf(s.filters)
                                                /\ page.facets[f] \in 1..(total - 1)}
           told == [x \in {s.filters \cup {f} : f \in split} |-> page.facets[CHOOSE f \in x : f \notin s.filters]]
           o1 == [r EXCEPT !.candidates = {c \in @ : c.filters # s.filters}]
           o2 == Know(r, told, S, done)
           Fine(x) == IsPlanner(x) /\ Agree(x.matched, S) /\ x.candidates \cap done = {}
<1>1. Fine(q)
  <2>1. q = [totals |-> p.totals, matched |-> p.matched, candidates |-> p.candidates \ {s}]
    BY DEF IsPlanner
  <2>2. IsPlanner(q) /\ q.matched = p.matched /\ q.candidates = p.candidates \ {s}
    BY <2>1 DEF IsPlanner
  <2> HIDE DEF q
  <2> QED
    BY <2>2
<1>2. q2.matched = q.matched /\ q2.candidates = q.candidates
  <2>1. q = [totals |-> q.totals, matched |-> q.matched, candidates |-> q.candidates]
    BY <1>1 DEF IsPlanner
  <2> HIDE DEF q
  <2>2. q2 = [totals |-> Without(q.totals, s.filters), matched |-> q.matched, candidates |-> q.candidates]
    BY <2>1
  <2> QED
    BY <2>2
<1> HIDE DEF q, q2
<1>3. Fine(r)
  <2> HIDE DEF done
  <2>1. Agree(q2.matched, S) /\ q2.candidates \cap done = {}
    BY <1>1, <1>2
  <2>2. Fine(Know(q2, [x \in {s.filters} |-> page.total], S, done))
    BY <2>1, KnowLemma
  <2> HIDE DEF Fine
  <2> QED
    BY <1>1, <2>2
<1> HIDE DEF r
<1>4. Fine(o1)
  <2>1. o1 = [totals |-> r.totals, matched |-> r.matched,
              candidates |-> {c \in r.candidates : c.filters # s.filters}]
    BY <1>3 DEF IsPlanner
  <2>2. IsPlanner(o1) /\ o1.matched = r.matched /\ o1.candidates \subseteq r.candidates
    BY <2>1 DEF IsPlanner
  <2> HIDE DEF o1
  <2> QED
    BY <1>3, <2>2
<1>5. Fine(o2)
  <2> HIDE DEF done, told
  <2> QED
    BY <1>3, KnowLemma
<1>6. \/ Observe(p, s, page, S) = o1
      \/ Observe(p, s, page, S) = r
      \/ Observe(p, s, page, S) = o2
  <2>1. Observe(p, s, page, S) =
          IF total = Unknown \/ total <= Len(page.cards) THEN o1
          ELSE IF Cardinality(s.filters) >= MaxDepth THEN r
          ELSE o2
    BY Zenon DEF Observe, r, q, q2
  <2> HIDE DEF o1, o2, total
  <2> QED
    BY <2>1
<1> HIDE DEF o1, o2
<1> QED
  BY <1>3, <1>4, <1>5, <1>6
-----------------------------------------------------------------------------
(* The night.  The invariant adds to the two properties what they rest on:   *)
(* a night that goes on has pages left to read and has sent at most two      *)
(* requests for each page read and one for the page it asks for again, and   *)
(* before the first page nothing is seen or read, so that the first page may *)
(* count from nothing.                                                       *)

NightInv ==
    /\ seen \in Seq(Hotels)
    /\ asking = [slice |-> asking.slice, again |-> asking.again, on |-> asking.on]
    /\ pages \in 0..MaxRequests /\ IsFiniteSet(fetched)
    /\ pages = 0 => seen = << >> /\ fetched = {}
    /\ asking.on => pages < MaxRequests
    /\ asking.on => requests <= 2 * pages + (IF asking.again THEN 1 ELSE 0)
    /\ CountsAgree
    /\ NoPageTwice

\* A page shows hotels of the area.
LEMMA CardsOfPages ==
    ASSUME NEW s, NEW page \in PagesOf(s)
    PROVE  page.cards \in Seq(Hotels)
<1> DEFINE all == Satisfying(s.filters)
           n == Min({PerPage, Cardinality(all)})
<1>1. PICK x \in SUBSET all : page.cards = SetToSeq(x)
  BY Zenon DEF PagesOf
<1>2. IsFiniteSet(x) /\ x \subseteq Hotels
  <2>1. IsFiniteSet(Hotels) /\ x \subseteq Hotels
    BY NightBounds DEF Satisfying, Hotels
  <2> QED
    BY <2>1, FS_Subset
<1> HIDE DEF all
<1>3. Cardinality(x) \in Nat /\ \E f \in [1..Cardinality(x) -> x] : IsInjective(f)
  <2>1. PICK c \in Nat : c = Cardinality(x) /\ ExistsBijection(1..c, x)
    BY <1>2, FS_CardinalityType, Zenon
  <2>2. PICK f : f \in Bijection(1..c, x)
    BY <2>1 DEF ExistsBijection
  <2>3. f \in [1..c -> x] /\ IsInjective(f)
    BY <2>2 DEF Bijection, Injection, IsInjective
  <2> QED
    BY <2>1, <2>3
<1>4. SetToSeq(x) \in [1..Cardinality(x) -> x]
  BY <1>3 DEF SetToSeq
<1> QED
  BY <1>1, <1>2, <1>3, <1>4

\* Recording a page, from one state to the next.
LEMMA RecordLemma ==
    ASSUME seen \in Seq(Hotels), IsInjective(seen), NEW page, page.cards \in Seq(Hotels), Record(page)
    PROVE  seen' \in Seq(Hotels) /\ IsInjective(seen') /\ SeenSet' = SeenSet \cup ToSet(page.cards)
<1>1. seen' = FoldLeft(See, seen, page.cards)
  BY DEF Record
<1>2. \A H : \A s0, cards \in Seq(H) :
        /\ FoldLeft(See, s0, cards) \in Seq(H)
        /\ ToSet(FoldLeft(See, s0, cards)) = ToSet(s0) \cup ToSet(cards)
        /\ IsInjective(s0) => IsInjective(FoldLeft(See, s0, cards))
  BY ReadCards
<1> QED
  BY <1>1, <1>2 DEF SeenSet

\* The slice asked for next is one of the candidates, and then none any more.
LEMMA GoOnLemma ==
    ASSUME NEW p, IsPlanner(p), Agree(p.matched, SeenSet'), p.candidates \cap fetched' = {},
           pages' \in 0..MaxRequests, GoOn(p)
    PROVE  /\ Agree(matched', SeenSet') /\ candidates' \cap fetched' = {}
           /\ asking' = [slice |-> asking'.slice, again |-> asking'.again, on |-> asking'.on]
           /\ asking'.on => pages' < MaxRequests /\ asking'.slice \notin fetched' /\ ~ asking'.again
<1> DEFINE done == found' > 0 /\ 100 * Len(seen') >= 98 * found'
           best == BestSlices(p, found')
<1>1. MaxRequests \in Nat
  BY NightBounds
<1>2. \/ /\ asking' = Nothing /\ SetPlanner(p)
      \/ /\ ~ (pages' >= MaxRequests)
         /\ \E s \in best : /\ asking' = [slice |-> s, again |-> FALSE, on |-> TRUE]
                            /\ SetPlanner([p EXCEPT !.candidates = @ \ {s}])
  BY Zenon DEF GoOn
<1>3. CASE asking' = Nothing /\ SetPlanner(p)
  <2>1. asking' = [slice |-> Root, again |-> FALSE, on |-> FALSE]
    BY <1>3 DEF Nothing
  <2> QED
    BY <1>3, <2>1 DEF SetPlanner
<1>4. ASSUME ~ (pages' >= MaxRequests), NEW s \in best,
             asking' = [slice |-> s, again |-> FALSE, on |-> TRUE],
             SetPlanner([p EXCEPT !.candidates = @ \ {s}])
      PROVE  /\ Agree(matched', SeenSet') /\ candidates' \cap fetched' = {}
             /\ asking' = [slice |-> asking'.slice, again |-> asking'.again, on |-> asking'.on]
             /\ asking'.on => pages' < MaxRequests /\ asking'.slice \notin fetched' /\ ~ asking'.again
  <2>1. s \in p.candidates
    BY <1>4 DEF BestSlices
  <2> HIDE DEF best
  <2>2. [p EXCEPT !.candidates = @ \ {s}]
          = [totals |-> p.totals, matched |-> p.matched, candidates |-> p.candidates \ {s}]
    <3>1. PICK t, mm, c : p = [totals |-> t, matched |-> mm, candidates |-> c]
      BY DEF IsPlanner
    <3> QED
      BY <3>1
  <2>3. matched' = p.matched /\ candidates' = p.candidates \ {s}
    BY <1>4, <2>2 DEF SetPlanner
  <2>4. pages' < MaxRequests
    BY <1>1, <1>4
  <2> QED
    BY <1>4, <2>1, <2>3, <2>4
<1> QED
  BY <1>2, <1>3, <1>4

LEMMA NightInitHolds == NightInit => NightInv
<1> SUFFICES ASSUME NightInit PROVE NightInv
  OBVIOUS
<1>1. /\ seen = << >> /\ matched = << >> /\ candidates = {} /\ fetched = {} /\ pages = 0 /\ requests = 0
      /\ asking = [slice |-> Root, again |-> FALSE, on |-> TRUE]
  BY DEF NightInit, Nothing
<1>2. MaxRequests \in Nat /\ 0 < MaxRequests
  BY NightBounds
<1>3. seen \in Seq(Hotels) /\ DOMAIN seen = {} /\ DOMAIN matched = {}
  BY <1>1
<1>4. CountsAgree
  BY <1>3 DEF CountsAgree, IsInjective
<1>5. IsFiniteSet(fetched) /\ Cardinality(fetched) = 0
  BY <1>1, FS_EmptySet
<1>6. NoPageTwice
  BY <1>1, <1>2, <1>5 DEF NoPageTwice
<1> QED
  BY <1>1, <1>2, <1>3, <1>4, <1>5, <1>6 DEF NightInv

\* What both kinds of page leave behind.
LEMMA PageRead ==
    ASSUME NightInv, asking.on, NEW page, page.cards \in Seq(Hotels), Record(page),
           NEW read, fetched' = fetched \cup read, read = {} \/ \E s : read = {s},
           pages' = pages + 1, requests' = requests + 1, NEW p, IsPlanner(p), Agree(p.matched, SeenSet \cup ToSet(page.cards)),
           p.candidates \cap fetched' = {}, GoOn(p)
    PROVE  NightInv'
<1>1. seen' \in Seq(Hotels) /\ IsInjective(seen') /\ SeenSet' = SeenSet \cup ToSet(page.cards)
  BY RecordLemma DEF NightInv, CountsAgree
<1>2. /\ MaxRequests \in Nat /\ pages \in Nat /\ pages < MaxRequests
      /\ IsFiniteSet(fetched) /\ Cardinality(fetched) <= pages
      /\ requests \in Nat /\ pages <= requests /\ requests <= 2 * pages + 1
  BY NightBounds DEF NightInv, NoPageTwice
<1>3. /\ pages' \in 0..MaxRequests /\ pages' # 0
      /\ requests' \in pages'..(2 * MaxRequests) /\ requests' <= 2 * pages'
  BY <1>2
<1>4. /\ Agree(matched', SeenSet') /\ candidates' \cap fetched' = {}
      /\ asking' = [slice |-> asking'.slice, again |-> asking'.again, on |-> asking'.on]
      /\ asking'.on => pages' < MaxRequests /\ asking'.slice \notin fetched' /\ ~ asking'.again
  BY <1>1, <1>3, GoOnLemma
<1>5. IsFiniteSet(fetched') /\ Cardinality(fetched') <= pages'
  <2>1. PICK F : F = fetched'
    OBVIOUS
  <2>2. PICK c \in Nat : c = Cardinality(fetched)
    BY <1>2, FS_CardinalityType
  <2>3. F = fetched \/ \E s : F = fetched \cup {s}
    BY <2>1
  <2>4. ASSUME NEW s, F = fetched \cup {s} PROVE IsFiniteSet(F) /\ Cardinality(F) \in {c, c + 1}
    BY <1>2, <2>2, <2>4, FS_AddElement
  <2>5. IsFiniteSet(F) /\ Cardinality(F) \in {c, c + 1}
    BY <1>2, <2>2, <2>3, <2>4
  <2>6. c <= pages /\ pages' = pages + 1
    BY <1>2, <2>2
  <2>7. Cardinality(F) <= pages'
    BY <1>2, <2>5, <2>6
  <2> QED
    BY <2>1, <2>5, <2>7
<1>6. CountsAgree'
  BY <1>1, <1>4 DEF CountsAgree, Agree, Satisfying, SeenSet
<1>7. NoPageTwice'
  BY <1>3, <1>4, <1>5 DEF NoPageTwice
<1> QED
  BY <1>1, <1>3, <1>4, <1>5, <1>6, <1>7 DEF NightInv

LEMMA NightStep == NightInv /\ [NightNext]_nightVars => NightInv'
<1> SUFFICES ASSUME NightInv, [NightNext]_nightVars PROVE NightInv'
  OBVIOUS
<1>1. ASSUME NEW page \in PagesOf(asking.slice), FirstPage(page) PROVE NightInv'
  <2> DEFINE empty == [totals |-> << >>, matched |-> << >>, candidates |-> {}]
             start == IF page.total = Unknown THEN empty ELSE Know(empty, [x \in {{}} |-> page.total], {}, {})
             p == AddCards(start, ToSet(page.cards), {})
             q == Observe(p, Root, page, SeenSet \cup ToSet(page.cards))
             read == IF Discover THEN {Root} ELSE {}
  <2>1. /\ asking.on /\ pages = 0 /\ pages' = 1 /\ requests' = requests + 1 /\ Record(page) /\ fetched' = read
        /\ GoOn(IF Discover THEN q ELSE p)
    BY <1>1, Zenon DEF FirstPage
  <2>2. seen = << >> /\ fetched = {} /\ SeenSet = {}
    BY <2>1 DEF NightInv, SeenSet, ToSet
  <2>3. page.cards \in Seq(Hotels)
    BY CardsOfPages
  <2>4. IsPlanner(empty) /\ Agree(empty.matched, {})
    BY DEF IsPlanner, Agree
  <2>5. IsPlanner(start) /\ Agree(start.matched, {})
    <3> HIDE DEF empty
    <3> QED
      BY <2>4, KnowLemma
  <2> HIDE DEF start
  <2>6. IsPlanner(p) /\ Agree(p.matched, ToSet(page.cards))
    <3>1. IsPlanner(p) /\ Agree(p.matched, {} \cup ToSet(page.cards))
      BY <2>5, AddCardsLemma
    <3>2. {} \cup ToSet(page.cards) = ToSet(page.cards)
      OBVIOUS
    <3> HIDE DEF p
    <3> QED
      BY <3>1, <3>2
  <2> HIDE DEF p
  <2>7. p.candidates \cap fetched = {} /\ SeenSet \cup ToSet(page.cards) = ToSet(page.cards)
    BY <2>2
  <2>8. IsPlanner(q) /\ Agree(q.matched, ToSet(page.cards)) /\ q.candidates \cap (fetched \cup {Root}) = {}
    BY <2>6, <2>7, ObserveLemma
  <2> HIDE DEF q
  <2>9. PICK r : r = IF Discover THEN q ELSE p
    OBVIOUS
  <2>10. /\ IsPlanner(r) /\ Agree(r.matched, SeenSet \cup ToSet(page.cards)) /\ r.candidates \cap fetched' = {}
         /\ fetched' = fetched \cup read /\ (read = {} \/ \E s : read = {s}) /\ pages' = pages + 1
         /\ requests' = requests + 1 /\ GoOn(r)
    BY <2>1, <2>2, <2>6, <2>7, <2>8, <2>9
  <2> HIDE DEF read
  <2> QED
    BY <2>1, <2>3, <2>10, PageRead
<1>2. ASSUME NEW page \in PagesOf(asking.slice), NextPage(page) PROVE NightInv'
  <2> DEFINE s == asking.slice
             o == Observe(Planner, s, page, SeenSet)
             p == AddCards(o, ToSet(page.cards), SeenSet)
  <2>1. /\ asking.on /\ pages' = pages + 1 /\ requests' = requests + 1 /\ Record(page) /\ fetched' = fetched \cup {s} /\ GoOn(p)
    BY <1>2, Zenon DEF NextPage
  <2>2. page.cards \in Seq(Hotels)
    BY CardsOfPages
  <2>3. IsPlanner(Planner) /\ Planner.matched = matched /\ Planner.candidates = candidates
    BY DEF IsPlanner, Planner
  <2>4. Agree(Planner.matched, SeenSet) /\ Planner.candidates \cap fetched = {}
    BY <2>3 DEF NightInv, CountsAgree, NoPageTwice, Agree
  <2>5. IsPlanner(o) /\ Agree(o.matched, SeenSet) /\ o.candidates \cap (fetched \cup {s}) = {}
    BY <2>3, <2>4, ObserveLemma
  <2> HIDE DEF o
  <2>6. IsPlanner(p) /\ Agree(p.matched, SeenSet \cup ToSet(page.cards)) /\ p.candidates = o.candidates
    BY <2>5, AddCardsLemma
  <2> HIDE DEF p, s
  <2>7. PICK r : r = {s}
    OBVIOUS
  <2> QED
    BY <2>1, <2>2, <2>5, <2>6, <2>7, PageRead
<1>3. /\ MaxRequests \in Nat /\ pages \in Nat /\ requests \in Nat /\ pages <= requests
      /\ asking.on => pages < MaxRequests /\ requests <= 2 * pages + (IF asking.again THEN 1 ELSE 0)
  BY NightBounds DEF NightInv, NoPageTwice
<1>4. CASE RepeatPage
  <2>1. /\ asking.on /\ ~ asking.again /\ requests' = requests + 1
        /\ asking' = [slice |-> asking.slice, again |-> TRUE, on |-> asking.on]
        /\ UNCHANGED <<seen, found, totals, matched, candidates, fetched, pages, nstatus>>
    <3>1. PICK a, b, c : asking = [slice |-> a, again |-> b, on |-> c]
      BY DEF NightInv
    <3> QED
      BY <1>4, <3>1 DEF RepeatPage
  <2>2. asking'.slice = asking.slice /\ asking'.again /\ asking'.on
    BY <2>1
  <2>3. requests' \in pages..(2 * MaxRequests) /\ requests' <= 2 * pages + 1
    BY <1>3, <2>1
  <2> QED
    BY <2>1, <2>2, <2>3 DEF NightInv, CountsAgree, NoPageTwice, SeenSet, Satisfying
<1>5. ASSUME NEW why, NightFails(why) PROVE NightInv'
  <2>1. /\ asking.on /\ requests' = requests + 1
        /\ asking' = [slice |-> Root, again |-> FALSE, on |-> FALSE]
        /\ UNCHANGED <<seen, found, totals, matched, candidates, fetched, pages>>
    BY <1>5 DEF NightFails, Nothing
  <2>2. requests' \in pages..(2 * MaxRequests)
    BY <1>3, <2>1
  <2> QED
    BY <2>1, <2>2 DEF NightInv, CountsAgree, NoPageTwice, SeenSet, Satisfying
<1>6. CASE NoResults
  <2>1. /\ asking.on /\ pages = 0 /\ pages' = 1 /\ requests' = requests + 1
        /\ asking' = [slice |-> Root, again |-> FALSE, on |-> FALSE]
        /\ UNCHANGED <<seen, found, totals, matched, candidates, fetched>>
    BY <1>6 DEF NoResults, Nothing
  <2>2. requests' \in pages'..(2 * MaxRequests) /\ pages' \in 0..MaxRequests /\ pages' <= MaxRequests
    BY <1>3, <2>1
  <2>3. Cardinality(fetched) <= pages'
    BY <2>1, FS_EmptySet DEF NightInv
  <2> QED
    BY <2>1, <2>2, <2>3 DEF NightInv, CountsAgree, NoPageTwice, SeenSet, Satisfying
<1>7. CASE UNCHANGED nightVars
  BY <1>7 DEF nightVars, NightInv, CountsAgree, NoPageTwice, SeenSet, Satisfying
<1> QED
  BY <1>1, <1>2, <1>4, <1>5, <1>6, <1>7 DEF NightNext

LEMMA NightInductive == NightSpec => []NightInv
<1> QED
  BY NightInitHolds, NightStep, PTL DEF NightSpec

\* Whatever the pages of overlapping slices show, in any order and with totals
\* missing: no hotel is recorded twice, and every counter the planner's estimates
\* rest on is what a count over the hotels seen would give
\* (marketscan/slices.py add_cards, _track; marketscan/service.py _record).
THEOREM NightCountsAgree == NightSpec => []CountsAgree
<1>1. NightInv => CountsAgree
  BY DEF NightInv
<1> QED
  BY <1>1, NightInductive, PTL

\* No slice is asked for again once it was read, however often its total is told
\* again, and no read slice is a candidate; a night reads no more pages than its
\* budget, and, as each is asked for twice at most, sends no more than twice as
\* many requests (marketscan/slices.py _know, observe; marketscan/service.py
\* _page, _scan).
THEOREM NightAsksOnce == NightSpec => []NoPageTwice
<1>1. NightInv => NoPageTwice
  BY DEF NightInv
<1> QED
  BY <1>1, NightInductive, PTL

\* So a night counts nothing twice and asks for no slice it has read.
THEOREM NightStaysWhole == NightSpec => []NightIsWhole
<1>1. CountsAgree /\ NoPageTwice => NightIsWhole
  BY DEF NightIsWhole
<1> QED
  BY <1>1, NightCountsAgree, NightAsksOnce, PTL

===========================================================================

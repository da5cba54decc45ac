----------------------------- MODULE MCServices -----------------------------
(* The services beside the scan runs, one at a time, for TLC: whatever one  *)
(* is asked for is answered in the end.  A behaviour is one of the part     *)
(* chosen at first, and the others rest.                                    *)
EXTENDS Analytics, DailyInsight, Listings, TLC

CONSTANTS
    s1, s2, c1, m1, m2, v1, x1, w1, p1, p2,
    RoundNights, ListWorkers, MaxRounds, MaxDays, RoundFaults, Stale, Grace, JobTimeout, KeepResult,
    Processes, Scanning, Templates, Working, FailThreshold, SessionRequests, PerMinute, HttpRetries, TransientRetries,
    Horizon, FreshNights, Attempts, Checks, PageJobs, ProbeFaults

VARIABLES
    part,
    area, scanned, seenAt, open, job, proc, actor, paused, faults, day, claims, \* of MarketRounds
    provider, session, attempt, task, probes, health, count, granted, streak, pageJobs, pfaults \* of ProbeAttempts

listVars == <<area, scanned, seenAt, open, job, proc, actor, paused, faults, day, claims>>
probeVars == <<provider, session, attempt, task, probes, health, count, granted, streak, pageJobs, pfaults>>

R == INSTANCE MarketRounds
P == INSTANCE ProbeAttempts

Room(n) == [left |-> n, conf |-> "exact", min |-> 100, refundable |-> None, prices |-> <<>>,
            breakfast |-> None, roomOnly |-> None, promos |-> <<>>]
Look(status, rooms) == [status |-> status, minStay |-> 1, rooms |-> rooms]
FirstLook == Look("available", [t \in {1} |-> Room(4)])
SomeLooks == {FirstLook, Look("available", [t \in {1} |-> Room(2)]), Look("sold_out", <<>>)}

\* Two URLs of two hotels, on a page in either order; one card has a badge.
SomeIdentity == [k \in Keys |-> k]
SomePages == {<<"k1", "k2">>, <<"k2", "k1">>}

----------------------------------------------------------------------------
\* Run 1 was closed and analysed before.
FirstAnalysed ==
    /\ look = [r \in ScanRuns |-> IF r = 1 THEN FirstLook ELSE NoLook]
    /\ analysed = {1} /\ events = [r \in ScanRuns |-> {}]
    /\ metric = [of |-> 1, figures |-> ComputeMetrics(Observation(1), {}, LastRun), soldOutAt |-> SoldOutAt(events)]
    /\ ajob = [r \in ScanRuns |-> NoTask] /\ slot = [s \in Slots |-> FreeSlot]
    /\ estimate = [r \in ScanRuns |-> "none"] /\ batch = {} /\ together = FALSE /\ afaults = 0

Init ==
    /\ part \in {"analytics", "insight", "listings", "rounds", "attempts"}
    /\ IF part = "analytics" THEN FirstAnalysed ELSE AnalyticsInit
    /\ InsightInit /\ (part # "insight" => today = LastDay)
    /\ ListingsInit /\ (part # "listings" => watch = {})
    /\ R!RoundsInit /\ P!ProbeInit

\* Bound: pages and calls that make hotels, and scans, take turns.
InTurn == (\E x \in Scanners : scanner'[x].id # 0) => \A m \in Makers : maker'[m].pc = "rest"

Next ==
    /\ UNCHANGED part
    /\ \/ part = "analytics" /\ AnalyticsNext /\ UNCHANGED <<insightVars, listingVars, listVars, probeVars>>
       \/ part = "insight" /\ InsightNext /\ UNCHANGED <<analyticsVars, listingVars, listVars, probeVars>>
       \/ part = "listings" /\ ListingsNext /\ InTurn /\ UNCHANGED <<analyticsVars, insightVars, listVars, probeVars>>
       \/ part = "rounds" /\ R!RoundsNext /\ UNCHANGED <<analyticsVars, insightVars, listingVars, probeVars>>
       \/ part = "attempts" /\ P!ProbeNext /\ UNCHANGED <<analyticsVars, insightVars, listingVars, listVars>>

vars == <<part, analyticsVars, insightVars, listingVars, listVars, probeVars>>

\* The fairness of each part, while it is the one that runs.
Fairness ==
    /\ WF_analyticsVars(part = "analytics" /\ \E r \in ScanRuns : AnalyticsCatchUp(r) \/ ForgetResult(r))
    /\ \A s \in Slots : WF_analyticsVars(part = "analytics" /\ SlotStep(s))
    /\ WF_analyticsVars(part = "analytics" /\ Estimates)
    /\ WF_insightVars(part = "insight" /\ DispatchDaily) /\ WF_insightVars(part = "insight" /\ Polls)
    /\ \A s \in InsightSlots : WF_insightVars(part = "insight" /\ InsightSlotStep(s))
    /\ WF_insightVars(part = "insight" /\ \E j \in InsightJobs : ForgetInsightJob(j))
    /\ WF_listingVars(part = "listings" /\ \E m \in Makers : MakerStep(m))
    /\ WF_listingVars(part = "listings" /\ \E v \in Verifiers : VerifierStep(v))
    /\ SF_listVars(part = "rounds" /\ R!Tick) /\ SF_listVars(part = "rounds" /\ R!TimePasses)
    /\ WF_listVars(part = "rounds" /\ R!PauseEnds) /\ WF_listVars(part = "rounds" /\ R!FailStuck)
    /\ WF_listVars(part = "rounds" /\ R!Route) /\ \A w \in ListWorkers : WF_listVars(part = "rounds" /\ R!Worker(w))
    /\ \A p \in Processes : WF_probeVars(part = "attempts" /\ P!ProcessStep(p))
    /\ WF_probeVars(part = "attempts" /\ P!NewMinute)

Spec == Init /\ [][Next]_vars /\ Fairness

\* The analytics alone.
AnalyticsPart == Init /\ part = "analytics" /\ [][Next]_vars

----------------------------------------------------------------------------
(* Asked: a closed run waits for its analytics, a day for its insight, a   *)
(* listing for its verification, a round of the market list for its        *)
(* nights, an attempt for its pages.                                       *)
Asked ==
    \/ part = "analytics" /\ Closed # {}
    \/ part = "insight" /\ due
    \/ part = "listings" /\ (\E i \in Ids : Waiting(i)) /\ efaults = 0
    \/ part = "rounds" /\ area.round = claims /\ claims > 0
    \/ part = "attempts" /\ \E p \in Processes : ~P!At(p, "idle")

Answered ==
    CASE part = "analytics" -> \A r \in Closed : estimate[r] # "none"
      [] part = "insight" -> ~due \/ DayServed \/ GivenUpToday
      [] part = "listings" -> (\A i \in Ids : ~Waiting(i)) \/ efaults > 0
      [] part = "rounds" -> R!Unscanned(claims) = {} \/ R!GivenUp \/ area.round # claims
      [] part = "attempts" -> \A p \in Processes : P!At(p, "idle")

(* What is asked of a service is answered: every closed run gets its       *)
(* estimates though a poisoned one fails for ever; a day gets its insight  *)
(* or is given up; no listing waits for a verification for ever unless its *)
(* push was lost; the nights of a round are scanned unless it is           *)
(* superseded, blocked or switched off; and every attempt of the collector *)
(* ends, however its requests are answered.                                *)
AllAnswered == Asked ~> Answered

=============================================================================

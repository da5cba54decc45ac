------------------------------ MODULE Operations -----------------------------
(***************************************************************************)
(* What the operators of the system are told and what is kept: health of    *)
(* the data, throttled alerts, parser canary, proxies, backups, partitions *)
(* (app/ops, app/db/partitions.py, and the hourly check of                 *)
(* app/scheduler/service.py).  The state is that of the hourly check; the  *)
(* rest are functions.  Time is in hours, rates in percent.                *)
(***************************************************************************)
EXTENDS Figures

CONSTANTS
    OpsChannels,  \* channels with an active listing
    OpsRates,     \* the success rates of 24 hours that are told apart
    OpsAges,      \* how old, in hours, the last usable data of a channel may be; None: there is none
    OpsHours,     \* bound on the hours
    OpsGap        \* min_gap of the hourly alerts (6)

ASSUME OpsBounds == OpsGap \in Nat \ {0}

VARIABLES
    opsNow,      \* hours since the start
    opsHealth,   \* channel -> [rate, age]: what the database would say now
    checkedAt,   \* _ops_checked_at
    lastSent,    \* AlertThrottle._last: key -> hour
    told         \* the alerts handed to the alerter: [channel, about, figure, at]

opsVars == <<opsNow, opsHealth, checkedAt, lastSent, told>>

----------------------------------------------------------------------------
(* channel_probe_stats: nights skipped for the calendar are data but no    *)
(* request.  A probe is [channel, status].                                 *)
FailedStatuses == {"blocked", "error"}
DataStatuses == {"ok", "sold_out", "skipped_calendar"}
ChannelStats(probes, channel) ==
    LET P == {p \in probes : p.channel = channel}
        requests == {p \in P : p.status # "skipped_calendar"}
    IN  [total |-> Cardinality(requests), failed |-> Cardinality({p \in requests : p.status \in FailedStatuses}),
         withData |-> Cardinality({p \in P : p.status \in DataStatuses})]
SuccessRate(st) == IF st.total = 0 THEN None ELSE ((st.total - st.failed) * 100) \div st.total

SuccessRateMin == 80
MinProbes == 30
StaleHours == 10
LowRate(rate, total) == rate # None /\ total >= MinProbes /\ rate < SuccessRateMin
ChannelStale(age) == age = None \/ age > StaleHours

(* stale_after_hours: the longest gap between two scan times of the day,   *)
(* in whole hours, and two hours more.  Times are minutes of the day.      *)
LongestGap(times) ==
    LET next(t) == IF \E u \in times : u > t THEN Min({u \in times : u > t}) ELSE Min(times) + 1440 IN
    Max({next(t) - t : t \in times})
StaleAfterHours(times) == IF times = {} THEN 26 ELSE LongestGap(times) \div 60 + 2

(* block_rate_alert, run_summary_alert.                                    *)
BlockRateHigh(total, blocked) == total >= 20 /\ blocked * 100 > 20 * total
RunToldOf(run) == run.total = 0 \/ (run.ok + run.soldOut) * 100 < 90 * run.total

(* compare_coverage: a field that was there and is there no more.          *)
Dropped(cur, base) ==
    IF cur.probes < 20 \/ base.probes < 20 THEN {}
    ELSE {f \in DOMAIN base.shares : base.shares[f] >= 20 /\ cur.shares[f] * 10 < base.shares[f] * 7}
CoverageSince(probes, rooms, from, until) ==
    LET ok == {p \in probes : p.at \in from..(until - 1) /\ p.status = "ok"}
        seen == {r \in rooms : r.at \in from..(until - 1)}
        share(S, of) == IF of = {} THEN 0 ELSE (Cardinality(S) * 100) \div Cardinality(of)
    IN  [probes |-> Cardinality(ok),
         shares |-> [rooms |-> share({r.probe : r \in seen}, ok), price |-> share({r \in seen : r.price # None}, seen),
                     stock |-> share({r \in seen : r.stock \in {"exact", "capped"}}, seen)]]
Canary(probes, rooms, now) ==
    Dropped(CoverageSince(probes, rooms, now - 24, now), CoverageSince(probes, rooms, now - 192, now - 24))

(* check_proxies, proxy_alert, ProxyHealthStore: what the workers read of  *)
(* a check is forgotten after an hour.                                     *)
AllDown(results) == results # {} /\ \A r \in results : ~r.ok
ProxyTold(results) == {r.proxy : r \in {x \in results : ~x.ok}}
DownLabels(store, now) == IF store = <<>> \/ now - store[1].at >= 60 THEN {} ELSE ProxyTold(store[1].results)

(* keys_to_delete, run_backup: the newest copies are kept; keys are the    *)
(* times of the copies, and other objects of the bucket are left alone.    *)
ToDelete(keys, keep) ==
    IF Cardinality(keys) > keep /\ keep > 0 THEN {k \in keys : Cardinality({j \in keys : j > k}) >= keep} ELSE {}
Backup(keys, at, keep) == (keys \cup {at}) \ ToDelete(keys \cup {at}, keep)

(* ensure_room_snapshot_partitions, drop_..._older_than: months are        *)
(* numbers.                                                                *)
Ensured(partitions, month) == partitions \cup month..(month + 2)
Pruned(partitions, month, keep) == {m \in partitions : m >= month - keep}

----------------------------------------------------------------------------
(* AlertThrottle.should_send: the key is remembered before anything is     *)
(* sent.                                                                   *)
ShouldSend(key) == key \notin DOMAIN lastSent \/ opsNow - lastSent[key] >= OpsGap

(* _ops_checks takes the key from the first 20 characters of the text:     *)
(* they reach as far as a low rate itself ("success rate 75% in"), and     *)
(* tell "no usable data since" from "no usable data ever".                 *)
AlertKeyAbout(a) == <<a.channel, a.about>> \* Mutant: the characters end before the rate
AlertKey(a) == <<a.channel, a.about, a.figure>>

Alert(c, about, figure) == [channel |-> c, about |-> about, figure |-> figure]
StaleAbout(age) == IF age = None THEN "never" ELSE "since"
OpsAlerts ==
    {Alert(c, "rate", opsHealth[c].rate) : c \in {x \in OpsChannels : LowRate(opsHealth[x].rate, MinProbes)}}
    \cup {Alert(c, StaleAbout(opsHealth[c].age), None) : c \in {x \in OpsChannels : ChannelStale(opsHealth[x].age)}}

OpsInit ==
    /\ opsNow = 0
    /\ opsHealth \in [OpsChannels -> [rate : OpsRates, age : OpsAges]]
    /\ checkedAt = None
    /\ lastSent = <<>>
    /\ told = {}

(* An hour passes, and the data is what it is.                             *)
HourPasses ==
    /\ opsNow < OpsHours
    /\ checkedAt = opsNow
    /\ opsNow' = opsNow + 1
    /\ opsHealth' \in [OpsChannels -> [rate : OpsRates, age : OpsAges]]
    /\ UNCHANGED <<checkedAt, lastSent, told>>

SentNow == {a \in OpsAlerts : ShouldSend(AlertKey(a))}
OpsCheck ==
    /\ checkedAt = None \/ opsNow - checkedAt >= 1
    /\ checkedAt' = opsNow
    /\ lastSent' = [k \in DOMAIN lastSent \cup {AlertKey(a) : a \in SentNow} |->
                        IF \E a \in SentNow : AlertKey(a) = k THEN opsNow ELSE lastSent[k]]
    /\ told' = told \cup {[channel |-> a.channel, about |-> a.about, figure |-> a.figure, at |-> opsNow] : a \in SentNow}
    /\ UNCHANGED <<opsNow, opsHealth>>

(* The database cannot be read: nothing is told until the next hour.       *)
OpsCheckFails ==
    /\ checkedAt = None \/ opsNow - checkedAt >= 1
    /\ checkedAt' = opsNow
    /\ UNCHANGED <<opsNow, opsHealth, lastSent, told>>

(* The scheduler starts anew: what it remembers of its alerts is lost.     *)
OpsRestart ==
    /\ checkedAt' = None
    /\ lastSent' = <<>>
    /\ UNCHANGED <<opsNow, opsHealth, told>>

OpsNext == HourPasses \/ OpsCheck \/ OpsCheckFails \/ OpsRestart
OpsSpec == OpsInit /\ [][OpsNext]_opsVars

----------------------------------------------------------------------------
(* What is wrong at a check that has been made is told of with its figure, *)
(* then or within the gap before: the throttle hides no trouble behind     *)
(* another one or behind another figure, and no lasting one for longer     *)
(* than its gap (ops/alerts.py AlertThrottle, scheduler _ops_checks).      *)
ToldOf(a, t) == t.channel = a.channel /\ t.about = a.about /\ t.figure = a.figure
TroubleIsTold ==
    [][OpsCheck => \A a \in OpsAlerts : \E t \in told' : ToldOf(a, t) /\ opsNow - t.at < OpsGap]_opsVars

=============================================================================

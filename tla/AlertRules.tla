------------------------------ MODULE AlertRules -----------------------------
(***************************************************************************)
(* Which events of a scan a tenant is told of (notify/alert_rules.py,      *)
(* notify/kinds.py), of which scans, and what the weekly report counts     *)
(* (notify/service.py, notify/weekly.py).  The wording is left out.        *)
(* An event is [id, hotel, role, room, stay, type, delta, label]; room is  *)
(* None for an event of the whole hotel; deltas and the price index are in *)
(* percent.  A market is a function from nights to what the competitors    *)
(* do: [soldOut, observed, low, index, sample].                            *)
(***************************************************************************)
EXTENDS Figures

AlertKinds == {"sold_out", "low_stock", "price_drop", "market_tight", "price_rise", "promo", "drift", "own_closed"}

(* normalize_params, effective_rules: what is stored counts if it names    *)
(* the kind's own parameters within their bounds, else the defaults do.    *)
Default ==
    [k \in AlertKinds |->
        CASE k = "sold_out" -> [within |-> 14, min |-> 1]       [] k = "low_stock" -> [within |-> 7]
          [] k \in {"price_drop", "price_rise"} -> [within |-> 14, pct |-> 10]
          [] k = "market_tight" -> [within |-> 14, share |-> 50] [] k = "promo" -> [within |-> 30, pct |-> 20]
          [] k = "drift" -> [within |-> 14, gap |-> 10]          [] k = "own_closed" -> [within |-> 30]]
DefaultOff == {"drift"}
ParamBounds == [within |-> 1..90, min |-> 1..50, pct |-> 3..90, share |-> 25..100, gap |-> 3..50]

Normal(kind, params) ==
    DOMAIN params \subseteq DOMAIN Default[kind] /\ \A p \in DOMAIN params : params[p] \in ParamBounds[p]
Normalized(kind, params) ==
    IF Normal(kind, params)
    THEN [p \in DOMAIN Default[kind] |-> IF p \in DOMAIN params THEN params[p] ELSE Default[kind][p]]
    ELSE Default[kind]
EffectiveRules(stored) ==
    [k \in AlertKinds |->
        IF k \in DOMAIN stored THEN [active |-> stored[k].active, params |-> Normalized(k, stored[k].params)]
        ELSE [active |-> k \notin DefaultOff, params |-> Default[k]]]

----------------------------------------------------------------------------
Tightening == {"sold_out", "low_stock_enter", "rooms_decrease", "lowest_rate_shift"}

WithinDays(e, today, within) == e.stay - today \in 0..(within - 1)
Competitor(e) == e.role = "competitor"
OfHotel(e) == e.room = None

Item(kind, hotel, stay, e) == [kind |-> kind, hotel |-> hotel, stay |-> stay, event |-> e.id]
ForEach(kind, E) == {Item(kind, e.hotel, e.stay, e) : e \in E}

(* Of the events with the same key the first one stands for them all.      *)
FirstOf(E, key(_)) == {e \in E : \A f \in E : key(f) = key(e) => f.id >= e.id}
HotelNight(e) == <<e.hotel, e.stay>>
Night(e) == e.stay
HotelPromo(e) == <<e.hotel, e.label>>

SoldOut(E, market, p) ==
    LET sold(e) == IF e.stay \in DOMAIN market THEN market[e.stay].soldOut ELSE 1 IN
    ForEach("sold_out", {e \in E : e.type = "sold_out" /\ OfHotel(e) /\ Competitor(e) /\ sold(e) >= p.min})

LowStockKeyNight(e) == e.stay \* Mutant: the hotels of a night are one group
LowStockKey(e) == HotelNight(e)
LowStockAlerts(E) ==
    ForEach("low_stock", FirstOf({e \in E : e.type = "low_stock_enter" /\ ~OfHotel(e) /\ Competitor(e)}, LowStockKey))

PriceChanges(kind, type, E, p) ==
    ForEach(kind, {e \in E : e.type = type /\ OfHotel(e) /\ e.delta # None /\ Competitor(e) /\ Abs(e.delta) >= p.pct})

(* A night is looked at when something of a competitor has changed.        *)
MarketTight(E, market, p) ==
    LET tight(d) == d \in DOMAIN market /\ market[d].observed >= 3
                    /\ (market[d].soldOut + market[d].low) * 100 >= p.share * market[d].observed
        touched == FirstOf({e \in E : Competitor(e) /\ e.type \in Tightening}, Night)
    IN  {Item("market_tight", None, e.stay, e) : e \in {x \in touched : tight(x.stay)}}

(* One promotion of a hotel is one alert, at its first night.              *)
PromoAlerts(E, p) ==
    LET starts == {e \in E : e.type = "promo_start" /\ Competitor(e) /\ e.delta # None /\ e.delta >= p.pct}
        earlier(f, e) == f.stay < e.stay \/ (f.stay = e.stay /\ f.id < e.id)
    IN  ForEach("promo", {e \in starts : \A f \in starts : HotelPromo(f) = HotelPromo(e) => ~earlier(f, e)})

(* The own position, at a night on which any price has changed.            *)
Drift(E, market, p, target) ==
    LET off(d) == d \in DOMAIN market /\ market[d].index # None /\ market[d].sample # "insufficient"
                  /\ Abs(market[d].index - target) > p.gap
        changed == {e \in E : e.type \in {"price_up", "price_down"} /\ OfHotel(e) /\ off(e.stay)}
    IN  {Item("drift", IF e.role = "self" THEN e.hotel ELSE None, e.stay, e) : e \in FirstOf(changed, Night)}

OwnClosed(E) ==
    ForEach("own_closed", {e \in E : e.role = "self" /\ e.type \in {"sold_out", "restricted"} /\ OfHotel(e)})

(* evaluate_alerts, _actionable_alerts: each active rule sees the events   *)
(* of its window.                                                          *)
EvaluateAlerts(rules, events, market, today, target) ==
    LET p(k) == rules[k].params
        seen(k) == {e \in events : WithinDays(e, today, p(k).within)}
        items(k) ==
            CASE k = "sold_out" -> SoldOut(seen(k), market, p(k))
              [] k = "low_stock" -> LowStockAlerts(seen(k))
              [] k = "price_drop" -> PriceChanges(k, "price_down", seen(k), p(k))
              [] k = "price_rise" -> PriceChanges(k, "price_up", seen(k), p(k))
              [] k = "market_tight" -> MarketTight(seen(k), market, p(k))
              [] k = "promo" -> PromoAlerts(seen(k), p(k))
              [] k = "drift" -> Drift(seen(k), market, p(k), target)
              [] k = "own_closed" -> OwnClosed(seen(k))
    IN  UNION {items(k) : k \in {x \in AlertKinds : rules[x].active}}

(* alerts_for_run: events are those of the runs' hotels that the tenant    *)
(* watches, of the types that matter.                                      *)
Reported == Tightening \cup {"price_down", "price_up", "promo_start", "restricted"}
AlertsForRun(stored, events, runs, watched, market, today, target) ==
    EvaluateAlerts(EffectiveRules(stored),
                   {e \in events : e.run \in runs /\ e.hotel \in watched /\ e.type \in Reported}, market, today, target)

(* _candidate_runs: the runs of one slot are told of together: when all of *)
(* them are closed well, not too long ago, one is analysed, and the others *)
(* are too or have been waited for.  Times are in minutes.                 *)
CandidateRuns(runs, now) ==
    LET slots == {{r \in runs : r.slot = s} : s \in {r.slot : r \in {x \in runs : x.at >= now - 1560}}}
        last(G) == GreatestOf({r.finished : r \in G})
        pending(G) == {r \in G : r.probes > 0 /\ ~r.analysed}
    IN  {G \in slots : /\ \A r \in G : r.status \in {"completed", "partial"}
                       /\ last(G) # None /\ last(G) >= now - 1440
                       /\ \E r \in G : r.analysed
                       /\ pending(G) = {} \/ last(G) <= now - 120}

(* weekly_due_key: from eight on Monday, or on Tuesday.                    *)
WeeklyDue(weekday, hour) == (weekday = 0 /\ hour >= 8) \/ weekday = 1

(* in_quiet_hours: minutes of the day, across midnight when they end       *)
(* before they start.                                                      *)
InQuietHours(m, from, until) ==
    /\ None \notin {from, until}
    /\ IF from < until THEN m \in from..(until - 1) ELSE m >= from \/ m < until

(* build_weekly_report.  An event of a week is [hotel, type, room]; days   *)
(* hold what the competitors do, as in a market.                           *)
CountedTypes == {"sold_out", "low_stock_enter", "price_down", "price_up"}
WeeklyReport(events, market, today) ==
    LET count(t) == Cardinality({e \in events : e.type = t /\ OfHotel(e) = (t # "low_stock_enter")})
        outlook == {d \in DOMAIN market : d \in today..(today + 13)}
        tight == {d \in outlook : market[d].observed > 0 /\ 2 * market[d].soldOut >= market[d].observed}
        before(d, c) == market[d].soldOut * market[c].observed > market[c].soldOut * market[d].observed
                        \/ (market[d].soldOut * market[c].observed = market[c].soldOut * market[d].observed /\ d < c)
        priced == {d \in outlook : market[d].index # None}
    IN  [counts |-> [t \in CountedTypes |-> count(t)],
         tightest |-> {d \in tight : Cardinality({c \in tight : before(c, d)}) < 3},
         average |-> IF priced = {} THEN None
                     ELSE HalfEven(SumBy(priced, LAMBDA d : market[d].index - 100), Cardinality(priced)),
         nights |-> Cardinality({d \in outlook : market[d].observed > 0})]

----------------------------------------------------------------------------
(* What a hotelier is told of a run hides nothing: what some of its events *)
(* would have said alone is still said with all of them, whichever are     *)
(* grouped together; and nothing is said twice of one night, the market's  *)
(* or a hotel's (alert_rules.py evaluate_alerts).                          *)
AlertsAreKept(rules, events, market, target) ==
    LET items(E) == EvaluateAlerts(rules, E, market, 0, target)
        subject(i) == CASE i.kind = "drift" -> <<i.kind, i.stay>>
                        [] i.kind = "promo" -> <<i.kind, i.hotel>>
                        [] OTHER -> <<i.kind, i.hotel, i.stay>>
        said(E) == {subject(i) : i \in items(E)}
    IN  /\ \A E \in SUBSET events : said(E) \subseteq said(events)
        /\ \A i, j \in items(events) : i # j /\ i.kind # "promo" => subject(i) # subject(j)

=============================================================================

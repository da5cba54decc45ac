-------------------------------- MODULE Radar -------------------------------
(***************************************************************************)
(* What the dashboard reads off the scans of the competitors               *)
(* (market/radar.py) and the weather it keeps (market/weather.py).         *)
(* promos is a function from a hotel's observed nights to its promotions,  *)
(* themselves functions from labels to depths in percent.  Prices of a     *)
(* night are a function from <<refundable, meal>> to a price.              *)
(***************************************************************************)
EXTENDS Figures

(* promo_origin: promotions the channel itself applies.                    *)
ChannelPromos == {"genius", "mobile", "coupon"}
PromoOrigin(label) == IF label \in ChannelPromos THEN "channel" ELSE "hotel"

(* promo_runs: one run for each label, over its nights.                    *)
RunNightsHotel(promos, label) == \* Mutant: promotions of the channel have no run
    {d \in DOMAIN promos : label \in DOMAIN promos[d] /\ PromoOrigin(label) = "hotel"}
RunNights(promos, label) == {d \in DOMAIN promos : label \in DOMAIN promos[d]}
PromoRuns(promos, starts) ==
    {[label |-> l, origin |-> PromoOrigin(l), nights |-> RunNights(promos, l),
      depth |-> GreatestOf({promos[d][l] : d \in RunNights(promos, l)}),
      startedAt |-> IF l \in DOMAIN starts THEN starts[l] ELSE None] :
        l \in UNION {DOMAIN promos[d] : d \in DOMAIN promos}}

(* promo_share_by_night: how many hotels have one, of how many observed.   *)
PromoShare(hotels, d) ==
    <<Cardinality({h \in hotels : d \in DOMAIN h.promos /\ DOMAIN h.promos[d] # {}}),
      Cardinality({h \in hotels : d \in DOMAIN h.promos})>>

(* cancellation_profile: nights with flexible and with non-refundable      *)
(* rates, and what a guest saves by giving up the refund, in tenths of a   *)
(* percent, for the same meal.                                             *)
CancellationProfile(prices) == \* prices is a function from nights
    LET valid(d) == {k \in DOMAIN prices[d] : prices[d][k] # None /\ prices[d][k] > 0}
        priced == {d \in DOMAIN prices : valid(d) # {}}
        with(refund) == {d \in priced : \E k \in valid(d) : k[1] = refund}
        pairs == UNION {{<<d, m>> : m \in {k[2] : k \in {x \in valid(d) : x[1] /\ <<FALSE, x[2]>> \in valid(d)}}} : d \in priced}
        flex(p) == prices[p[1]][<<TRUE, p[2]>>]
        fixed(p) == prices[p[1]][<<FALSE, p[2]>>]
        cheaper == {p \in pairs : fixed(p) < flex(p)}
    IN  [priced |-> Cardinality(priced), refundable |-> Cardinality(with(TRUE)), fixed |-> Cardinality(with(FALSE)),
         discount |-> Median(cheaper, LAMBDA p : HalfEven((flex(p) - fixed(p)) * 1000, flex(p))), pairs |-> Cardinality(cheaper)]

(* restriction_for.                                                        *)
Restriction(minStay, status) ==
    [minStay |-> Max({1, IF minStay = None THEN 1 ELSE minStay}), closed |-> status = "restricted"]

(* area_scarcity: the latest number of properties still on sale for a      *)
(* night, and the last one known a week before it.  A scan is [night, at,  *)
(* left]; times are in days.                                               *)
AreaScarcity(scans, d) ==
    LET obs == {s \in scans : s.night = d /\ s.left # None}
        last == CHOOSE s \in obs : \A r \in obs : r.at <= s.at
        earlier == {s \in obs : s.at <= last.at - 7}
        week == CHOOSE s \in earlier : \A r \in earlier : r.at <= s.at
    IN  IF obs = {} THEN [left |-> None, weekAgo |-> None, change |-> None]
        ELSE IF earlier = {} THEN [left |-> last.left, weekAgo |-> None, change |-> None]
        ELSE [left |-> last.left, weekAgo |-> week.left,
              change |-> IF week.left = 0 THEN None ELSE HalfEven((last.left - week.left) * 1000, week.left)]

----------------------------------------------------------------------------
(* fetch_weather: a forecast is kept for 30 minutes, a failure for two; a  *)
(* forecast forgets the failure, a failure leaves the old forecast.  Times *)
(* are in minutes; memory holds what is known of a place.                  *)
NoWeather == [forecast |-> None, at |-> None, failedAt |-> None]
CacheHit(w, now) == w.at # None /\ now - w.at < 30
RecentFailure(w, now) == w.failedAt # None /\ now - w.failedAt < 2
AsksOut(w, now) == ~CacheHit(w, now) /\ ~RecentFailure(w, now)
Fetched(w, now, answer) ==
    IF ~AsksOut(w, now) THEN w
    ELSE IF answer = None THEN [w EXCEPT !.failedAt = now]
    ELSE [forecast |-> answer, at |-> now, failedAt |-> None]
Shown(w, now, answer) ==
    IF CacheHit(w, now) THEN w.forecast ELSE IF RecentFailure(w, now) THEN None ELSE answer

(* parse_forecast: the days of the place, with their bounds.               *)
DaysOf(items, offset) == \* an item is [at, temp], in hours
    [d \in {(i.at + offset) \div 24 : i \in items} |->
        LET temps == {i.temp : i \in {x \in items : (x.at + offset) \div 24 = d}} IN <<Min(temps), Max(temps)>>]

----------------------------------------------------------------------------
(* The two readings of the promotions agree: the hotels counted on a night *)
(* are those one of whose runs covers it, and no run covers a night that   *)
(* was not observed (radar.py promo_runs, promo_share_by_night).           *)
SharesAgree(hotels) ==
    \A d \in UNION {DOMAIN h.promos : h \in hotels} :
        /\ PromoShare(hotels, d)[1]
              = Cardinality({h \in hotels : \E r \in PromoRuns(h.promos, <<>>) : d \in r.nights})
        /\ \A h \in hotels : \A r \in PromoRuns(h.promos, <<>>) : r.nights \subseteq DOMAIN h.promos

=============================================================================

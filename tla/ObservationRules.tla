-------------------------- MODULE ObservationRules --------------------------
(***************************************************************************)
(* The rules of analytics/rules.py: what one look at the offers of a hotel *)
(* for one night says (an observation), which events two looks make, and   *)
(* the metrics of the last one.  Prices are positive integers, a change is *)
(* counted in hundredths of a percent, time in days; a Boolean that may be *)
(* missing is 0 (missing), 1 (false) or 2 (true).                          *)
(*                                                                         *)
(* An observation: [run, at, status, minStay, rooms]; rooms maps the room  *)
(* types on sale to [left, conf, min, refundable, prices, breakfast,       *)
(* roomOnly, promos].                                                      *)
(***************************************************************************)
EXTENDS Figures

AnyKey == 0        \* the only key of a room type whose rates are not known
LowStock == 3      \* Thresholds.low_stock
PriceChange == 300 \* Thresholds.price_change_pct

Usable == {"available", "sold_out"}
Observed == Usable \cup {"restricted"}

(* date_status_for_probe; an "ok" without a room tells nothing.            *)
DateStatusForProbe(probe, hasRooms) ==
    CASE probe = "ok" /\ hasRooms -> "available"
      [] probe = "sold_out" -> "sold_out"
      [] probe = "skipped_calendar" -> "restricted"
      [] OTHER -> "unknown"

----------------------------------------------------------------------------
(* summarize_rates: the public rates of a room type, a sequence of         *)
(* [price, original, refundable, breakfast, promo, loyalty]; promo "" is   *)
(* no label; a price that cannot be read is None.                          *)
Public(rates) == {i \in DOMAIN rates : ~rates[i].loyalty /\ rates[i].price > 0}
RateKey(rate) == 1 + 3 * rate.refundable + rate.breakfast
PublicPrices(rates, P(_)) == {rates[i].price : i \in {j \in Public(rates) : P(rates[j])}}

(* The discount from the crossed-out price, in thousandths.                *)
Depth(rate) ==
    IF rate.original > rate.price
    THEN HalfEven((rate.original - rate.price) * 1000, rate.original) ELSE None

SummarizeRates(rates) ==
    [prices |-> [k \in {RateKey(rates[i]) : i \in Public(rates)} |->
                   Min(PublicPrices(rates, LAMBDA r : RateKey(r) = k))],
     breakfast |-> LeastOf(PublicPrices(rates, LAMBDA r : r.breakfast = 2)),
     roomOnly |-> LeastOf(PublicPrices(rates, LAMBDA r : r.breakfast = 1)),
     promos |-> [l \in {rates[i].promo : i \in Public(rates)} \ {""} |->
                   GreatestOf({Depth(rates[i]) : i \in {j \in Public(rates) : rates[j].promo = l}})]]

----------------------------------------------------------------------------
(* RoomObs and HotelDateObs.                                               *)
Exact(room) == room.conf = "exact" /\ room.left # None
Prices(room) == IF DOMAIN room.prices # {} \/ room.min = None THEN room.prices
                ELSE [k \in {AnyKey} |-> room.min]

IsUsable(o) == o.status \in Usable
IsObserved(o) == o.status \in Observed
Types(o) == DOMAIN o.rooms
LeastRoom(o, f(_)) == LeastOf({f(o.rooms[t]) : t \in Types(o)})
MinPrice(o) == LeastRoom(o, LAMBDA r : r.min)

ExactRoomsLeft(o) ==
    LET exact == {t \in Types(o) : Exact(o.rooms[t])} IN
    IF exact = {} THEN None ELSE SumBy(exact, LAMBDA t : o.rooms[t].left)

(* cheapest(): a room type and a key; ties go to the smallest.             *)
Offers(o) == UNION {{<<t, k>> : k \in DOMAIN Prices(o.rooms[t])} : t \in Types(o)}
OfferPrice(o, x) == Prices(o.rooms[x[1]])[x[2]]
Before(o, x, y) ==
    \/ OfferPrice(o, x) < OfferPrice(o, y)
    \/ OfferPrice(o, x) = OfferPrice(o, y) /\ (x[1] < y[1] \/ (x[1] = y[1] /\ x[2] <= y[2]))
NoOffer == <<None, None>>
Cheapest(o) ==
    IF Offers(o) = {} THEN NoOffer ELSE CHOOSE x \in Offers(o) : \A y \in Offers(o) : Before(o, x, y)

PricesByKey(o) ==
    [k \in UNION {DOMAIN o.rooms[t].prices : t \in Types(o)} |->
       Min({o.rooms[t].prices[k] : t \in {u \in Types(o) : k \in DOMAIN o.rooms[u].prices}})]
Promos(o) ==
    [l \in UNION {DOMAIN o.rooms[t].promos : t \in Types(o)} |->
       GreatestOf({o.rooms[t].promos[l] : t \in {u \in Types(o) : l \in DOMAIN o.rooms[u].promos}})]

----------------------------------------------------------------------------
(* An event: its type, the room type or None, the change and the reason.   *)
Event(type, room, delta, reason) == [type |-> type, room |-> room, delta |-> delta, reason |-> reason]
Transition(type) == {Event(type, None, None, "")}
Big(change) == change # None /\ Abs(change) >= PriceChange

PriceEvents(old, new, room, key) ==
    LET change == PctChange(old, new) IN
    IF Big(change) THEN {Event(IF change > 0 THEN "price_up" ELSE "price_down", room, change, key)} ELSE {}

(* _room_price_events: the rate both looks have that was the cheapest.     *)
RoomPriceEvents(before, room, t) ==
    LET p == Prices(before)  q == Prices(room)
        common == DOMAIN p \cap DOMAIN q
        key == CHOOSE k \in common : \A j \in common : p[k] < p[j] \/ (p[k] = p[j] /\ k <= j)
    IN IF common = {} THEN {} ELSE PriceEvents(p[key], q[key], t, ToString(key))

(* _hotel_price_events: a change of the same offer, or a shift to another. *)
ShiftReason(prev, cur) ==
    LET p == Cheapest(prev)  c == Cheapest(cur) IN
    CASE p # NoOffer /\ p[1] \notin Types(cur) -> "cheapest_gone"
      [] c # NoOffer /\ c[1] \notin Types(prev) -> "cheapest_back"
      [] p # NoOffer /\ p[2] \notin DOMAIN Prices(cur.rooms[p[1]]) -> "rate_gone"
      [] c # NoOffer /\ c[2] \notin DOMAIN Prices(prev.rooms[c[1]]) -> "rate_back"
      [] OTHER -> "mix"

HotelPriceEvents(prev, cur) ==
    LET change == PctChange(MinPrice(prev), MinPrice(cur)) IN
    IF ~Big(change) THEN {}
    ELSE IF Cheapest(prev) = Cheapest(cur) /\ Cheapest(cur) # NoOffer
    THEN PriceEvents(MinPrice(prev), MinPrice(cur), None, ToString(Cheapest(cur)[2]))
    ELSE {Event("lowest_rate_shift", None, change, ShiftReason(prev, cur))}

PromoEvents(prev, cur) ==
    LET was == Promos(prev)  now == Promos(cur)
        started == DOMAIN now \ DOMAIN was
    IN (IF started = {} THEN {}
        ELSE {Event("promo_start", None, GreatestOf({now[l] : l \in started}), "")})
       \cup (IF DOMAIN was \subseteq DOMAIN now THEN {} ELSE Transition("promo_end"))

(* The events of a room type on sale at both looks.                        *)
Low(room) == Exact(room) /\ room.left <= LowStock
RoomEvents(prev, cur, t) ==
    LET was == prev.rooms[t]  now == cur.rooms[t]
        delta == now.left - was.left
    IN (IF Exact(was) /\ Exact(now) /\ delta # 0
        THEN {Event(IF delta < 0 THEN "rooms_decrease" ELSE "rooms_increase", t, delta, "")} ELSE {})
       \cup (IF Low(now) /\ ~Low(was) THEN {Event("low_stock_enter", t, None, "")} ELSE {})
       \cup (IF prev.minStay = cur.minStay THEN RoomPriceEvents(was, now, t) ELSE {})

(* A room type absent for one look only has not gone, and one that was     *)
(* ever seen is not new when it comes back.  prev2 is a set of at most one *)
(* observation: the one before prev.                                       *)
Earlier(prev2) == UNION {Types(o) : o \in {x \in prev2 : x.status = "available"}}
NewTypes(prev, cur, prev2, seen) == Types(cur) \ (Types(prev) \cup seen \cup Earlier(prev2))
GoneTypes(prev, cur, prev2) == Earlier(prev2) \ (Types(prev) \cup Types(cur))

AvailableEvents(prev, cur, prev2, seen) ==
    (IF prev.minStay = cur.minStay THEN HotelPriceEvents(prev, cur) \cup PromoEvents(prev, cur)
     ELSE {Event("min_stay_change", None, cur.minStay - prev.minStay, "")})
    \cup (UNION {RoomEvents(prev, cur, t) : t \in Types(prev) \cap Types(cur)})
    \cup {Event("room_type_new", t, None, "") : t \in NewTypes(prev, cur, prev2, seen)}
    \cup {Event("room_type_gone", t, None, "") : t \in GoneTypes(prev, cur, prev2)}

(* diff_events.  prev is a set of at most one observation, too.            *)
DiffEvents(prevs, cur, prev2, seen) ==
    IF ~IsObserved(cur) \/ prevs = {} THEN {}
    ELSE LET prev == CHOOSE o \in prevs : TRUE IN
         CASE cur.status = prev.status /\ cur.status # "available" -> {}
           [] cur.status = "restricted" /\ prev.status # "restricted" -> Transition("restricted")
           [] prev.status = "restricted" /\ cur.status = "available" -> Transition("restriction_lifted")
           [] prev.status = "restricted" /\ cur.status = "sold_out" -> {}
           [] prev.status = "available" /\ cur.status = "sold_out" -> Transition("sold_out")
           [] prev.status = "sold_out" /\ cur.status = "available" -> Transition("restock")
           [] OTHER -> AvailableEvents(prev, cur, prev2, seen)

----------------------------------------------------------------------------
(* The newest of a history (a set of observations), before a time or at    *)
(* it.                                                                     *)
Newest(S) == {o \in S : \A x \in S : x.at <= o.at}
LastObservedBefore(hist, at) == Newest({o \in hist : IsObserved(o) /\ o.at < at})
UsableAtOrBefore(hist, at) == Newest({o \in hist : IsUsable(o) /\ o.at <= at})

(* paired_exact_pickup: how many rooms fewer, over the room types both     *)
(* looks know exactly; a type that disappeared sold what it had.           *)
PairedExactPickup(older, newer) ==
    LET exact == {t \in Types(older) : Exact(older.rooms[t])}
        sold(t) == IF t \in Types(newer) THEN older.rooms[t].left - newer.rooms[t].left
                   ELSE older.rooms[t].left
        paired == {t \in exact : t \in Types(newer) => Exact(newer.rooms[t])}
    IN CASE older.status # "available" -> None
         [] newer.status = "sold_out" -> ExactRoomsLeft(older)
         [] newer.status # "available" \/ paired = {} -> None
         [] OTHER -> SumBy(paired, sold)

(* like_for_like_change: the median change of the offers of both looks.    *)
LikeForLikeChange(older, newer) ==
    LET change(x) == PctChange(OfferPrice(older, x), OfferPrice(newer, x)) IN
    IF \/ older.status # "available" \/ newer.status # "available"
       \/ older.minStay # newer.minStay
    THEN None
    ELSE Median(Offers(older) \cap Offers(newer), change)

(* compute_metrics; a day is 24 hours.  velocity in thousandths, share in  *)
(* ten-thousandths.                                                        *)
Since(hist, cur, days, f(_)) ==
    LET ref == UsableAtOrBefore(hist, cur.at - days) IN
    IF IsUsable(cur) /\ ref # {} THEN f(CHOOSE o \in ref : TRUE) ELSE None
When(c, x) == IF c THEN x ELSE None

ComputeMetrics(cur, hist, stay) ==
    LET speed(o) == LET p == PairedExactPickup(o, cur) IN
                    IF p = None THEN None ELSE HalfEven(p * 1000, cur.at - o.at)
        window == {o \in hist \cup {cur} : IsUsable(o) /\ o.at >= cur.at - 7}
        exact == {o \in window : ExactRoomsLeft(o) # None}
        priced == cur.status = "available"
    IN [daysToArrival |-> stay - cur.at,
        pickup24h |-> Since(hist, cur, 1, LAMBDA o : PairedExactPickup(o, cur)),
        velocity3d |-> Since(hist, cur, 3, speed),
        priceChange7d |-> Since(hist, cur, 7, LAMBDA o : LikeForLikeChange(o, cur)),
        status |-> cur.status, minStay |-> cur.minStay, observedAt |-> cur.at,
        minPrice |-> When(IsUsable(cur), MinPrice(cur)),
        minRefundable |-> When(IsUsable(cur), LeastRoom(cur, LAMBDA r : r.refundable)),
        exactRoomsLeft |-> When(IsUsable(cur), ExactRoomsLeft(cur)),
        exactShare |-> When(window # {}, HalfEven(Cardinality(exact) * 10000, Cardinality(window))),
        breakfast |-> When(priced, LeastRoom(cur, LAMBDA r : r.breakfast)),
        roomOnly |-> When(priced, LeastRoom(cur, LAMBDA r : r.roomOnly)),
        cheapest |-> IF priced THEN Cheapest(cur) ELSE NoOffer,
        pricesByKey |-> IF priced THEN PricesByKey(cur) ELSE << >>,
        promos |-> IF priced THEN Promos(cur) ELSE << >>]

=============================================================================

----------------------------- MODULE MCFigures -----------------------------
(* Bounded inputs of the functions of the analysis, for TLC.               *)
EXTENDS Analysis, TLC

----------------------------------------------------------------------------
\* Two room types; every badge and dropdown that a page may show of one.
RoomsSeen(t) ==
    {[type |-> t, confidence |-> DeriveStock(b, d, sc).confidence, left |-> DeriveStock(b, d, sc).left, dropdown |-> d, scope |-> sc] :
        b \in {None, 0, 1, 2, 3}, d \in {None, 0, 2}, sc \in {"room_type", "rate"}}
Rooms == {{}} \cup {{r} : r \in RoomsSeen("a")} \cup {{r, s} : r \in RoomsSeen("a"), s \in RoomsSeen("b")}
RoomsBefore == {{}} \cup {{r, s} : r \in {x \in RoomsSeen("a") : x.left # None}, s \in {x \in RoomsSeen("b") : x.left = 3}}
SomeStocks == [rooms : Rooms, before : RoomsBefore]

\* A night on sale, in a market of four, and a strategy.
OwnNights ==
    [status : {"available"}, ownPrice : {250, 254}, roomsLeft : {None, 2}, ownOcc : {None, 4500, 6500, 8500},
     occSource : {"estimate", "otb"}, observed : {4}, soldOut : {0, 1, 2}, low : {0, 1}, compMedian : {200, 300},
     compPriced : {2, 4}, compOcc : {None, 9000}, compPace : {None, 2000}, pace4w : {None, -6}, capacity : {40},
     holiday : {FALSE}, uplift : {None}, days : {1, 10}, peak : {TRUE}, ownIndex : {None}]
Strategies ==
    [base : {None, 240}, target : {100}, roundTo : {10}, maxChange : {15}, weekday : {0}, holidayUplift : {10},
     lastDays : {3}, lastAdj : {-5}, floor : {None}, ceiling : {None, 240}, source : {"default", "strategy"}]
SomePrices == [night : OwnNights, strategy : Strategies]
\* A price between two steps, and no ceiling.
OddPrices == {[x EXCEPT !.night.ownPrice = 204, !.strategy.ceiling = None] : x \in SomePrices}

\* Up to three snapshots of a night in any order; the curves of the nights of
\* its weekday, holidays among them.
OtbRow == [lead : 0..3, rooms : 0..1, capacity : {10}]
Curves == [{3} -> {2000, 7000}] \cup [{4} -> {2000}]
SomeOtb == UNION {[1..n -> OtbRow] : n \in 0..3}
SomePaces ==
    [night : {56}, lead : {3}, now : {5000}, curves : [{35, 42, 49} -> Curves], others : {[d \in {3} |-> 100]},
     holidays : SUBSET {35, 42, 49, 56}]

\* Two lines, equal ones too, of bookings made and cancelled on any day around
\* today.
Bookings == [booked : 0..2, arrival : {2}, departure : {3, 4}, rooms : {2}, cancel : {None, 1, 2},
             status : {"ok", "cancelled"}, group : {FALSE}]
SomeBooks == [table : Bookings \X Bookings, today : 0..3]

\* Up to three events of a competitor's hotels and of the own one.
Event(h, role, r, d, t, delta, l) ==
    [hotel |-> h, role |-> role, room |-> r, stay |-> d, type |-> t, delta |-> delta, label |-> l]
SomeEvents ==
    {Event(h, "competitor", r, d, "low_stock_enter", None, "") : h \in {1, 2}, r \in {1, 2}, d \in {0}}
    \cup {Event(h, "competitor", None, d, t, 12, "") : h \in {1, 2}, d \in {0, 1}, t \in {"sold_out", "price_down"}}
    \cup {Event(1, "competitor", None, d, "promo_start", 25, l) : d \in {0, 1}, l \in {"p", "q"}}
    \cup {Event(3, "self", None, d, t, 12, "") : d \in {0, 1}, t \in {"sold_out", "restricted", "price_up"}}
WithId(e, i) == [x \in DOMAIN e \cup {"id"} |-> IF x = "id" THEN i ELSE e[x]]
SomeMarket(s, i) == [d \in {0, 1} |-> [soldOut |-> s, observed |-> 4, low |-> 1, index |-> i, sample |-> "ok"]]
AllRules == EffectiveRules([k \in {"drift"} |-> [active |-> TRUE, params |-> [gap |-> 10]]])
SomeAlerts ==
    [rules : {AllRules}, target : {100},
     events : {E \in {{WithId(a, 1), WithId(b, 2), WithId(c, 3)} : a, b, c \in SomeEvents} : IsAlerts(E)},
     market : {SomeMarket(1, 85), SomeMarket(2, 100)}]

\* Two or three pages with up to two cards, of this round or the last one, in
\* default order or of a slice.
Ranked == {<<>>} \cup {<<[hotel |-> h, rank |-> r]>> : h \in {1, 2}, r \in {1, 3}}
          \cup {<<[hotel |-> h, rank |-> 1], [hotel |-> 3 - h, rank |-> 2]>> : h \in {1, 2}}
PageAt(ranked, base, t, s) == [ranked |-> ranked, base |-> base, now |-> t, start |-> s]
ListPages ==
    {<<PageAt(a, x, 1, 0), PageAt(b, y, 2, r[1]), PageAt(c, z, 3, r[2])>> :
        a, b, c \in Ranked, x, y, z \in BOOLEAN, r \in {<<0, 0>>, <<2, 2>>, <<0, 3>>, <<2, 3>>}}
SomeLists == [pages : ListPages, values : {<<>>}]
             \cup [pages : {<<>>}, values : UNION {[1..n -> {0, 499, 500, 1000, 10000}] : n \in 0..4}]

\* Promotions of two hotels on two nights.
Promotions == UNION {[L -> {10}] : L \in SUBSET {"genius", "deal"}}
PromosOf == UNION {[N -> Promotions] : N \in SUBSET {1, 2}}
SomeHotels == {{[id |-> 1, promos |-> a], [id |-> 2, promos |-> b]} : a, b \in PromosOf}
\* Metrics of the own hotel and of four others, some of them old.
MetricOf(at, status, price) == [at |-> at, status |-> status, minStay |-> 1, left |-> None, price |-> [b \in {"any"} |-> price]]
SomeMetrics == {MetricOf(at, st, p) : at \in {0, 100}, st \in {"available"}, p \in {90, 120}} \cup {MetricOf(60, "sold_out", None)}
SomeCompsets ==
    [metric : [1..5 -> SomeMetrics], own : {1}, comps : {2..5}, basis : {"any"}, now : {120},
     other : {MetricOf(0, "sold_out", None)}]

\* What an insight sees: two hotels, two nights, up to two events.
InsightEvents == [id : {1, 2}, hotel : {1, 2}, night : {0, 1}, age : {10, 30, 200}, type : {"sold_out", "info"}]
SomeEvidence ==
    [hotels : {{1, 2}}, compared : {{}, {1}}, horizon : {2}, limit24 : {1}, limit7 : {2},
     status : UNION {[X -> {"available", "unknown"}] : X \in SUBSET ({1, 2} \X {0, 1})},
     events : {{[e EXCEPT !.id = 1], [f EXCEPT !.id = 2]} : e, f \in InsightEvents}]

=============================================================================

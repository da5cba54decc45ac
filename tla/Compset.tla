------------------------------- MODULE Compset -------------------------------
(***************************************************************************)
(* The competitor set of a hotel for one night (analytics/compset.py): the *)
(* sample, the listed-price index and the rank among the competitors.      *)
(*                                                                         *)
(* A metric: [at, status, minStay, left, price], price a function of the   *)
(* bases; a link of the watchlist: [hotel, own, of, primary, added]; times *)
(* are hours, an index is counted in tenths.                               *)
(***************************************************************************)
EXTENDS Figures

MinSample == 4    \* MIN_SAMPLE
SmallSample == 3  \* SMALL_SAMPLE
StaleAfter == 48  \* STALE_AFTER
LowRooms == 3     \* LOW_STOCK
ReviewEvery == 183 * 24

SampleLevel(n) == IF n >= MinSample THEN "ok" ELSE IF n >= SmallSample THEN "small" ELSE "insufficient"
IsRestricted(m) == m.status = "restricted" \/ (m.status = "available" /\ m.minStay > 1)
PriceRank(own, price) ==
    IF own = None THEN None ELSE 1 + Cardinality({c \in DOMAIN price : price[c] < own})

(* load_compset: the hotel in view, and the competitors of it, or of any.  *)
OwnHotels(links) == {l \in links : l.own}
Focus(links, asked) ==
    LET own == OwnHotels(links)
        first == {l \in own : \A k \in own : l.added <= k.added}
    IN IF asked \in {l.hotel : l \in own} THEN asked
       ELSE IF own = {} THEN None ELSE (CHOOSE l \in first : TRUE).hotel
Competitors(links, asked, primary) ==
    {l.hotel : l \in {k \in links : /\ ~k.own /\ k.primary = primary
                                    /\ k.of = None \/ Focus(links, asked) = None \/ k.of = Focus(links, asked)}}

(* compset_day: metric maps the hotels that have one to it.  "Old" is old  *)
(* beside the newest look of the night.                                    *)
NewestLook(metric, now) ==
    LET stamps == {metric[h].at : h \in DOMAIN metric} IN
    IF stamps = {} THEN now ELSE Min({now, Max(stamps)})
FreshMetricsAny(metric, now) == DOMAIN metric \* Mutant: nothing is too old
FreshMetrics(metric, now) == {h \in DOMAIN metric : NewestLook(metric, now) - metric[h].at <= StaleAfter}
HasPrice(metric, h, basis) ==
    metric[h].status = "available" /\ ~IsRestricted(metric[h]) /\ metric[h].price[basis] # None

CompsetDay(metric, own, comps, basis, now) ==
    LET fresh == FreshMetrics(metric, now)
        observed == {h \in comps \cap fresh : metric[h].status \in {"available", "sold_out", "restricted"}}
        with(P(_)) == Cardinality({h \in observed : P(metric[h])})
        priced == {h \in observed : HasPrice(metric, h, basis)}
        price(h) == metric[h].price[basis]
        sample == SampleLevel(Cardinality(priced))
        med == IF sample = "insufficient" THEN None ELSE Median(priced, price)
        soldOut == with(LAMBDA m : m.status = "sold_out")
        ownPrice == IF own \in fresh /\ HasPrice(metric, own, basis) THEN price(own) ELSE None
    IN [observed |-> Cardinality(observed), soldOut |-> soldOut,
        share |-> IF observed = {} THEN None ELSE HalfEven(100 * soldOut, Cardinality(observed)),
        min |-> LeastOf({price(h) : h \in priced}), median |-> med,
        ownPrice |-> ownPrice, ownStatus |-> IF own \in fresh THEN metric[own].status ELSE "none",
        index |-> IF ownPrice = None \/ med \in {None, 0} THEN None ELSE HalfEven(1000 * ownPrice, med),
        rank |-> IF sample = "insufficient" THEN None ELSE PriceRank(ownPrice, [h \in priced |-> price(h)]),
        priced |-> Cardinality(priced), total |-> Cardinality(comps), sample |-> sample,
        pricedHotels |-> Cardinality(priced) + (IF ownPrice = None THEN 0 ELSE 1),
        restricted |-> with(IsRestricted),
        low |-> with(LAMBDA m : m.status = "available" /\ m.left # None /\ m.left <= LowRooms),
        stale |-> Cardinality((comps \cap DOMAIN metric) \ fresh)]

(* compset_by_day: the hotel in view and its primary competitors, a night. *)
CompsetByDay(links, asked, metrics, nights, basis, now) ==
    LET own == Focus(links, asked)  comps == Competitors(links, asked, TRUE)
        of(n) == [h \in {g \in comps \cup {own} : <<g, n>> \in DOMAIN metrics} |-> metrics[<<h, n>>]]
    IN IF own = None /\ comps = {} THEN << >>
       ELSE [n \in nights |-> CompsetDay(of(n), own, comps, basis, now)]

(* review_compset: the share is rounded to a hundredth before it is        *)
(* compared with a half.                                                   *)
ReviewCompset(comps, rooms, changed, now) ==
    LET known == {h \in comps : h \in DOMAIN rooms /\ rooms[h] > 0}
        most == GreatestOf({rooms[h] : h \in known})
        share == HalfEven(100 * most, SumBy(known, LAMBDA h : rooms[h]))
    IN {w \in {"too_few", "rooms_unknown", "dominant_hotel", "review_due"} :
          CASE w = "too_few" -> Cardinality(comps) < MinSample
            [] w = "rooms_unknown" -> known # comps
            [] w = "dominant_hotel" -> known = comps /\ known # {} /\ share > 50
            [] w = "review_due" -> changed # None /\ now - changed > ReviewEvery}

----------------------------------------------------------------------------
(* A hotel not looked at for two days more than the newest look counts as  *)
(* stale and for nothing else (compset.py STALE_AFTER): whatever its old   *)
(* metric says, the index, the rank, the shares and the sample stay.       *)
StaleIsLeftOut(metric, own, comps, basis, now, other) ==
    CompsetDay(metric, own, comps, basis, now) =
    CompsetDay([h \in DOMAIN metric |->
                   IF NewestLook(metric, now) - metric[h].at <= StaleAfter THEN metric[h]
                   ELSE [other EXCEPT !.at = metric[h].at]],
               own, comps, basis, now)

=============================================================================

----------------------------- MODULE MarketList -----------------------------
(***************************************************************************)
(* What a page of an area's list says and what is kept of it: the cards    *)
(* (marketscan/parser.py), the rows of the area's hotels, prices and       *)
(* reviews (marketscan/upsert.py), and what the dashboard is told of the   *)
(* market (marketscan/stats.py, city.py, api/routers/market_city.py).      *)
(* Prices are integers, shares are counted in ten-thousandths.             *)
(***************************************************************************)
EXTENDS Figures

CoverageTarget == 9800 \* COVERAGE_TARGET
FreshDetail == 96      \* FRESH, in hours

----------------------------------------------------------------------------
(* _apollo_price: what is shown, and the charges named beside it.          *)
ShownPrice(shown, extra) ==
    IF shown = {} \/ \E p \in shown : p.amount = 0 THEN {}
    ELSE {[p EXCEPT !.amount = @ + SumBy({x \in extra : x.currency = p.currency}, LAMBDA x : x.amount)]
            : p \in shown}

(* _apollo_card.  raw: [page, country, id, type, score, reviews, price,    *)
(* extra, badges, ad, preferred]; {} is what is missing.  The name of the  *)
(* card's data is used again for each of its badges, so that of a card     *)
(* with a badge neither id nor type is found.                              *)
ApolloCard(raw) ==
    [slug |-> <<raw.country, raw.page>>,
     external |-> IF raw.badges = << >> THEN raw.id ELSE {},
     type |-> IF raw.badges = << >> THEN raw.type ELSE {},
     score |-> IF raw.reviews = 0 THEN {} ELSE raw.score,
     reviews |-> IF raw.reviews = 0 THEN {} ELSE {raw.reviews},
     price |-> ShownPrice(raw.price, raw.extra),
     ad |-> raw.ad, preferred |-> raw.preferred, badges |-> ToSet(raw.badges)]
ApolloCards(results) ==
    LET good == SelectSeq(results, LAMBDA r : r.page # "" /\ r.country # "")
    IN [i \in DOMAIN good |-> ApolloCard(good[i])]

(* parse_search_page: the store of the page, or a set without one; where   *)
(* it has no cards those of the HTML, with the store's total and day.      *)
SearchPage(store, html) ==
    IF store = {} THEN html
    ELSE LET page == CHOOSE p \in store : TRUE IN
         IF page.cards # << >> THEN page
         ELSE [page EXCEPT !.cards = html.cards, !.total = IF @ = None THEN html.total ELSE @]

----------------------------------------------------------------------------
(* record_page: the first card of each hotel counts.  ranked: a sequence   *)
(* of [hotel, rank, card].                                                 *)
RowsOf(ranked) ==
    {ranked[i] : i \in {j \in DOMAIN ranked : \A k \in 1..(j - 1) : ranked[k].hotel # ranked[j].hotel}}

(* The area's row of a hotel: its best rank in the round of the day.  A    *)
(* page of a slice has no rank to tell, but ends that of an older round.   *)
BestRankKept(row, rank, base, now, start) == \* Mutant: a slice leaves an older rank
    [seen |-> now, best |-> IF ~base THEN row.best ELSE IF row.seen < start THEN rank
                            ELSE LeastOf({row.best, rank})]
BestRank(row, rank, base, now, start) ==
    [seen |-> now,
     best |-> IF base THEN IF row.seen < start THEN rank ELSE LeastOf({row.best, rank})
              ELSE IF row.seen < start THEN None ELSE row.best]

RecordPage(area, ranked, base, now, start) ==
    LET rows == RowsOf(ranked)
        rankOf(h) == (CHOOSE r \in rows : r.hotel = h).rank
    IN [h \in DOMAIN area \cup {r.hotel : r \in rows} |->
          IF h \notin {r.hotel : r \in rows} THEN area[h]
          ELSE IF h \in DOMAIN area THEN BestRank(area[h], rankOf(h), base, now, start)
          ELSE [seen |-> now, best |-> IF base THEN rankOf(h) ELSE None]]

(* market_list_prices: a hotel the night's scan has already is left alone. *)
PriceRows(prices, ranked, currency) ==
    LET rows == {r \in RowsOf(ranked) : r.hotel \notin DOMAIN prices} IN
    [h \in DOMAIN prices \cup {r.hotel : r \in rows} |->
       IF h \in DOMAIN prices THEN prices[h]
       ELSE LET r == CHOOSE x \in rows : x.hotel = h  own == {p \in r.card.price : p.currency = currency}
            IN [rank |-> r.rank, price |-> IF own = {} THEN None ELSE (CHOOSE p \in own : TRUE).amount]]

(* record_reviews: one row a day, the last card seen that says anything.   *)
SaysReviews(card) == card.reviews # {} \/ card.preferred \/ card.badges # {}
Badges(card) == card.badges \cup (IF card.preferred THEN {"preferred"} ELSE {})
                            \cup (IF card.ad THEN {"ad"} ELSE {})
ReviewRows(reviews, ranked, today) ==
    LET rows == {r \in RowsOf(ranked) : SaysReviews(r.card)}
        key(r) == <<r.hotel, today>>
    IN [k \in DOMAIN reviews \cup {key(r) : r \in rows} |->
          IF k \notin {key(r) : r \in rows} THEN reviews[k]
          ELSE LET c == (CHOOSE r \in rows : key(r) = k).card
               IN [score |-> c.score, count |-> c.reviews, badges |-> Badges(c)]]

----------------------------------------------------------------------------
(* percentile: the quarter-th k, between the two nearest; whole, half up.  *)
Percentile(xs, k) ==
    LET pos == (Len(xs) - 1) * k
        low == xs[pos \div 4 + 1]
        high == xs[Min({pos \div 4 + 2, Len(xs)})]
    IN HalfUp(4 * low + (high - low) * (pos % 4), 4)

BucketEdges == <<0, 500, 1000, 1500, 2000, 3000, 5000, 10000>> \* in thousands of VND
BucketAbove(v) == Max({i \in DOMAIN BucketEdges : v > BucketEdges[i]} \cup {0}) \* Mutant: > for >=
BucketOf(v) == Max({i \in DOMAIN BucketEdges : v >= BucketEdges[i]} \cup {1})

\* The values in order.
Sorted(values) ==
    LET p == CHOOSE p \in Surjection(DOMAIN values, DOMAIN values) :
                 \A i, j \in DOMAIN values : i <= j => values[p[i]] <= values[p[j]]
    IN [i \in DOMAIN values |-> values[p[i]]]

PriceStats(values) ==
    LET xs == Sorted(values)  n == Len(xs) IN
    [count |-> n,
     histogram |-> [i \in DOMAIN BucketEdges |-> Cardinality({j \in 1..n : BucketOf(xs[j]) = i})],
     avg |-> IF n = 0 THEN None ELSE HalfUp(SumBy(1..n, LAMBDA j : xs[j]), n),
     p25 |-> IF n = 0 THEN None ELSE Percentile(xs, 1),
     median |-> IF n = 0 THEN None ELSE Percentile(xs, 2),
     p75 |-> IF n = 0 THEN None ELSE Percentile(xs, 3),
     min |-> IF n = 0 THEN None ELSE xs[1], max |-> IF n = 0 THEN None ELSE xs[n]]

----------------------------------------------------------------------------
(* latest_list_scan: the newest completed one, else the newest with cards. *)
ListScan(scans, night) ==
    LET of == {x \in scans : x.night = night /\ (x.status = "completed" \/ x.seen > 0)}
        done == {x \in of : x.status = "completed"}
        among == IF done # {} THEN done ELSE of
    IN {x \in among : \A y \in among : <<y.at, y.id>> = <<x.at, x.id>> \/ y.at < x.at
                                       \/ (y.at = x.at /\ y.id < x.id)}
Coverage(scan) == IF scan.found \in {None, 0} THEN None ELSE Min({10000, (scan.seen * 10000) \div scan.found})
IsSample(scan) == Coverage(scan) = None \/ 100 * scan.seen < 98 * scan.found

(* _available: 0 not known, 1 no, 2 yes.                                   *)
AvailableOn(listed, price, metric, complete) ==
    IF listed /\ price # None THEN 2
    ELSE IF metric = "available" THEN 2
    ELSE IF metric = "sold_out" \/ (~listed /\ complete) THEN 1
    ELSE 0

(* is_reliable and detail_summary: the newest fresh estimate of a hotel.   *)
ReliableEstimate(e) == e.coverage >= 5000 /\ e.high - e.low <= 2000
DetailSummary(metrics, estimates, now) ==
    LET fresh == {m \in metrics : m.at >= now - FreshDetail}
        newest == {e \in estimates : /\ e.at >= now - FreshDetail
                                     /\ \A f \in estimates : f.hotel = e.hotel => f.at <= e.at}
        covered == {e \in newest : ReliableEstimate(e)}
        left == SumBy(covered, LAMBDA e : e.leftLow + e.leftHigh)  \* in halves
        rooms == SumBy(covered, LAMBDA e : e.inventory)
        with(st) == Cardinality({m \in fresh : m.status = st})
    IN [available |-> with("available"), soldOut |-> with("sold_out"),
        withData |-> with("available") + with("sold_out"),
        left |-> HalfEven(left, 2), inventory |-> rooms,
        occupancy |-> IF rooms = 0 THEN None ELSE HalfEven(10000 * (2 * rooms - left), 2 * rooms),
        covered |-> Cardinality(covered)]

(* market_city: the prices of the night's scan in the scan's currency.     *)
CityList(scans, prices, night) ==
    LET scan == ListScan(scans, night)
        of == IF scan = {} THEN << >> ELSE prices[(CHOOSE x \in scan : TRUE).id]
        known == {h \in DOMAIN of : of[h].price \notin {None, 0}}
        seq == SetToSeq(known)
    IN [scan |-> scan, stats |-> PriceStats([i \in DOMAIN seq |-> of[seq[i]].price]),
        sample |-> \A x \in scan : IsSample(x)]

(* city_hotels: a page of the area's hotels, sorted, those without a       *)
(* figure last and the older hotel first among equals.                     *)
CityHotels(area, figure, descending, limit, offset) ==
    LET key(h) == IF figure[h] = None THEN 1000000 ELSE IF descending THEN -figure[h] ELSE figure[h]
        sorted == SetToSortSeq(area, LAMBDA g, h : key(g) < key(h) \/ (key(g) = key(h) /\ g < h))
    IN SubSeq(sorted, offset + 1, Min({offset + limit, Len(sorted)}))

(* clamp_config, create_area, _area: the caps of the server and the area   *)
(* in view.                                                                *)
Clamped(config, maxHotels, maxPages) ==
    [config EXCEPT !.hotels = IF @ = None THEN None ELSE Min({@, maxHotels}),
                   !.pages = IF @ = None THEN None ELSE Min({@, maxPages})]
MayCreate(areas, new, operator, cap) ==
    /\ operator \/ Cardinality({a \in areas : a.tenant = new.tenant}) < cap
    /\ \A a \in areas : <<a.tenant, a.dest>> # <<new.tenant, new.dest>>
AreaInView(areas, tenant, asked) ==
    LET own == {a \in areas : a.tenant = tenant}
        first == IF \E a \in own : a.active THEN {a \in own : a.active} ELSE own
    IN IF asked # None THEN {a \in own : a.id = asked} ELSE {a \in first : \A b \in first : a.id <= b.id}

(* SearchThrottle.allow: calls are counted by the minute.                  *)
ThrottleAllows(calls, minute, limit) ==
    Cardinality({i \in DOMAIN calls : calls[i] = minute}) < (IF limit < 1 THEN 1 ELSE limit)

----------------------------------------------------------------------------
(* pages: a sequence of [ranked, base, now, start] in the order they are   *)
(* recorded; the area's rows after them all.                               *)
AreaAfter(pages) ==
    FoldLeft(LAMBDA area, p : RecordPage(area, p.ranked, p.base, p.now, p.start), << >>, pages)

(* After any pages of slices and rounds the best rank is the best one the  *)
(* round of the hotel's last page had for it on a page in default order.   *)
BestRankIsBest(pages) ==
    LET area == AreaAfter(pages) IN
    \A h \in DOMAIN area :
        LET shows(i) == {r \in RowsOf(pages[i].ranked) : r.hotel = h}
            last == Max({i \in DOMAIN pages : shows(i) # {}})
            round == {i \in 1..last : pages[i].base /\ pages[i].now >= pages[last].start}
        IN area[h].best = LeastOf({r.rank : r \in UNION {shows(i) : i \in round}})

(* The quartiles lie between the extremes, in order, and every price is in *)
(* one bucket of the histogram, the cheapest and the dearest, too.         *)
StatsAgree(values) ==
    LET st == PriceStats(values) IN
    /\ values # << >> => /\ st.min <= st.p25 /\ st.p25 <= st.median /\ st.median <= st.p75 /\ st.p75 <= st.max
                         /\ st.min <= st.avg /\ st.avg <= st.max
    /\ SumBy(DOMAIN BucketEdges, LAMBDA i : st.histogram[i]) = Len(values)

(* A card names the hotel it is of, whatever badges it carries.            *)
CardKeepsIdentity(raw) == ApolloCard(raw).external = raw.id

=============================================================================

------------------------------- MODULE Analysis ------------------------------
(***************************************************************************)
(* What the functions of the analysis promise of every input they may be   *)
(* given.  A state is one input of one of them, and stays as it is.  The   *)
(* constants are the inputs looked at.                                     *)
(***************************************************************************)
EXTENDS Pacing, OnTheBooks, AlertRules, Radar, MarketList, InsightEvidence, Compset

CONSTANTS
    StockInputs,    \* [rooms, before]: the rooms two scans saw
    PriceInputs,    \* [night, strategy]: the signals of a night and a strategy
    OtbInputs,      \* sequences of rows of one night's bookings
    PaceInputs,     \* [night, lead, now, curves, others, holidays]
    BookInputs,     \* [table, today]: the lines of a booking file and the day it is read
    AlertInputs,    \* [rules, events, market, target]
    ListInputs,     \* [pages, values]: pages of an area's list, and prices
    RadarInputs,    \* sets of hotels: [id, promos]
    CompsetInputs,  \* [metric, own, comps, basis, now, other]
    EvidenceInputs  \* [hotels, horizon, status, events, limit24, limit7]

VARIABLES
    kind, \* the function looked at
    input \* its arguments

----------------------------------------------------------------------------
(* An input a function may be given: what the code that calls it makes     *)
(* sure of.                                                                *)
(* The rows of a night's bookings are read one after the other.            *)
IsOtb(rows) == rows \in Seq([lead : Int, rooms : Int, capacity : Int])

(* Of a run an event has its own id, and a hotel's room has one of a type  *)
(* a night at most: the keys of availability_events.  A change of status   *)
(* is one change (analytics/rules.py).                                     *)
IsAlerts(events) ==
    /\ \A e \in events : e.id \in Nat /\ e.stay \in Int
    /\ \A e, f \in events : e.id = f.id => e = f
    /\ \A e, f \in events : e.hotel = f.hotel /\ e.room = f.room /\ e.stay = f.stay /\ e.type = f.type => e = f
    /\ \A e, f \in events :
           e.hotel = f.hotel /\ e.stay = f.stay /\ e.type = "sold_out" => f.type # "restricted"

(* The status of a metric is never the word for a night without one, and   *)
(* the hotels compared are of the watchlist.                               *)
IsEvidence(x) == x.compared \subseteq x.hotels /\ \A k \in DOMAIN x.status : x.status[k] # "no_data"

(* What a scan sees of a room type comes from a badge and a dropdown       *)
(* (domain/stock.py derive_stock), and one room of a type is kept of a     *)
(* scan (by_type, market/occupancy.py).                                    *)
IsRoom(r) ==
    /\ r.dropdown \in Nat \cup {None}
    /\ \E badge \in {None, 0, r.left} :
           /\ badge \in Nat \cup {None}
           /\ r.confidence = DeriveStock(badge, r.dropdown, r.scope).confidence
           /\ r.left = DeriveStock(badge, r.dropdown, r.scope).left
IsStock(x) ==
    /\ IsFiniteSet(x.rooms \cup x.before)
    /\ \A r \in x.rooms \cup x.before : IsRoom(r)
    /\ \A r, s \in x.rooms : r.type = s.type /\ r.scope = "room_type" /\ s.scope = "room_type" => r = s

(* A strategy is what StrategyIn lets through (api/routers/market.py), with *)
(* shares in hundredths; a night's signals are NightSignals                *)
(* (market/price_suggest.py), counts and prices never below zero.          *)
IsStrategy(st) ==
    /\ {st.target, st.roundTo, st.maxChange} \subseteq Nat
    /\ {st.base, st.floor, st.ceiling} \subseteq Nat \cup {None}
    /\ {st.weekday, st.holidayUplift, st.lastDays, st.lastAdj} \subseteq Int

IsNight(n) ==
    /\ n = [status |-> n.status, ownPrice |-> n.ownPrice, roomsLeft |-> n.roomsLeft, ownOcc |-> n.ownOcc,
            occSource |-> n.occSource, observed |-> n.observed, soldOut |-> n.soldOut, low |-> n.low,
            compMedian |-> n.compMedian, compPriced |-> n.compPriced, compOcc |-> n.compOcc,
            compPace |-> n.compPace, pace4w |-> n.pace4w, capacity |-> n.capacity, holiday |-> n.holiday,
            uplift |-> n.uplift, days |-> n.days, peak |-> n.peak, ownIndex |-> n.ownIndex]
    /\ {n.ownPrice, n.compMedian} \subseteq Nat \cup {None}
    /\ {n.observed, n.soldOut, n.low} \subseteq Nat
    /\ {n.roomsLeft, n.ownOcc, n.compPriced, n.compOcc, n.compPace, n.pace4w, n.capacity, n.uplift, n.days} \subseteq Int

(* A booking file has dates and whole numbers of rooms, which the parser   *)
(* does not look at any closer (pms/otb.py parse_bookings).                *)
BookingLine ==
    [booked : Nat, arrival : Nat, departure : Nat, rooms : Int, cancel : Nat \cup {None},
     status : {"ok", "cancelled"}, group : BOOLEAN]
IsBooks(x) == x.table \in Seq(BookingLine) /\ x.today \in Nat

(* The pages of an area's list are recorded one after the other: a round   *)
(* is a chain of jobs, and one that finds a newer round stops              *)
(* (marketscan/jobs.py), so that a round begins after the pages of the     *)
(* last one.  What a card says but its hotel and rank does not matter.     *)
Card == [hotel : Int, rank : Nat]
Page == [ranked : Seq(Card), base : BOOLEAN, now : Int, start : Int]
IsPages(pages) ==
    /\ pages \in Seq(Page)
    /\ \A i \in DOMAIN pages : pages[i].start <= pages[i].now
    /\ \A i, j \in DOMAIN pages :
           i < j => /\ pages[i].now <= pages[j].now
                    /\ pages[i].start = pages[j].start \/ pages[i].now < pages[j].start

(* A metric is a row with these columns.                                   *)
IsMetric(m) == m = [at |-> m.at, status |-> m.status, minStay |-> m.minStay, left |-> m.left, price |-> m.price]

ASSUME AnalysisInputs ==
    /\ \A x \in StockInputs : IsStock(x)
    /\ \A x \in PriceInputs : IsNight(x.night) /\ IsStrategy(x.strategy)
    /\ \A x \in OtbInputs : IsOtb(x)
    /\ \A x \in BookInputs : IsBooks(x)
    /\ \A x \in AlertInputs : IsAlerts(x.events)
    /\ \A x \in ListInputs : IsPages(x.pages) /\ x.values \in Seq(Nat)
    /\ \A x \in CompsetInputs : IsMetric(x.other)
    /\ \A x \in EvidenceInputs : IsEvidence(x)

----------------------------------------------------------------------------
FiguresInit ==
    \/ kind = "stock" /\ input \in StockInputs
    \/ kind = "price" /\ input \in PriceInputs
    \/ kind = "otb" /\ input \in OtbInputs
    \/ kind = "pace" /\ input \in PaceInputs
    \/ kind = "books" /\ input \in BookInputs
    \/ kind = "alerts" /\ input \in AlertInputs
    \/ kind = "list" /\ input \in ListInputs
    \/ kind = "radar" /\ input \in RadarInputs
    \/ kind = "compset" /\ input \in CompsetInputs
    \/ kind = "evidence" /\ input \in EvidenceInputs
FiguresNext == UNCHANGED <<kind, input>>
FiguresSpec == FiguresInit /\ [][FiguresNext]_<<kind, input>>

----------------------------------------------------------------------------
(* The estimate of the rooms left is the tightest bound the page allows:   *)
(* hidden rooms and capped dropdowns widen it, a badge does not            *)
(* (occupancy.py).                                                         *)
EstimatesAreTight == kind = "stock" => EstimateIsTight(input.rooms, input.before)

(* The price of a night that is tight for a reason of its own is lowered   *)
(* by the ceiling and the last rounding alone, and more demand never       *)
(* suggests less (price_suggest.py).                                       *)
PricesAreHeld ==
    kind = "price" => TightIsHeld(input.night, input.strategy) /\ DemandRaises(input.night, input.strategy)

(* What price_suggest.py says of itself: a tight night is never advised a  *)
(* lower price.                                                            *)
TightIsNeverLowered == kind = "price" => NeverLowered(input.night, input.strategy)

(* The pace of a night compares its newest snapshot with nights of its own *)
(* weekday that are no holidays, whatever order the rows come in           *)
(* (pace_report.py).                                                       *)
PaceIsFair ==
    /\ kind = "otb" => OtbIsLatest(input)
    /\ kind = "pace" => PaceIgnoresHolidays(input.night, input.lead, input.now, input.curves, input.others, input.holidays)

(* Rebuilt from a booking file, the rows on the books are what daily       *)
(* snapshots would have been, cancellations taken back on their day        *)
(* (pms/otb.py).                                                           *)
BooksAreReplayed == kind = "books" => RebuildIsReplay(input.table, input.today)

(* No event worth an alert is lost when alerts are grouped, and none is    *)
(* told twice (alert_rules.py).                                            *)
AlertsAreComplete ==
    kind = "alerts" => AlertsAreKept(input.rules, input.events, input.market, input.target)

(* An insight may only cite what its input holds: references to hotels,    *)
(* nights and events are rebuilt from it (insight/service.py).             *)
EvidenceIsInput ==
    kind = "evidence" =>
        RebuiltInput(BuildInput(input.hotels, input.compared, input.horizon, input.status, input.events, input.limit24, input.limit7))

(* What the list tells of the market agrees with the rows it rests on: the *)
(* best rank of a round, and the quartiles and buckets of its prices       *)
(* (marketscan/upsert.py, marketscan/stats.py).                            *)
ListIsTrue == kind = "list" => BestRankIsBest(input.pages) /\ StatsAgree(input.values)

(* The two readings of the competitors' promotions agree (market/radar.py).*)
PromotionsAgree == kind = "radar" => SharesAgree(input)

(* What is said of a competitor set does not depend on its stale hotels    *)
(* (analytics/compset.py).                                                 *)
CompsetIsFresh ==
    kind = "compset" =>
        StaleIsLeftOut(input.metric, input.own, input.comps, input.basis, input.now, input.other)

(* What is told of the nights booked: the snapshots a file is turned into, *)
(* and the newest of them and its pace (pms/otb.py, market/pace_report.py).*)
BookedIsTrue == BooksAreReplayed /\ PaceIsFair

(* What is told of the market rests on all its pages, on every promotion   *)
(* and on fresh metrics only (marketscan/, market/radar.py,                *)
(* analytics/compset.py).                                                  *)
MarketIsTold == ListIsTrue /\ PromotionsAgree /\ CompsetIsFresh

=============================================================================

------------------------------- MODULE Pacing -------------------------------
(***************************************************************************)
(* The booking pace of a night and the report of a tenant's nights         *)
(* (market/pacing.py, market/pace_report.py).  Days are integers, a week   *)
(* has seven of them; a curve is a function from the days before arrival   *)
(* (lead) to an occupancy, in hundredths of a percent; an observation is   *)
(* an occupancy estimate, a record with its lead and scan.                 *)
(***************************************************************************)
EXTENDS Occupancy, PriceSuggest

Weeks == 1..8
MinReferences == 2
LeadTolerance == 1

(* occ_at_lead: at the lead, a day earlier, a day later.                   *)
Nearest(curve, leads) ==
    LET at == SelectSeq(leads, LAMBDA d : d \in DOMAIN curve) IN IF at = <<>> THEN None ELSE curve[at[1]]
OccAtLead(curve, lead) == Nearest(curve, <<lead, lead + 1, lead - 1>>)

(* pace: the nights of the same weekday in the weeks before that are       *)
(* holidays as it is, or are not; enough of them.                          *)
NoPace == [reference |-> None, references |-> 0, delta |-> None]

ComparableAny(night, m, holidays) == TRUE \* Mutant: holidays are compared with other nights
Comparable(night, m, holidays) == (m \in holidays) = (night \in holidays)

Pace(night, lead, now, curves, holidays) ==
    LET at(w) == OccAtLead(curves[night - 7 * w], lead)
        refs == {w \in Weeks : /\ Comparable(night, night - 7 * w, holidays)
                               /\ night - 7 * w \in DOMAIN curves /\ at(w) # None}
        ref == Median(refs, at)
    IN  IF Cardinality(refs) < MinReferences THEN [NoPace EXCEPT !.references = Cardinality(refs)]
        ELSE [reference |-> ref, references |-> Cardinality(refs), delta |-> IF now = None THEN None ELSE now - ref]

(* compset_curve: the median of the competitors, two at least.             *)
CompsetCurve(curveOf, comps) ==
    LET at(d) == {c \in comps : d \in DOMAIN curveOf[c]} IN
    [d \in {x \in UNION {DOMAIN curveOf[c] : c \in comps} : Cardinality(at(x)) >= 2} |->
        Median(at(d), LAMBDA c : curveOf[c][d])]

(* calibrate, calibrate_by_lead: the error of the estimates against the    *)
(* hotel's own figures, in tenths of a point; usable when small enough.    *)
Buckets == {<<0, 7>>, <<8, 30>>, <<31, 90>>}
MaxUsableError == 200
Calibrate(pairs) ==
    LET n == Cardinality(pairs) IN
    IF n = 0 THEN [nights |-> 0, error |-> None, bias |-> None]
    ELSE [nights |-> n, error |-> HalfEven(SumBy(pairs, LAMBDA p : Abs(p.est - p.real)), 10 * n),
          bias |-> HalfEven(SumBy(pairs, LAMBDA p : p.est - p.real), 10 * n)]
CalibrateByLead(triples) ==
    [b \in Buckets |->
        LET c == Calibrate({t \in triples : t.lead \in b[1]..b[2]}) IN
        [nights |-> c.nights, error |-> c.error, bias |-> c.bias, usable |-> c.error # None /\ c.error <= MaxUsableError]]

----------------------------------------------------------------------------
(* _observations: of each (hotel, night, lead) the newest scan.            *)
NewestOfLead(S) == {o \in S : \A p \in S : p.lead = o.lead => p.at <= o.at}
LastSeen(S) == CHOOSE o \in S : \A p \in S : p.at <= o.at
CurveOf(S) == LET R == {o \in S : Reliable(o)} IN [d \in {o.lead : o \in R} |->
    LET o == CHOOSE x \in R : x.lead = d IN HalfEven(OccLow(o) + OccHigh(o), 2)]

(* _pickup_7d: rooms sold in a week, from the middle of the rooms left.    *)
Pickup7d(S) ==
    LET now == LastSeen(S)
        then == SelectSeq(<<now.lead + 7, now.lead + 8, now.lead + 6>>, LAMBDA d : \E o \in S : Reliable(o) /\ o.lead = d)
        before == CHOOSE o \in S : Reliable(o) /\ o.lead = then[1]
    IN  IF S = {} \/ ~Reliable(now) \/ then = <<>> THEN None
        ELSE HalfEven((before.low + before.high) - (now.low + now.high), 2)

(* typical_index: the hotel's usual position, over the nights on which     *)
(* three competitors have a price for one night, within bounds.  An index  *)
(* is kept in ten thousandths of a percent; half the sum of two is rounded *)
(* to hundredths, and the position to percents.                            *)
IndexUnit == 10000
Comparables(metrics) == {m \in metrics : m.status = "available" /\ m.minStay = 1 /\ m.price # None}
TypicalIndex(own, comps) ==
    LET middle(d) == Median({m \in Comparables(comps) : m.night = d}, LAMBDA x : x.price)
        nights == {m \in Comparables(own) : /\ Cardinality({x \in Comparables(comps) : x.night = m.night}) >= 3
                                            /\ middle(m.night) > 0}
        i == Median(nights, LAMBDA m : HalfEven(m.price * 100 * IndexUnit, middle(m.night)))
        mid == IF Cardinality(nights) % 2 = 0 THEN HalfEven(i, IndexUnit \div 100) * (IndexUnit \div 100) ELSE i
    IN  IF nights = {} THEN None ELSE Clamp(HalfEven(mid, IndexUnit), 50, 200)

(* strategy_from: a hotel without a strategy gets the default one, aimed   *)
(* at its usual position if that is known.                                 *)
DefaultStrategy ==
    [base |-> None, floor |-> None, ceiling |-> None, target |-> 100, roundTo |-> 10000, maxChange |-> 15,
     weekday |-> 0, holidayUplift |-> 10, lastDays |-> 3, lastAdj |-> -5, source |-> "default"]
StrategyFrom(stored, typical) ==
    IF stored # <<>> THEN [stored[1] EXCEPT !.source = "strategy"]
    ELSE IF typical = None THEN DefaultStrategy
    ELSE [DefaultStrategy EXCEPT !.target = typical, !.source = "typical"]

(* The rows of a night's bookings are read in no particular order: the     *)
(* latest snapshot's rooms and capacity are kept.                          *)
OtbFirst(seen, row) == IF seen.latest = <<>> THEN row ELSE seen.latest[1] \* Mutant: the first row stays
OtbLatest(seen, row) ==
    IF seen.latest = <<>> \/ row.lead <= Min(seen.leads \cup {row.lead}) THEN row ELSE seen.latest[1]
ReadOtb(rows) ==
    FoldLeft(LAMBDA seen, row : [leads |-> seen.leads \cup {row.lead}, latest |-> <<OtbLatest(seen, row)>>],
             [leads |-> {}, latest |-> <<>>], rows).latest

(* What is known of the own hotel's occupancy, the best source first: its  *)
(* bookings, its PMS, the estimate.                                        *)
OwnOcc(otb, pms, est) ==
    IF otb # <<>> /\ otb[1].capacity \notin {None, 0}
    THEN [occ |-> HalfEven(otb[1].rooms * 10000, otb[1].capacity), source |-> "otb"]
    ELSE IF pms # None THEN [occ |-> pms, source |-> "pms"]
    ELSE IF est # {} /\ Reliable(LastSeen(est))
         THEN LET o == LastSeen(est) IN [occ |-> HalfEven(OccLow(o) + OccHigh(o), 2), source |-> "estimate"]
    ELSE [occ |-> None, source |-> ""]

(* Rooms more than four weeks earlier at the same lead, or a day before.   *)
Pace4w(otb, reference, lead) ==
    IF otb = <<>> THEN None
    ELSE LET ref == Nearest(reference, <<lead, lead + 1>>) IN IF ref = None THEN None ELSE otb[1].rooms - ref

(* The signals of one night: x holds what the database has of it.          *)
NightSignals(x) ==
    LET own == OwnOcc(x.otb, x.pms, x.ownObs)
        seen == {m \in x.comps : m.status # "unknown"}
        priced == {m \in seen : m.price # None /\ m.status = "available" /\ m.minStay \in {1, None}}
        median == IF Cardinality(priced) >= 3 THEN Median(priced, LAMBDA m : m.price) ELSE None
        obs == {S \in x.compObs : S # {} /\ Reliable(LastSeen(S))}
        curve == x.compCurve
        lead == Min(DOMAIN curve)
    IN  [status |-> x.own.status, ownPrice |-> x.own.price, roomsLeft |-> x.own.rooms, ownOcc |-> own.occ, occSource |-> own.source,
         observed |-> Cardinality(seen), soldOut |-> Cardinality({m \in seen : m.status = "sold_out"}),
         low |-> Cardinality({m \in seen : m.status = "available" /\ m.rooms # None /\ m.rooms <= 3}),
         compMedian |-> median, compPriced |-> Cardinality(priced),
         compOcc |-> IF Cardinality(obs) < 2 THEN None
                     ELSE Median(obs, LAMBDA S : HalfEven(OccLow(LastSeen(S)) + OccHigh(LastSeen(S)), 2)),
         compPace |-> IF DOMAIN curve = {} THEN None ELSE Pace(x.night, lead, curve[lead], x.compCurves, x.holidays).delta,
         pace4w |-> Pace4w(x.otb, x.otbRef, x.night - x.today),
         capacity |-> IF x.otb = <<>> THEN None ELSE x.otb[1].capacity,
         holiday |-> x.night \in x.holidays, uplift |-> x.uplift, days |-> x.night - x.today, peak |-> x.peak,
         ownIndex |-> IF x.own.price \in {None, 0} \/ median \in {None, 0} THEN None
                      ELSE HalfEven(x.own.price * 1000, median)]

(* The nights of the last 60 days that the PMS knows, against the last     *)
(* reliable estimate before them, at most two days ahead; and, for each    *)
(* span of leads, against the last of that span.                           *)
Reliables(S) == {o \in S : Reliable(o)}
CalibrationDays == 60
Against(n, o, real) == [night |-> n, lead |-> o.lead, est |-> HalfEven(OccLow(o) + OccHigh(o), 2), real |-> real]
Calibrated(pms, obs) == {n \in DOMAIN pms : n \in DOMAIN obs /\ Reliables(obs[n]) # {}}
CalibrationPairs(pms, obs, today) ==
    {Against(n, LastSeen(Reliables(obs[n])), pms[n]) :
        n \in {x \in Calibrated(pms, obs) : x \in (today - CalibrationDays)..(today - 1) /\ LastSeen(Reliables(obs[x])).lead <= 2}}
CalibrationTriples(pms, obs, today) ==
    UNION {LET span == {o \in Reliables(obs[x[1]]) : o.lead \in x[2][1]..x[2][2]} IN
           {Against(x[1], o, pms[x[1]]) : o \in {y \in span : \A z \in span : y.lead <= z.lead}} :
              x \in {n \in Calibrated(pms, obs) : n \in (today - CalibrationDays)..(today - 1)} \X Buckets}

(* What was decided holds as long as the suggestion is the same.           *)
Decision(stored, sug) == IF stored = <<>> \/ stored[1].change # sug.change THEN "" ELSE stored[1].decision

----------------------------------------------------------------------------
(* Whatever the order in which the snapshots of a night are read, the      *)
(* rooms counted as booked are those of its latest one (pace_report.py     *)
(* build_pace_report, a query without an order).                           *)
OtbIsLatest(rows) ==
    rows # <<>> => \A i \in DOMAIN rows : ReadOtb(rows)[1].lead <= rows[i].lead

(* A holiday's bookings say nothing of an ordinary night: its pace does    *)
(* not change when the holidays of the weeks before do (pacing.py pace).   *)
PaceIgnoresHolidays(night, lead, now, curves, others, holidays) ==
    night \notin holidays =>
        Pace(night, lead, now, curves, holidays)
          = Pace(night, lead, now, [m \in DOMAIN curves |-> IF m \in holidays THEN others ELSE curves[m]], holidays)

=============================================================================

----------------------------- MODULE OnTheBooks -----------------------------
(***************************************************************************)
(* The hotel's own bookings: the daily file of a PMS, the bookings "on the *)
(* books" (OTB) and what is read off them (pms/otb.py, pms/csv_adapter.py, *)
(* api/routers/pms.py, api/routers/otb.py).  Days are integers.  A booking *)
(* is [booked, arrival, departure, rooms, cancel, group]; a snapshot row   *)
(* is keyed by the day it was taken (asOf) and the night (stay).           *)
(* Revenue goes along with the rooms and is left out.                      *)
(***************************************************************************)
EXTENDS Figures

CONSTANTS MaxLead, HistoryWeeks, MaxRefs  \* MAX_LEAD, and forecast_pickup's 52 weeks and max_refs

ASSUME OtbBounds == {MaxLead, HistoryWeeks, MaxRefs} \subseteq Nat

----------------------------------------------------------------------------
(* parse_bookings, of the lines of a file, which may be equal: a booking   *)
(* that leaves before it arrives is refused; a cancellation of unknown     *)
(* date is dated on the day of the booking.  A booking keeps its line, so  *)
(* that two lines alike are two bookings, as in the list of the code.      *)
Refused(raw) == raw.departure <= raw.arrival
ReadBooking(raw, line) ==
    [line |-> line, booked |-> raw.booked, arrival |-> raw.arrival, departure |-> raw.departure,
     rooms |-> IF raw.rooms \in {None, 0} THEN 1 ELSE raw.rooms, group |-> raw.group,
     cancel |-> IF raw.cancel = None /\ raw.status = "cancelled" THEN raw.booked ELSE raw.cancel]
ParseBookings(table) == {ReadBooking(table[i], i) : i \in {j \in DOMAIN table : ~Refused(table[j])}}

(* rebuild_snapshots: what each booking adds to a night on its day, and    *)
(* takes away on the day it is cancelled, summed up to each day of the     *)
(* window; a night too far ahead has the row of today alone.               *)
TakesBackNone(b) == {} \* Mutant: a cancellation takes nothing away
TakesBack(b) ==
    IF b.cancel = None THEN {}
    ELSE {[of |-> b, day |-> b.cancel, rooms |-> -b.rooms, cancelled |-> b.rooms, group |-> IF b.group THEN -b.rooms ELSE 0]}
Deltas(b) ==
    {[of |-> b, day |-> b.booked, rooms |-> b.rooms, cancelled |-> 0, group |-> IF b.group THEN b.rooms ELSE 0]} \cup TakesBack(b)

RebuildSnapshots(bookings, today, capacity) ==
    LET events(n) == UNION {Deltas(b) : b \in {x \in bookings : n \in x.arrival..(x.departure - 1)}}
        nights == UNION {b.arrival..(b.departure - 1) : b \in bookings}
        upTo(n, day) == {e \in events(n) : e.day <= day}
        days(n) == LET last == LeastOf({n, today}) IN LeastOf({n - MaxLead, last})..last
        row(n, day) == [asOf |-> day, stay |-> n, rooms |-> Max({0, SumBy(upTo(n, day), LAMBDA e : e.rooms)}),
                        cancelled |-> SumBy(upTo(n, day), LAMBDA e : e.cancelled),
                        group |-> LET g == SumBy(upTo(n, day), LAMBDA e : e.group) IN IF g > 0 THEN g ELSE None,
                        capacity |-> capacity]
        told(n, day) == SumBy(upTo(n, day), LAMBDA e : e.rooms) # 0 \/ row(n, day).cancelled # 0
    IN  UNION {{row(n, day) : day \in {d \in days(n) : told(n, d)}} : n \in nights}

(* parse_otb_report: a row without rooms is refused; its day is that of    *)
(* the file unless it has one.                                             *)
ParseOtbReport(table, asOf) ==
    {[r EXCEPT !.asOf = IF @ = None THEN asOf ELSE @] : r \in {x \in table : x.rooms # None /\ x.rooms >= 0}}

(* import_otb: only for an own hotel; rows with the same key are replaced, *)
(* the others stay.                                                        *)
ImportOtb(table, rows, capacity) ==
    LET kept == {t \in table : \A r \in rows : <<r.asOf, r.stay>> # <<t.asOf, t.stay>>} IN
    kept \cup {[r EXCEPT !.capacity = IF @ \in {None, 0} THEN capacity ELSE @] : r \in rows}
ImportStatus(read, ok, errors) ==
    IF ok = 0 /\ read > 0 THEN "failed" ELSE IF errors # {} THEN "partial" ELSE "completed"

----------------------------------------------------------------------------
(* CsvAdapter.parse of one row of the PMS file: sold and available rooms   *)
(* are derived from each other; more sold than there are, or an occupancy  *)
(* out of range, refuses the row, as does a night seen before.             *)
ReadDaily(raw) ==
    LET avail == IF raw.available = None /\ None \notin {raw.total, raw.sold} THEN raw.total - raw.sold ELSE raw.available
        sold == IF raw.sold = None /\ None \notin {raw.total, avail} THEN raw.total - avail ELSE raw.sold
        occ == IF raw.occ = None /\ raw.total \notin {None, 0} /\ sold # None THEN HalfEven(sold * 10000, raw.total) ELSE raw.occ
    IN  [stay |-> raw.stay, total |-> raw.total, sold |-> sold, available |-> avail, occ |-> occ,
         ok |-> (raw.total = None \/ sold = None \/ sold <= raw.total) /\ (occ = None \/ occ \in 0..10000)]
ParseDaily(table) == \* table is a sequence
    FoldLeft(LAMBDA rows, raw : IF ReadDaily(raw).ok /\ \A r \in rows : r.stay # raw.stay
                                THEN rows \cup {ReadDaily(raw)} ELSE rows, {}, table)
ImportDaily(stored, rows) == {d \in stored : \A r \in rows : r.stay # d.stay} \cup rows

(* effective_mapping: a stored column counts only if the file has it.      *)
EffectiveMapping(stored, suggested, columns) ==
    [c \in {x \in DOMAIN stored : stored[x] \in columns} \cup DOMAIN suggested |->
        IF c \in DOMAIN stored /\ stored[c] \in columns THEN stored[c] ELSE suggested[c]]

----------------------------------------------------------------------------
(* build_curves, otb_at: the rooms of a night by the days before arrival;  *)
(* a missing day is read a day earlier.                                    *)
BuildCurves(rows) ==
    [n \in {r.stay : r \in {x \in rows : x.stay >= x.asOf}} |->
        [d \in {n - r.asOf : r \in {x \in rows : x.stay = n /\ n >= x.asOf}} |->
            (CHOOSE r \in rows : r.stay = n /\ r.asOf = n - d).rooms]]
OtbAtLater(curve, lead) == \* Mutant: a missing day is read a day later
    IF lead \in DOMAIN curve THEN curve[lead] ELSE IF lead - 1 \in DOMAIN curve THEN curve[lead - 1] ELSE None
OtbAt(curve, lead) ==
    IF lead \in DOMAIN curve THEN curve[lead] ELSE IF lead + 1 \in DOMAIN curve THEN curve[lead + 1] ELSE None
CurveAt(curves, n) == IF n \in DOMAIN curves THEN curves[n] ELSE [d \in {} |-> 0]
Minus(a, b) == IF None \in {a, b} THEN None ELSE a - b

(* forecast_pickup: the rooms that the same weekdays of the past still     *)
(* gained from this lead on, the last ones, on average.                    *)
ForecastPickup(curves, stay, lead) ==
    LET past(w) == CurveAt(curves, stay - 7 * w)
        full == {w \in 1..HistoryWeeks : 0 \in DOMAIN past(w) /\ OtbAt(past(w), lead) # None}
        refs == {w \in full : Cardinality({v \in full : v < w}) < MaxRefs}
    IN  IF refs = {} THEN None
        ELSE HalfEven(SumBy(refs, LAMBDA w : past(w)[0] - OtbAt(past(w), lead)), Cardinality(refs))

OtbNight(curves, stay, today, capacity) ==
    LET lead == stay - today
        curve == CurveAt(curves, stay)
        ahead(c) == IF lead < 0 THEN None ELSE OtbAt(c, lead)
        now == IF lead >= 0 THEN OtbAt(curve, lead) ELSE IF 0 \in DOMAIN curve THEN curve[0] ELSE None
        gain == ForecastPickup(curves, stay, lead)
        forecast == IF now = None \/ lead <= 0 THEN now
                    ELSE IF gain = None THEN None
                    ELSE LET f == Max({now, now + gain}) IN IF capacity \in {None, 0} THEN f ELSE Min({f, capacity})
    IN  [now |-> now, pickup1d |-> Minus(now, OtbAt(curve, lead + 1)), pickup7d |-> Minus(now, OtbAt(curve, lead + 7)),
         pace4w |-> Minus(now, ahead(CurveAt(curves, stay - 28))), stly |-> ahead(CurveAt(curves, stay - 364)),
         paceStly |-> Minus(now, ahead(CurveAt(curves, stay - 364))), forecast |-> forecast]

(* otb_view: of a night's rows up to today, the latest gives its capacity. *)
LatestRow(rows, n, today) ==
    LET seen == {r \in rows : r.stay = n /\ r.asOf <= today} IN {r \in seen : \A q \in seen : q.asOf <= r.asOf}
OtbView(rows, from, to, today) ==
    [n \in from..to |->
        LET cap == IF LatestRow(rows, n, today) = {} THEN None ELSE (CHOOSE r \in LatestRow(rows, n, today) : TRUE).capacity
        IN  OtbNight(BuildCurves(rows), n, today, cap)]

(* kpis: over the nights that have all the figures.                        *)
Kpis(days) ==
    LET full == {d \in days : d.sold # None /\ d.total \notin {None, 0}}
        sold == SumBy(full, LAMBDA d : d.sold)
        total == SumBy(full, LAMBDA d : d.total)
    IN  [nights |-> Cardinality(full), sold |-> sold, occ |-> IF total = 0 THEN None ELSE HalfEven(sold * 1000, total)]
ActualKpis(daily, today) ==
    Kpis({[stay |-> d.stay, sold |-> d.sold,
           total |-> IF d.total \notin {None, 0} THEN d.total
                     ELSE IF d.available = None THEN None
                     ELSE (IF d.sold = None THEN 0 ELSE d.sold) + d.available] :
            d \in {x \in daily : x.stay \in (today - 30)..(today - 1)}})

----------------------------------------------------------------------------
Stands(b, n, day) == n \in b.arrival..(b.departure - 1) /\ b.booked <= day /\ (b.cancel = None \/ b.cancel > day)

(* The books of any past day, rebuilt from today's file, are those the     *)
(* hotel had that day: the rooms of the bookings made by then and not yet  *)
(* cancelled, for every night (pms/otb.py rebuild_snapshots); and the      *)
(* pickup read off them is the bookings and cancellations between.  So it  *)
(* is where a booking is of a room at least, and not cancelled before it   *)
(* is made.                                                                *)
RebuildIsReplay(table, today) ==
    LET bookings == ParseBookings(table)
        rows == RebuildSnapshots(bookings, today, None)
        held(n, day) == SumBy({b \in bookings : Stands(b, n, day)}, LAMBDA b : b.rooms)
        gained(n) == OtbNight(BuildCurves({r \in rows : r.stay = n}), n, today, None).pickup1d
    IN  (\A b \in bookings : (b.cancel = None \/ b.cancel >= b.booked) /\ b.rooms > 0) =>
        /\ \A r \in rows : r.rooms = held(r.stay, r.asOf)
        /\ \A n \in {r.stay : r \in {x \in rows : x.asOf = today}} :
               gained(n) \in {None, held(n, today) - held(n, today - 1)}

=============================================================================

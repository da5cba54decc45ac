---------------------------- MODULE AnalyticsProofs ----------------------------
(*****************************************************************************)
(* Proofs about Analytics, for any number of runs, slots, tries and faults,  *)
(* whatever the runs find of the night; about the functions of Analysis, for *)
(* every input they may be given; and about the hourly check of Operations,  *)
(* for any alerts and whatever the time between two checks.                  *)
(*****************************************************************************)
EXTENDS Analytics, Analysis, Operations, FiniteSetTheorems, WellFoundedInduction, TLAPS

USE AnalyticsBounds

-----------------------------------------------------------------------------
(* The rules: a change of status is told alone.                              *)

OtherEvents ==
    {"price_up", "price_down", "lowest_rate_shift", "promo_start", "promo_end", "rooms_decrease",
     "rooms_increase", "low_stock_enter", "min_stay_change", "room_type_new", "room_type_gone"}

Quietly(S) == \A e \in S : e.type \in OtherEvents

\* An event has the type it is made with.
LEMMA EventType == \A type, room, delta, reason : Event(type, room, delta, reason).type = type
BY DEF Event

\* No events are quiet, ...
LEMMA QuietNone == Quietly({})
BY DEF Quietly

\* ... so is an event of another type, ...
LEMMA QuietOne == \A type \in OtherEvents : \A room, delta, reason : Quietly({Event(type, room, delta, reason)})
BY EventType DEF Quietly

\* ... and the events of two quiet sets.
LEMMA QuietBoth == ASSUME NEW S, NEW T, Quietly(S), Quietly(T) PROVE Quietly(S \cup T)
BY DEF Quietly

\* Changes of prices are quiet, ...
LEMMA PriceQuiet == \A old, new, room, key : Quietly(PriceEvents(old, new, room, key))
<1>1. {"price_up", "price_down"} \subseteq OtherEvents
  BY DEF OtherEvents
<1> QED
  BY <1>1, QuietNone, QuietOne DEF PriceEvents

\* ... of a room's prices, ...
LEMMA RoomPriceQuiet == \A before, room, t : Quietly(RoomPriceEvents(before, room, t))
<1> SUFFICES ASSUME NEW before, NEW room, NEW t PROVE Quietly(RoomPriceEvents(before, room, t))
    OBVIOUS
<1>1. CASE DOMAIN Prices(before) \cap DOMAIN Prices(room) = {}
  BY <1>1, QuietNone DEF RoomPriceEvents
<1>2. CASE DOMAIN Prices(before) \cap DOMAIN Prices(room) # {}
  BY <1>2, PriceQuiet DEF RoomPriceEvents
<1> QED
  BY <1>1, <1>2

\* ... of the hotel's, ...
LEMMA HotelPriceQuiet == \A prev, cur : Quietly(HotelPriceEvents(prev, cur))
<1> SUFFICES ASSUME NEW prev, NEW cur PROVE Quietly(HotelPriceEvents(prev, cur))
    OBVIOUS
<1>1. \/ HotelPriceEvents(prev, cur) = {}
      \/ \E old, new, room, key : HotelPriceEvents(prev, cur) = PriceEvents(old, new, room, key)
      \/ \E delta, reason : HotelPriceEvents(prev, cur) = {Event("lowest_rate_shift", None, delta, reason)}
  <2> DEFINE change == PctChange(MinPrice(prev), MinPrice(cur))
  <2>1. CASE ~ Big(change)
    BY <2>1 DEF HotelPriceEvents
  <2>2. CASE Big(change) /\ Cheapest(prev) = Cheapest(cur) /\ Cheapest(cur) # NoOffer
    <3>1. HotelPriceEvents(prev, cur) = PriceEvents(MinPrice(prev), MinPrice(cur), None, ToString(Cheapest(cur)[2]))
      BY <2>2 DEF HotelPriceEvents
    <3> QED
      BY <3>1
  <2>3. CASE Big(change) /\ ~ (Cheapest(prev) = Cheapest(cur) /\ Cheapest(cur) # NoOffer)
    <3>1. HotelPriceEvents(prev, cur) = {Event("lowest_rate_shift", None, change, ShiftReason(prev, cur))}
      BY <2>3 DEF HotelPriceEvents
    <3> QED
      BY <3>1
  <2> QED
    BY <2>1, <2>2, <2>3
<1>2. "lowest_rate_shift" \in OtherEvents
  BY DEF OtherEvents
<1> QED
  BY <1>1, <1>2, PriceQuiet, QuietNone, QuietOne

\* ... of promotions ...
LEMMA PromoQuiet == \A prev, cur : Quietly(PromoEvents(prev, cur))
<1> SUFFICES ASSUME NEW prev, NEW cur PROVE Quietly(PromoEvents(prev, cur))
    OBVIOUS
<1> DEFINE was == Promos(prev)
           now == Promos(cur)
           started == DOMAIN now \ DOMAIN was
           A == IF started = {} THEN {}
                ELSE {Event("promo_start", None, GreatestOf({now[l] : l \in started}), "")}
           B == IF DOMAIN was \subseteq DOMAIN now THEN {} ELSE Transition("promo_end")
<1>1. {"promo_start", "promo_end"} \subseteq OtherEvents
  BY DEF OtherEvents
<1>2. Quietly(A)
  <2> DEFINE g == GreatestOf({now[l] : l \in started})
  <2>1. A = {} \/ A = {Event("promo_start", None, g, "")}
    OBVIOUS
  <2> HIDE DEF A, g
  <2>2. Quietly({Event("promo_start", None, g, "")})
    BY <1>1, QuietOne
  <2> QED
    BY <2>1, <2>2, QuietNone
<1>3. Quietly(B)
  BY <1>1, QuietNone, QuietOne DEF Transition
<1>4. PromoEvents(prev, cur) = A \cup B
  BY DEF PromoEvents
<1> HIDE DEF A, B
<1> QED
  BY <1>2, <1>3, <1>4, QuietBoth

\* ... and of a room's stock.
LEMMA RoomQuiet == \A prev, cur, t : Quietly(RoomEvents(prev, cur, t))
<1> SUFFICES ASSUME NEW prev, NEW cur, NEW t PROVE Quietly(RoomEvents(prev, cur, t))
    OBVIOUS
<1> DEFINE was == prev.rooms[t]
           now == cur.rooms[t]
           delta == now.left - was.left
           A == IF Exact(was) /\ Exact(now) /\ delta # 0
                THEN {Event(IF delta < 0 THEN "rooms_decrease" ELSE "rooms_increase", t, delta, "")} ELSE {}
           B == IF Low(now) /\ ~Low(was) THEN {Event("low_stock_enter", t, None, "")} ELSE {}
           C == IF prev.minStay = cur.minStay THEN RoomPriceEvents(was, now, t) ELSE {}
<1>1. {"rooms_decrease", "rooms_increase", "low_stock_enter"} \subseteq OtherEvents
  BY DEF OtherEvents
<1>2. Quietly(A) /\ Quietly(B) /\ Quietly(C)
  BY <1>1, RoomPriceQuiet, QuietNone, QuietOne
<1>3. RoomEvents(prev, cur, t) = A \cup B \cup C
  BY DEF RoomEvents
<1> HIDE DEF A, B, C
<1> QED
  BY <1>2, <1>3, QuietBoth

\* All of them together: what is told of a night on sale is quiet.
LEMMA AvailableQuiet == \A prev, cur, prev2, seen : Quietly(AvailableEvents(prev, cur, prev2, seen))
<1> SUFFICES ASSUME NEW prev, NEW cur, NEW prev2, NEW seen PROVE Quietly(AvailableEvents(prev, cur, prev2, seen))
    OBVIOUS
<1> DEFINE A == IF prev.minStay = cur.minStay THEN HotelPriceEvents(prev, cur) \cup PromoEvents(prev, cur)
                ELSE {Event("min_stay_change", None, cur.minStay - prev.minStay, "")}
           B == UNION {RoomEvents(prev, cur, t) : t \in Types(prev) \cap Types(cur)}
           C == {Event("room_type_new", t, None, "") : t \in NewTypes(prev, cur, prev2, seen)}
           D == {Event("room_type_gone", t, None, "") : t \in GoneTypes(prev, cur, prev2)}
<1>1. {"min_stay_change", "room_type_new", "room_type_gone"} \subseteq OtherEvents
  BY DEF OtherEvents
<1>2. Quietly(A)
  <2>1. Quietly(HotelPriceEvents(prev, cur) \cup PromoEvents(prev, cur))
    BY HotelPriceQuiet, PromoQuiet, QuietBoth
  <2> QED
    BY <1>1, <2>1, QuietOne
<1>3. Quietly(B)
  <2>1. \A t : \A e \in RoomEvents(prev, cur, t) : e.type \in OtherEvents
    BY RoomQuiet DEF Quietly
  <2> QED
    BY <2>1 DEF Quietly
<1>4. Quietly(C)
  <2>1. ASSUME NEW e \in C PROVE e.type \in OtherEvents
    <3>1. PICK t \in NewTypes(prev, cur, prev2, seen) : e = Event("room_type_new", t, None, "")
      OBVIOUS
    <3>2. e.type = "room_type_new"
      BY <3>1 DEF Event
    <3>3. "room_type_new" \in OtherEvents
      BY <1>1
    <3> QED
      BY <3>2, <3>3
  <2> QED
    BY <2>1 DEF Quietly
<1>5. Quietly(D)
  <2>1. ASSUME NEW e \in D PROVE e.type \in OtherEvents
    <3>1. PICK t \in GoneTypes(prev, cur, prev2) : e = Event("room_type_gone", t, None, "")
      OBVIOUS
    <3>2. e.type = "room_type_gone"
      BY <3>1 DEF Event
    <3>3. "room_type_gone" \in OtherEvents
      BY <1>1
    <3> QED
      BY <3>2, <3>3
  <2> QED
    BY <2>1 DEF Quietly
<1>6. AvailableEvents(prev, cur, prev2, seen) = A \cup B \cup C \cup D
  BY DEF AvailableEvents
<1> HIDE DEF A, B, C, D
<1> QED
  BY <1>2, <1>3, <1>4, <1>5, <1>6, QuietBoth

\* diff_events tells a change of status alone, or tells of none.
ToldAlone(S) == (\E e \in S : e.type \in StatusEvents) => Cardinality(S) = 1

\* Quiet events tell of no change of status, ...
LEMMA QuietAlone == ASSUME NEW S, Quietly(S) PROVE ToldAlone(S)
BY DEF Quietly, ToldAlone, OtherEvents, StatusEvents

\* ... a transition of one, ...
LEMMA TransitionAlone == \A type : ToldAlone(Transition(type))
BY FS_Singleton DEF Transition, ToldAlone

\* ... and all that two looks differ in of one at most.
LEMMA DiffAlone == \A prevs, cur, prev2, seen : ToldAlone(DiffEvents(prevs, cur, prev2, seen))
<1> SUFFICES ASSUME NEW prevs, NEW cur, NEW prev2, NEW seen PROVE ToldAlone(DiffEvents(prevs, cur, prev2, seen))
    OBVIOUS
<1> DEFINE prev == CHOOSE o \in prevs : TRUE
           D == DiffEvents(prevs, cur, prev2, seen)
<1>1. \/ D = {} \/ \E type : D = Transition(type)
      \/ D = AvailableEvents(prev, cur, prev2, seen)
  <2>1. CASE ~IsObserved(cur) \/ prevs = {}
    BY <2>1 DEF DiffEvents
  <2>2. CASE ~(~IsObserved(cur) \/ prevs = {})
    <3>1. \/ D = {}
          \/ D = Transition("restricted") \/ D = Transition("restriction_lifted")
          \/ D = Transition("sold_out") \/ D = Transition("restock")
          \/ D = AvailableEvents(prev, cur, prev2, seen)
      BY <2>2 DEF DiffEvents
    <3> HIDE DEF D
    <3> QED
      BY <3>1
  <2> QED
    BY <2>1, <2>2
<1>2. ToldAlone({})
  BY DEF ToldAlone
<1>3. Quietly(AvailableEvents(prev, cur, prev2, seen))
  BY AvailableQuiet
<1> HIDE DEF D, prev
<1>4. ToldAlone(D)
  BY <1>1, <1>2, <1>3, TransitionAlone, QuietAlone
<1> QED
  BY <1>4 DEF D

-----------------------------------------------------------------------------
(* The inductive invariant.                                                  *)

JobPlaces == {"none", "queued", "executing", "kept"}
Working == {"read", "write"}
SlotOf(hist) == [pc : {"free", "done"} \cup Working, run : 0..LastRun, hist : {hist}, newer : BOOLEAN]

AnalyticsTypes ==
    /\ look \in [ScanRuns -> Looks \cup {NoLook}]
    /\ analysed \subseteq ScanRuns /\ batch \subseteq analysed
    /\ DOMAIN events = ScanRuns
    /\ ajob \in [ScanRuns -> [at : JobPlaces, tries : 0..MaxTries]]
    /\ estimate \in [ScanRuns -> {"none", "written", "failed"}]
    /\ DOMAIN slot = Slots /\ \A s \in Slots : slot[s] \in SlotOf(slot[s].hist)
    /\ together \in BOOLEAN
    /\ metric.of \in {0} \cup analysed
    /\ afaults \in 0..AnalyticsFaults

\* A job is of a closed run, and has a try left while it is in the queue.
JobsInv ==
    /\ analysed \subseteq Closed
    /\ \A r \in ScanRuns : /\ ajob[r].at \in {"queued", "executing"} => r \in Closed
                           /\ ajob[r].at = "queued" => ajob[r].tries < MaxTries
    /\ \A s \in Slots : slot[s].pc # "free" => slot[s].run \in Closed

\* The events of a run are those of one execution.
EventsInv == \A r \in ScanRuns : ToldAlone(events[r])

\* As long as no two jobs were executed together, what a job read of the metric
\* is so when it commits.
MetricInv ==
    \/ together
    \/ /\ \A q \in analysed : q <= metric.of
       /\ \A s, q \in Slots : slot[s].pc \in Working /\ slot[q].pc \in Working => s = q
       /\ \A s \in Slots : slot[s].pc = "write" => (slot[s].newer <=> metric.of > slot[s].run)

AInv == AnalyticsTypes /\ JobsInv /\ EventsInv /\ MetricInv

\* The bounds are numbers.
LEMMA Limits ==
    /\ LastRun \in Nat /\ MaxTries \in Nat /\ MaxTries > 0 /\ AnalyticsFaults \in Nat
    /\ \A r \in ScanRuns : r \in Nat /\ r \in 0..LastRun /\ r > 0
BY DEF ScanRuns

\* A fault counts.
LEMMA FaultCounts ==
    ASSUME AnalyticsTypes, AnalyticsFault \/ UNCHANGED afaults PROVE afaults' \in 0..AnalyticsFaults
<1>1. afaults \in 0..AnalyticsFaults /\ AnalyticsFaults \in Nat
  BY Limits DEF AnalyticsTypes
<1>2. afaults' = afaults \/ (afaults < AnalyticsFaults /\ afaults' = afaults + 1)
  BY DEF AnalyticsFault
<1> QED
  BY <1>1, <1>2

\* The books are in order at first, ...
LEMMA InitInv == AnalyticsInit => AInv
<1> SUFFICES ASSUME AnalyticsInit PROVE AInv
    OBVIOUS
<1>1. /\ look = [r \in ScanRuns |-> NoLook] /\ analysed = {} /\ batch = {} /\ events = [r \in ScanRuns |-> {}]
      /\ metric = [of |-> 0] /\ ajob = [r \in ScanRuns |-> [at |-> "none", tries |-> 0]]
      /\ slot = [s \in Slots |-> [pc |-> "free", run |-> 0, hist |-> {}, newer |-> FALSE]]
      /\ estimate = [r \in ScanRuns |-> "none"] /\ together = FALSE /\ afaults = 0
  BY DEF AnalyticsInit, NoMetric, NoTask, FreeSlot
<1>2. AnalyticsTypes
  <2>1. ajob \in [ScanRuns -> [at : JobPlaces, tries : 0..MaxTries]]
    BY <1>1, Limits DEF JobPlaces
  <2>2. \A s \in Slots : slot[s] \in SlotOf(slot[s].hist)
    BY <1>1, Limits DEF SlotOf
  <2>3. look \in [ScanRuns -> Looks \cup {NoLook}] /\ estimate \in [ScanRuns -> {"none", "written", "failed"}]
    BY <1>1
  <2>4. DOMAIN events = ScanRuns /\ DOMAIN slot = Slots
    BY <1>1
  <2>5. metric.of \in {0} \cup analysed
    BY <1>1
  <2>6. together \in BOOLEAN /\ analysed \subseteq ScanRuns /\ batch \subseteq analysed
    BY <1>1
  <2>7. afaults \in 0..AnalyticsFaults
    BY <1>1, Limits
  <2> QED
    BY <2>1, <2>2, <2>3, <2>4, <2>5, <2>6, <2>7 DEF AnalyticsTypes
<1>3. JobsInv /\ MetricInv
  BY <1>1 DEF JobsInv, MetricInv, Working
<1>4. EventsInv
  BY <1>1 DEF EventsInv, ToldAlone
<1> QED
  BY <1>2, <1>3, <1>4 DEF AInv

-----------------------------------------------------------------------------
(* The steps.                                                                *)

\* What keeps the slots, the metric and what is analysed.
LEMMA RestKept ==
    ASSUME AInv, UNCHANGED <<analysed, events, metric, slot, together>>,
           look' \in [ScanRuns -> Looks \cup {NoLook}], Closed \subseteq Closed',
           ajob' \in [ScanRuns -> [at : JobPlaces, tries : 0..MaxTries]],
           \A r \in ScanRuns : /\ ajob'[r].at \in {"queued", "executing"} => r \in Closed'
                               /\ ajob'[r].at = "queued" => ajob'[r].tries < MaxTries,
           estimate' \in [ScanRuns -> {"none", "written", "failed"}], batch' \subseteq analysed,
           AnalyticsFault \/ UNCHANGED afaults
    PROVE  AInv'
<1>1. AnalyticsTypes'
  BY FaultCounts DEF AInv, AnalyticsTypes
<1>2. JobsInv'
  BY DEF AInv, JobsInv
<1>3. EventsInv' /\ MetricInv'
  BY DEF AInv, EventsInv, MetricInv
<1> QED
  BY <1>1, <1>2, <1>3 DEF AInv

\* ... stay so when jobs are pushed, ...
LEMMA PushedJobs ==
    ASSUME AInv, NEW r \in ScanRuns, ajob' = Pushed(r)
    PROVE  /\ ajob' \in [ScanRuns -> [at : JobPlaces, tries : 0..MaxTries]]
           /\ \A q \in ScanRuns : /\ ajob'[q].at \in {"queued", "executing"} => q = r \/ q \in Closed
                                  /\ ajob'[q].at = "queued" => ajob'[q].tries < MaxTries
<1>1. [at |-> "queued", tries |-> 0] \in [at : JobPlaces, tries : 0..MaxTries]
  BY Limits DEF JobPlaces
<1>2. CASE ajob[r].at = "none"
  BY <1>1, <1>2, Limits DEF Pushed, AInv, AnalyticsTypes, JobsInv
<1>3. CASE ajob[r].at # "none"
  BY <1>3 DEF Pushed, AInv, AnalyticsTypes, JobsInv
<1> QED
  BY <1>2, <1>3

\* Steps that only concern which jobs and estimates there are.
LEMMA QueueStep ==
    ASSUME AInv, NEW r \in ScanRuns,
           (\E l \in Looks : CloseRun(r, l)) \/ AnalyticsCatchUp(r) \/ ForgetResult(r)
    PROVE  AInv'
<1>0. /\ AnalyticsTypes /\ JobsInv
      /\ estimate \in [ScanRuns -> {"none", "written", "failed"}] /\ batch \subseteq analysed
  BY DEF AInv, AnalyticsTypes
<1>1. ASSUME NEW l \in Looks, CloseRun(r, l) PROVE AInv'
  <2>1. look' \in [ScanRuns -> Looks \cup {NoLook}] /\ Closed \subseteq Closed' /\ (l # NoLook => r \in Closed')
    BY <1>0, <1>1 DEF CloseRun, AnalyticsTypes, Closed
  <2>2. UNCHANGED <<analysed, events, metric, slot, together, estimate, batch>>
    BY <1>1 DEF CloseRun
  <2>3. AnalyticsFault \/ UNCHANGED afaults
    BY <1>1 DEF CloseRun
  <2>4. CASE UNCHANGED ajob
    <3>1. \A q \in ScanRuns : /\ ajob[q].at \in {"queued", "executing"} => q \in Closed'
                              /\ ajob[q].at = "queued" => ajob[q].tries < MaxTries
      BY <1>0, <2>1 DEF JobsInv
    <3> QED
      BY <1>0, <2>1, <2>2, <2>3, <2>4, <3>1, RestKept DEF AnalyticsTypes
  <2>5. CASE ajob' = Pushed(r)
    <3>0. l # NoLook
      BY DEF NoLook
    <3>1. /\ ajob' \in [ScanRuns -> [at : JobPlaces, tries : 0..MaxTries]]
          /\ \A q \in ScanRuns : /\ ajob'[q].at \in {"queued", "executing"} => q = r \/ q \in Closed
                                 /\ ajob'[q].at = "queued" => ajob'[q].tries < MaxTries
      BY <2>5, PushedJobs
    <3> QED
      BY <1>0, <2>1, <2>2, <2>3, <2>5, <3>0, <3>1, RestKept
  <2> QED
    BY <1>1, <2>4, <2>5 DEF CloseRun
<1>2. CASE AnalyticsCatchUp(r)
  <2>1. r \in Closed /\ ajob' = Pushed(r) /\ Closed' = Closed
        /\ UNCHANGED <<look, analysed, events, metric, slot, together, estimate, batch, afaults>>
    BY <1>2 DEF AnalyticsCatchUp, Closed
  <2>2. /\ ajob' \in [ScanRuns -> [at : JobPlaces, tries : 0..MaxTries]]
        /\ \A q \in ScanRuns : /\ ajob'[q].at \in {"queued", "executing"} => q = r \/ q \in Closed
                               /\ ajob'[q].at = "queued" => ajob'[q].tries < MaxTries
    BY <2>1, PushedJobs
  <2> QED
    BY <1>0, <2>1, <2>2, RestKept DEF AnalyticsTypes
<1>3. CASE ForgetResult(r)
  <2>1. /\ ajob' = [ajob EXCEPT ![r] = [at |-> "none", tries |-> 0]] /\ Closed' = Closed
        /\ UNCHANGED <<look, analysed, events, metric, slot, together, estimate, batch, afaults>>
    BY <1>3 DEF ForgetResult, Closed, NoTask
  <2>2. [at |-> "none", tries |-> 0] \in [at : JobPlaces, tries : 0..MaxTries]
    BY Limits DEF JobPlaces
  <2>3. /\ ajob' \in [ScanRuns -> [at : JobPlaces, tries : 0..MaxTries]]
        /\ \A q \in ScanRuns : /\ ajob'[q].at \in {"queued", "executing"} => q \in Closed
                               /\ ajob'[q].at = "queued" => ajob'[q].tries < MaxTries
    BY <1>0, <2>1, <2>2 DEF AnalyticsTypes, JobsInv
  <2> QED
    BY <1>0, <2>1, <2>3, RestKept DEF AnalyticsTypes
<1> QED
  BY <1>1, <1>2, <1>3

\* The steps of the estimates.
LEMMA EstimateStep ==
    ASSUME AInv, StartEstimates \/ EstimatesCrash \/ \E r \in ScanRuns : EstimateRun(r)
    PROVE  AInv'
<1>0. AnalyticsTypes /\ JobsInv
  BY DEF AInv
<1>1. /\ UNCHANGED <<look, analysed, events, metric, ajob, slot, together>> /\ Closed' = Closed
      /\ AnalyticsFault \/ UNCHANGED afaults
  BY DEF StartEstimates, EstimatesCrash, EstimateRun, Closed
<1>2. batch' \subseteq analysed
  BY <1>0 DEF StartEstimates, EstimatesCrash, EstimateRun, AnalyticsTypes, ToEstimate
<1>3. estimate' \in [ScanRuns -> {"none", "written", "failed"}]
  BY <1>0 DEF StartEstimates, EstimatesCrash, EstimateRun, AnalyticsTypes, MarkedFailed
<1> QED
  BY <1>0, <1>1, <1>2, <1>3, RestKept DEF AnalyticsTypes, JobsInv

\* ... when a job starts, ...
LEMMA StartStep ==
    ASSUME AInv, NEW s \in Slots, NEW r \in ScanRuns, StartAnalytics(s, r)
    PROVE  AInv'
<1>0. AnalyticsTypes /\ JobsInv /\ EventsInv /\ MetricInv
  BY DEF AInv
<1>1. /\ slot[s].pc = "free" /\ ajob[r].at = "queued" /\ Closed' = Closed
      /\ ajob' = [ajob EXCEPT ![r] = [at |-> "executing", tries |-> ajob[r].tries + 1]]
      /\ slot' = [slot EXCEPT ![s] = [pc |-> "read", run |-> r, hist |-> History(r), newer |-> FALSE]]
      /\ together' = (together \/ \E q \in Slots : slot[q].pc \in {"read", "write"})
      /\ UNCHANGED <<look, analysed, events, metric, estimate, batch, afaults>>
  <2>3. ajob' = [ajob EXCEPT ![r] = [at |-> "executing", tries |-> ajob[r].tries + 1]]
    BY <1>0 DEF StartAnalytics, AnalyticsTypes
  <2> QED
    BY <2>3 DEF StartAnalytics, Closed
<1>2. \A q \in Slots : slot'[q] = IF q = s THEN [pc |-> "read", run |-> r, hist |-> History(r), newer |-> FALSE] ELSE slot[q]
  BY <1>0, <1>1 DEF AnalyticsTypes
<1>3. r \in Closed /\ ajob[r].tries < MaxTries
  BY <1>0, <1>1 DEF JobsInv
<1>4. ajob' \in [ScanRuns -> [at : JobPlaces, tries : 0..MaxTries]]
  <2>1. ajob[r].tries + 1 \in 0..MaxTries
    BY <1>0, <1>3, Limits DEF AnalyticsTypes
  <2> QED
    BY <1>0, <1>1, <2>1 DEF AnalyticsTypes, JobPlaces
<1>5. AnalyticsTypes'
  <2>1. \A q \in Slots : slot'[q] \in SlotOf(slot'[q].hist)
    <3> DEFINE new == [pc |-> "read", run |-> r, hist |-> History(r), newer |-> FALSE]
    <3>1. new \in SlotOf(new.hist)
      BY Limits DEF SlotOf, Working
    <3>2. \A q \in Slots : slot'[q] = IF q = s THEN new ELSE slot[q]
      BY <1>2
    <3> HIDE DEF new
    <3> QED
      BY <1>0, <3>1, <3>2 DEF AnalyticsTypes
  <2>2. DOMAIN slot' = Slots
    BY <1>0, <1>1 DEF AnalyticsTypes
  <2>3. together' \in BOOLEAN
    BY <1>1
  <2> QED
    BY <1>0, <1>1, <1>4, <2>1, <2>2, <2>3 DEF AnalyticsTypes
<1>6. JobsInv'
  <2>1. \A q \in Slots : slot'[q].pc # "free" => slot'[q].run \in Closed
    BY <1>0, <1>2, <1>3 DEF JobsInv
  <2>2. \A q \in ScanRuns : /\ ajob'[q].at \in {"queued", "executing"} => q \in Closed
                            /\ ajob'[q].at = "queued" => ajob'[q].tries < MaxTries
    BY <1>0, <1>1, <1>3 DEF JobsInv, AnalyticsTypes
  <2> QED
    BY <1>0, <1>1, <2>1, <2>2 DEF JobsInv
<1>7. MetricInv'
  <2>1. CASE together'
    BY <2>1 DEF MetricInv
  <2>2. CASE ~ together'
    <3>1. ~ together /\ \A q \in Slots : slot[q].pc \notin Working
      BY <1>1, <2>2 DEF Working
    <3>2. \A q \in Slots : slot'[q].pc \in Working => q = s
      BY <1>2, <3>1
    <3>3. \A q \in Slots : slot'[q].pc # "write"
      BY <1>2, <3>1 DEF Working
    <3> QED
      BY <1>0, <1>1, <3>1, <3>2, <3>3 DEF MetricInv
  <2> QED
    BY <2>1, <2>2
<1>8. EventsInv'
  BY <1>0, <1>1 DEF EventsInv
<1> QED
  BY <1>5, <1>6, <1>7, <1>8 DEF AInv

\* ... when it looks at the metric, ...
LEMMA CheckStep == ASSUME AInv, NEW s \in Slots, CheckMetric(s) PROVE AInv'
<1>0. AnalyticsTypes /\ JobsInv /\ EventsInv /\ MetricInv
  BY DEF AInv
<1> DEFINE new == [pc |-> "write", run |-> slot[s].run, hist |-> slot[s].hist, newer |-> (metric.of > slot[s].run)]
<1>1. /\ slot[s].pc = "read" /\ Closed' = Closed
      /\ UNCHANGED <<look, analysed, events, metric, ajob, estimate, batch, together, afaults>>
  BY DEF CheckMetric, Closed
<1>2. \A q \in Slots : slot'[q] = IF q = s THEN new ELSE slot[q]
  <2>1. slot[s] \in SlotOf(slot[s].hist) /\ DOMAIN slot = Slots
    BY <1>0 DEF AnalyticsTypes
  <2>2. slot' = [slot EXCEPT ![s].pc = "write", ![s].newer = (metric.of > slot[s].run)]
    BY DEF CheckMetric, MetricIsNewer
  <2>3. slot'[s] = new
    BY <2>1, <2>2 DEF SlotOf
  <2> QED
    BY <2>1, <2>2, <2>3
<1>3. AnalyticsTypes'
  <2>1. \A q \in Slots : slot'[q] \in SlotOf(slot'[q].hist)
    <3>1. slot[s].run \in 0..LastRun /\ (metric.of > slot[s].run) \in BOOLEAN
      BY <1>0 DEF AnalyticsTypes, SlotOf
    <3>2. new \in SlotOf(new.hist)
      BY <3>1 DEF SlotOf, Working
    <3> HIDE DEF new
    <3> QED
      BY <1>0, <1>2, <3>2 DEF AnalyticsTypes
  <2>2. DOMAIN slot' = Slots
    BY <1>0 DEF AnalyticsTypes, CheckMetric
  <2> QED
    BY <1>0, <1>1, <2>1, <2>2 DEF AnalyticsTypes
<1>4. JobsInv'
  BY <1>0, <1>1, <1>2 DEF JobsInv
<1>5. MetricInv'
  <2>1. CASE together
    BY <1>1, <2>1 DEF MetricInv
  <2>2. CASE ~ together
    <3>1. \A q \in Slots : (slot'[q].pc \in Working <=> slot[q].pc \in Working)
      BY <1>1, <1>2 DEF Working
    <3>2. \A q \in Slots : slot'[q].pc = "write" => (slot'[q].newer <=> metric.of > slot'[q].run)
      <4>1. ASSUME NEW q \in Slots, slot'[q].pc = "write", q # s
            PROVE  slot'[q].newer <=> metric.of > slot'[q].run
        BY <1>0, <1>2, <2>2, <4>1 DEF MetricInv
      <4>2. slot'[s] = new
        BY <1>2
      <4>3. slot'[s].newer = (metric.of > slot[s].run) /\ slot'[s].run = slot[s].run
        BY <4>2
      <4> HIDE DEF new
      <4>4. slot'[s].newer <=> metric.of > slot'[s].run
        BY <4>3, Zenon
      <4> QED
        BY <4>1, <4>4, Zenon
    <3> QED
      BY <1>0, <1>1, <2>2, <3>1, <3>2 DEF MetricInv
  <2> QED
    BY <2>1, <2>2
<1>6. EventsInv'
  BY <1>0, <1>1 DEF EventsInv
<1> QED
  BY <1>3, <1>4, <1>5, <1>6 DEF AInv

\* What a slot that becomes free, or has committed, leaves.
LEMMA SlotKept ==
    ASSUME AnalyticsTypes, NEW s \in Slots, NEW x, x \in SlotOf(x.hist), slot' = [slot EXCEPT ![s] = x]
    PROVE  /\ \A q \in Slots : slot'[q] = IF q = s THEN x ELSE slot[q]
           /\ DOMAIN slot' = Slots /\ \A q \in Slots : slot'[q] \in SlotOf(slot'[q].hist)
<1>1. DOMAIN slot = Slots
  BY DEF AnalyticsTypes
<1>2. \A q \in Slots : slot'[q] = IF q = s THEN x ELSE slot[q]
  BY <1>1
<1> QED
  BY <1>1, <1>2 DEF AnalyticsTypes

\* ... when it commits, ...
LEMMA CommitStep == ASSUME AInv, NEW s \in Slots, CommitAnalytics(s) PROVE AInv'
<1> DEFINE r == slot[s].run
           new == [pc |-> "done", run |-> r, hist |-> {}, newer |-> FALSE]
           row == [of |-> r, figures |-> ComputeMetrics(Observation(r), slot[s].hist, LastRun),
                   soldOutAt |-> SoldOutAt(events')]
<1>0. AnalyticsTypes /\ JobsInv /\ EventsInv /\ MetricInv
  BY DEF AInv
<1>1. /\ slot[s].pc = "write" /\ analysed' = analysed \cup {r}
      /\ events' = [events EXCEPT ![r] = Drafts(r, slot[s].hist)]
      /\ metric' = IF slot[s].newer THEN metric ELSE row
      /\ slot' = [slot EXCEPT ![s] = new] /\ Closed' = Closed
      /\ UNCHANGED <<look, ajob, estimate, batch, together, afaults>>
  BY DEF CommitAnalytics, ReplacedEvents, Closed
<1>2. r \in Closed /\ r \in ScanRuns /\ r \in Nat /\ r > 0
  BY <1>0, <1>1, Limits DEF JobsInv, Closed
<1>3. row.of = r
  OBVIOUS
<1> HIDE DEF row
<1>4. \/ slot[s].newer /\ metric' = metric
      \/ ~ slot[s].newer /\ metric'.of = r
  BY <1>1, <1>3
<1>5. new \in SlotOf(new.hist)
  BY <1>2, Limits DEF SlotOf
<1>6. new.pc = "done" /\ new.run = r
  OBVIOUS
<1> HIDE DEF new
<1>7. /\ \A q \in Slots : slot'[q] = IF q = s THEN new ELSE slot[q]
      /\ DOMAIN slot' = Slots /\ \A q \in Slots : slot'[q] \in SlotOf(slot'[q].hist)
  BY <1>0, <1>1, <1>5, SlotKept
<1>8. AnalyticsTypes'
  <2>1. DOMAIN events' = ScanRuns
    BY <1>0, <1>1 DEF AnalyticsTypes
  <2>2. analysed' \subseteq ScanRuns /\ batch' \subseteq analysed' /\ metric'.of \in {0} \cup analysed'
    BY <1>0, <1>1, <1>2, <1>4 DEF AnalyticsTypes
  <2> QED
    BY <1>0, <1>1, <1>7, <2>1, <2>2 DEF AnalyticsTypes
<1>9. JobsInv'
  <2>1. \A q \in Slots : slot'[q].pc # "free" => slot'[q].run \in Closed
    BY <1>0, <1>2, <1>6, <1>7 DEF JobsInv
  <2> QED
    BY <1>0, <1>1, <1>2, <2>1 DEF JobsInv
<1>10. EventsInv'
  <2>1. ToldAlone(Drafts(r, slot[s].hist))
    BY DiffAlone DEF Drafts
  <2>2. \A q \in ScanRuns : events'[q] = IF q = r THEN Drafts(r, slot[s].hist) ELSE events[q]
    BY <1>0, <1>1, <1>2 DEF AnalyticsTypes
  <2> QED
    BY <1>0, <2>1, <2>2 DEF EventsInv
<1>11. MetricInv'
  <2>1. CASE together
    BY <1>1, <2>1 DEF MetricInv
  <2>2. CASE ~ together
    <3>1. /\ \A q \in analysed : q <= metric.of
          /\ \A p, q \in Slots : slot[p].pc \in Working /\ slot[q].pc \in Working => p = q
          /\ slot[s].newer <=> metric.of > r
      BY <1>0, <1>1, <2>2 DEF MetricInv
    <3>2. metric.of \in Nat /\ \A q \in analysed : q \in Nat
      BY <1>0, Limits DEF AnalyticsTypes
    <3>3. \A q \in Slots : slot'[q].pc \notin Working
      BY <1>1, <1>6, <1>7, <3>1 DEF Working
    <3>4. \A q \in analysed' : q <= metric'.of
      <4>1. CASE metric.of > r
        BY <1>1, <1>2, <1>4, <3>1, <3>2, <4>1
      <4>2. CASE ~ (metric.of > r)
        <5>1. metric'.of = r
          BY <1>4, <3>1, <4>2
        <5> QED
          BY <1>1, <1>2, <3>1, <3>2, <4>2, <5>1
      <4> QED
        BY <4>1, <4>2
    <3> QED
      BY <3>3, <3>4 DEF MetricInv, Working
  <2> QED
    BY <2>1, <2>2
<1> QED
  BY <1>8, <1>9, <1>10, <1>11 DEF AInv

\* A slot that ends, or stops.
LEMMA EndStep == ASSUME AInv, NEW s \in Slots, EndAnalytics(s) \/ AnalyticsStops(s) PROVE AInv'
<1> DEFINE r == slot[s].run
<1>0. AnalyticsTypes /\ JobsInv /\ EventsInv /\ MetricInv
  BY DEF AInv
<1>1. /\ slot[s].pc # "free" /\ slot' = [slot EXCEPT ![s] = FreeSlot] /\ Closed' = Closed
      /\ UNCHANGED <<look, analysed, events, metric, estimate, batch, together>>
      /\ AnalyticsFault \/ UNCHANGED afaults
  BY DEF EndAnalytics, AnalyticsStops, Closed
<1>2. r \in Closed /\ r \in ScanRuns
  BY <1>0, <1>1 DEF JobsInv, Closed
<1>3. /\ FreeSlot \in SlotOf(FreeSlot.hist) /\ FreeSlot.pc = "free"
  BY Limits DEF FreeSlot, SlotOf
<1>4. /\ \A q \in Slots : slot'[q] = IF q = s THEN FreeSlot ELSE slot[q]
      /\ DOMAIN slot' = Slots /\ \A q \in Slots : slot'[q] \in SlotOf(slot'[q].hist)
  BY <1>0, <1>1, <1>3, SlotKept
<1>5. /\ ajob' \in [ScanRuns -> [at : JobPlaces, tries : 0..MaxTries]]
      /\ \A q \in ScanRuns : /\ ajob'[q].at \in {"queued", "executing"} => q \in Closed
                             /\ ajob'[q].at = "queued" => ajob'[q].tries < MaxTries
  <2>1. \/ ajob' = [ajob EXCEPT ![r].at = "kept"]
        \/ ajob[r].tries < MaxTries /\ ajob' = [ajob EXCEPT ![r].at = "queued"]
    BY DEF EndAnalytics, AnalyticsStops
  <2>2. {"kept", "queued"} \subseteq JobPlaces
    BY DEF JobPlaces
  <2>3. CASE ajob' = [ajob EXCEPT ![r].at = "kept"]
    BY <1>0, <1>2, <2>2, <2>3 DEF AnalyticsTypes, JobsInv
  <2>4. CASE ajob[r].tries < MaxTries /\ ajob' = [ajob EXCEPT ![r].at = "queued"]
    BY <1>0, <1>2, <2>2, <2>4 DEF AnalyticsTypes, JobsInv
  <2> QED
    BY <2>1, <2>3, <2>4
<1>6. AnalyticsTypes'
  BY <1>0, <1>1, <1>4, <1>5, FaultCounts DEF AnalyticsTypes
<1>7. JobsInv'
  BY <1>0, <1>1, <1>3, <1>4, <1>5 DEF JobsInv
<1>8. EventsInv'
  BY <1>0, <1>1 DEF EventsInv
<1>9. MetricInv'
  <2>1. \A q \in Slots : slot'[q].pc \in Working => slot'[q] = slot[q]
    BY <1>3, <1>4 DEF Working
  <2>2. \A q \in Slots : slot'[q].pc = "write" => slot'[q] = slot[q]
    BY <2>1 DEF Working
  <2>3. CASE together
    BY <1>1, <2>3 DEF MetricInv
  <2>4. CASE ~ together
    <3>1. \A p, q \in Slots : slot'[p].pc \in Working /\ slot'[q].pc \in Working => p = q
      BY <1>0, <2>1, <2>4 DEF MetricInv
    <3>2. \A q \in Slots : slot'[q].pc = "write" => (slot'[q].newer <=> metric.of > slot'[q].run)
      BY <1>0, <2>2, <2>4 DEF MetricInv
    <3> QED
      BY <1>0, <1>1, <2>4, <3>1, <3>2 DEF MetricInv
  <2> QED
    BY <2>3, <2>4
<1> QED
  BY <1>6, <1>7, <1>8, <1>9 DEF AInv

\* ... and at every step.
LEMMA AnalyticsStep == AInv /\ [AnalyticsNext]_analyticsVars => AInv'
<1> SUFFICES ASSUME AInv, [AnalyticsNext]_analyticsVars PROVE AInv'
    OBVIOUS
<1>1. CASE UNCHANGED analyticsVars
  BY <1>1 DEF analyticsVars, AInv, AnalyticsTypes, JobsInv, EventsInv, MetricInv, Closed
<1>2. ASSUME NEW r \in ScanRuns, AnalyticsCatchUp(r) \/ ForgetResult(r) \/ \E l \in Looks : CloseRun(r, l)
      PROVE  AInv'
  BY <1>2, QueueStep
<1>3. ASSUME NEW s \in Slots, SlotStep(s) \/ AnalyticsStops(s) PROVE AInv'
  BY <1>3, StartStep, CheckStep, CommitStep, EndStep DEF SlotStep
<1>4. CASE Estimates \/ EstimatesCrash
  BY <1>4, EstimateStep DEF Estimates
<1> QED
  BY <1>1, <1>2, <1>3, <1>4 DEF AnalyticsNext

-----------------------------------------------------------------------------
(* What follows.                                                             *)

\* The analytics keep their books whatever order their jobs are executed in.
THEOREM AnalyticsInvariant == AnalyticsSpec => []AInv
BY InitInv, AnalyticsStep, PTL DEF AnalyticsSpec

\* What was analysed was closed, jobs keep within their tries, and a change of
\* status is reported by one run only: an execution replaces the events of the
\* one before it, and diff_events tells of a change of status alone.
THEOREM AnalyticsAreSound == AnalyticsSpec => []AnalyticsIsSound
<1>1. ASSUME AInv PROVE AnalyticsIsSound
  <2>0. AnalyticsTypes /\ JobsInv /\ EventsInv
    BY <1>1 DEF AInv
  <2>1. OneChangeOfStatus
    BY <2>0 DEF EventsInv, ToldAlone, OneChangeOfStatus
  <2>2. AnalyticsTypeOK
    <3>1. \A r \in ScanRuns : /\ look[r] \in Looks \cup {NoLook} /\ ajob[r].at \in JobPlaces
                              /\ ajob[r].tries \in 0..MaxTries /\ estimate[r] \in {"none", "written", "failed"}
      BY <2>0 DEF AnalyticsTypes
    <3> QED
      BY <2>0, <3>1 DEF AnalyticsTypes, JobsInv, JobPlaces, AnalyticsTypeOK
  <2> QED
    BY <2>1, <2>2 DEF AnalyticsIsSound
<1> QED
  BY <1>1, AnalyticsInvariant, PTL

\* As long as no two jobs of the night are executed together, its metrics are
\* those of the newest run analysed, in whatever order the jobs come and however
\* often one is executed (service.py, the check before the metric is written).
THEOREM NewestAlone == AnalyticsSpec => []MetricIsNewestAlone
<1>1. ASSUME AInv PROVE MetricIsNewestAlone
  <2> SUFFICES ASSUME ~ together, analysed # {} PROVE metric.of = Max(analysed)
      BY DEF MetricIsNewestAlone, MetricIsNewest
  <2>1. \A q \in analysed : q <= metric.of /\ q \in Nat /\ q > 0
    BY <1>1, Limits DEF AInv, AnalyticsTypes, MetricInv
  <2>2. metric.of \in analysed
    BY <1>1, <2>1 DEF AInv, AnalyticsTypes
  <2>3. \A x \in analysed : (\A y \in analysed : x >= y) => x = metric.of
    BY <2>1, <2>2
  <2>4. \E x \in analysed : \A y \in analysed : x >= y
    BY <2>1, <2>2
  <2> QED
    BY <2>3, <2>4 DEF Max
<1> QED
  BY <1>1, AnalyticsInvariant, PTL

HIDE AnalyticsBounds

-----------------------------------------------------------------------------
(* Numbers and folds.                                                        *)

\* A set of numbers that is not empty has a least one.
LEMMA LeastElement ==
    ASSUME NEW S \in SUBSET Nat, S # {}
    PROVE  \E x \in S : \A y \in S : x <= y
<1> DEFINE R == OpToRel(<, Nat)
<1>1. R = {ss \in Nat \X Nat : ss[1] < ss[2]}
  BY DEF OpToRel
<1>2. IsWellFoundedOn(R, Nat)
  BY NatLessThanWellFounded, Zenon
<1> HIDE DEF R
<1>3. PICK x \in S : \A y \in S : <<y, x>> \notin R
  BY <1>2, WFMin, Zenon
<1>4. \A y \in S : <<y, x>> \in Nat \X Nat /\ <<y, x>>[1] = y /\ <<y, x>>[2] = x
  OBVIOUS
<1>5. \A y \in S : ~ (y < x)
  BY <1>1, <1>3, <1>4
<1> QED
  BY <1>5

\* Of the numbers 1..n some, not none: one of them is the greatest.
LEMMA GreatestElement ==
    ASSUME NEW n \in Nat, NEW S \in SUBSET (1..n), S # {}
    PROVE  Max(S) \in S /\ \A y \in S : y <= Max(S)
<1> DEFINE T == {k \in Nat : \E x \in S : k = n - x}
<1>1. \A x \in S : x \in Int /\ 1 <= x /\ x <= n
  OBVIOUS
<1>2. \A x \in S : n - x \in T
  BY <1>1
<1>3. PICK t \in T : \A u \in T : t <= u
  <2>1. T \in SUBSET Nat /\ T # {}
    BY <1>2
  <2> HIDE DEF T
  <2> QED
    BY <2>1, LeastElement
<1>4. PICK x \in S : t = n - x
  OBVIOUS
<1>5. \A y \in S : x >= y
  <2> TAKE y \in S
  <2>1. t <= n - y
    BY <1>2, <1>3
  <2> QED
    BY <2>1, <1>4, <1>1
<1>6. \E m \in S : \A y \in S : m >= y
  BY <1>5
<1>7. Max(S) \in S /\ \A y \in S : Max(S) >= y
  BY <1>6 DEF Max
<1> QED
  BY <1>7, <1>1

\* A function that takes the greatest number out of a set of 1..n at a time is
\* defined for every such set: what a fold over a sequence needs.
LEMMA FoldExists ==
    ASSUME NEW n \in Nat, NEW V, NEW b \in V, NEW step \in [1..n -> [V -> V]]
    PROVE  \E it \in [SUBSET (1..n) -> V] :
              \A S \in SUBSET (1..n) : it[S] = IF S = {} THEN b ELSE step[Max(S)][it[S \ {Max(S)}]]
<1> DEFINE Sub(k) == {S \in SUBSET (1..n) : S \subseteq 1..k}
           Is(it, D) == /\ it \in [D -> V]
                        /\ \A S \in D : it[S] = IF S = {} THEN b ELSE step[Max(S)][it[S \ {Max(S)}]]
           Bad == {k \in Nat : ~ \E it : Is(it, Sub(k))}
<1>1. \E it : Is(it, Sub(0))
  <2>1. Sub(0) = {{}}
    OBVIOUS
  <2>2. Is([S \in {{}} |-> b], {{}})
    OBVIOUS
  <2> HIDE DEF Is, Sub
  <2> QED
    BY <2>1, <2>2
<1>2. ASSUME NEW k \in Nat, NEW it, Is(it, Sub(k)) PROVE \E x : Is(x, Sub(k + 1))
  <2> DEFINE next == [S \in Sub(k + 1) |-> IF S = {} THEN b ELSE step[Max(S)][it[S \ {Max(S)}]]]
  <2>1. ASSUME NEW S \in Sub(k + 1), S # {}
        PROVE  Max(S) \in 1..n /\ S \ {Max(S)} \in Sub(k)
    <3>1. S \in SUBSET (1..n) /\ S # {} /\ \A y \in S : y \in Nat /\ 1 <= y /\ y <= n /\ y <= k + 1
      BY <2>1
    <3>2. Max(S) \in S /\ \A y \in S : y <= Max(S)
      BY GreatestElement, <3>1
    <3>3. PICK m : m = Max(S)
      OBVIOUS
    <3>4. m \in S /\ \A y \in S : y <= m
      BY <3>2, <3>3
    <3> HIDE DEF Is, Sub, Bad, next
    <3>5. \A y \in S : y # m => y \in 1..k
      BY <3>1, <3>4
    <3>6. m \in 1..n /\ S \ {m} \in SUBSET (1..n) /\ S \ {m} \subseteq 1..k
      BY <3>1, <3>4, <3>5
    <3> USE DEF Sub
    <3> QED
      BY <3>3, <3>6
  <2>2. Sub(k) \subseteq Sub(k + 1) /\ {} \in Sub(k)
    OBVIOUS
  <2> HIDE DEF Sub, Bad
  <2>3. \A S \in Sub(k) : next[S] = it[S]
    BY <1>2, <2>2
  <2>4. next \in [Sub(k + 1) -> V]
    BY <1>2, <2>1
  <2>5. \A S \in Sub(k + 1) : next[S] = IF S = {} THEN b ELSE step[Max(S)][next[S \ {Max(S)}]]
    BY <2>1, <2>3
  <2> HIDE DEF next
  <2> QED
    BY <2>4, <2>5
<1>3. Bad = {}
  <2> HIDE DEF Is, Sub
  <2> SUFFICES ASSUME Bad # {} PROVE FALSE
    OBVIOUS
  <2>1. PICK k \in Bad : \A j \in Bad : k <= j
    BY LeastElement
  <2>2. k \in Nat /\ k # 0
    BY <1>1
  <2>3. k - 1 \in Nat /\ k - 1 \notin Bad
    BY <2>1, <2>2
  <2>4. \E it : Is(it, Sub(k - 1))
    BY <2>3
  <2>5. \E it : Is(it, Sub((k - 1) + 1))
    BY <1>2, <2>3, <2>4
  <2> QED
    BY <2>2, <2>5
<1>4. PICK it : Is(it, Sub(n))
  <2> HIDE DEF Is, Sub
  <2> QED
    BY <1>3
<1>5. Sub(n) = SUBSET (1..n)
  OBVIOUS
<1> HIDE DEF Sub
<1> QED
  BY <1>4, <1>5

\* What holds of no numbers, and of some when it holds without their greatest,
\* holds of all of them.
LEMMA OneByOne ==
    ASSUME NEW n \in Nat, NEW G, {} \in G,
           \A S \in SUBSET (1..n) : S # {} /\ S \ {Max(S)} \in G => S \in G
    PROVE  1..n \in G
<1> DEFINE Bad == {k \in Nat : \E S \in SUBSET (1..n) : S \subseteq 1..k /\ S \notin G}
<1>1. Bad = {}
  <2> SUFFICES ASSUME Bad # {} PROVE FALSE
    OBVIOUS
  <2>1. PICK k \in Bad : \A j \in Bad : k <= j
    BY LeastElement
  <2>2. PICK S \in SUBSET (1..n) : S \subseteq 1..k /\ S \notin G
    OBVIOUS
  <2>3. S # {} /\ S \ {Max(S)} \notin G
    BY <2>2
  <2>4. Max(S) \in S /\ \A y \in S : y <= Max(S)
    BY <2>3, GreatestElement
  <2>5. PICK m : m = Max(S)
    OBVIOUS
  <2>6. k \in Nat /\ \A y \in S : y \in Nat /\ y >= 1 /\ y <= k
    BY <2>2
  <2>7. m \in S /\ \A y \in S : y <= m
    BY <2>4, <2>5
  <2>8. k - 1 \in Nat /\ S \ {m} \subseteq 1..(k - 1)
    BY <2>6, <2>7
  <2>9. k - 1 \in Bad
    BY <2>3, <2>5, <2>8
  <2>10. k <= k - 1
    BY <2>1, <2>9
  <2> QED
    BY <2>6, <2>10
<1> QED
  <2>1. n \notin Bad
    BY <1>1
  <2> QED
    BY <2>1

-----------------------------------------------------------------------------
(* The latest row of a night's bookings.                                     *)

Row == [lead : Int, rooms : Int, capacity : Int]
OtbSeen == [leads : SUBSET Int, latest : {<<>>} \cup {<<r>> : r \in Row}]

\* What is kept of the rows read so far: one of the lowest lead.
KeepsLatest(seen, rows, S) ==
    /\ seen \in OtbSeen /\ seen.leads = {rows[i].lead : i \in S}
    /\ S = {} => seen.latest = <<>>
    /\ S # {} => \E r \in Row : seen.latest = <<r>> /\ r.lead \in seen.leads /\ \A l \in seen.leads : r.lead <= l

ReadRow(seen, row) == [leads |-> seen.leads \cup {row.lead}, latest |-> <<OtbLatest(seen, row)>>]

\* A row read leaves what is kept well formed.
LEMMA ReadRowIs ==
    ASSUME NEW seen \in OtbSeen, NEW row \in Row
    PROVE  ReadRow(seen, row) \in OtbSeen
<1>1. PICK L \in SUBSET Int, x \in {<<>>} \cup {<<r>> : r \in Row} : seen = [leads |-> L, latest |-> x]
  BY DEF OtbSeen
<1>2. x = <<>> \/ \E r \in Row : x = <<r>>
  OBVIOUS
<1>3. OtbLatest(seen, row) \in Row
  BY <1>1, <1>2 DEF OtbLatest
<1> QED
  BY <1>1, <1>3 DEF ReadRow, OtbSeen, Row

\* To keep a row of the lowest lead is to keep the latest.
LEMMA KeptRow ==
    ASSUME NEW seen \in OtbSeen, NEW rows, NEW S, NEW r \in Row, NEW L,
           S # {}, L = {rows[i].lead : i \in S}, seen.leads = L, seen.latest = <<r>>,
           r.lead \in L, \A l \in L : r.lead <= l
    PROVE  KeepsLatest(seen, rows, S)
BY DEF KeepsLatest

\* A row read after others keeps the latest of them all: a lower lead replaces the
\* row kept, any other leaves it.
LEMMA ReadRowKeeps ==
    ASSUME NEW n \in Nat, NEW rows \in [1..n -> Row], NEW S \in SUBSET (1..n), NEW m \in S, NEW seen,
           KeepsLatest(seen, rows, S \ {m})
    PROVE  KeepsLatest(ReadRow(seen, rows[m]), rows, S)
<1> DEFINE row == rows[m]  after == ReadRow(seen, row)
<1>1. row \in Row /\ row.lead \in Int
  BY DEF Row
<1>2. after \in OtbSeen
  BY <1>1, ReadRowIs DEF KeepsLatest
<1>14. PICK L \in SUBSET Int : \E x : seen = [leads |-> L, latest |-> x] /\ L = {rows[i].lead : i \in S \ {m}}
  BY DEF OtbSeen, KeepsLatest
<1>3. PICK x : seen = [leads |-> L, latest |-> x] /\ L = {rows[i].lead : i \in S \ {m}}
  BY <1>14
<1>4. after.leads = L \cup {row.lead} /\ after.latest = <<OtbLatest(seen, row)>>
  BY <1>3 DEF ReadRow
<1>5. {rows[i].lead : i \in S} = L \cup {row.lead}
  BY <1>3
<1> SUFFICES KeepsLatest(after, rows, S)
  OBVIOUS
<1>10. S # {}
  OBVIOUS
<1>11. PICK M : M = L \cup {row.lead}
  OBVIOUS
<1>12. after.leads = M /\ M = {rows[i].lead : i \in S}
  BY <1>4, <1>5, <1>11
<1>13. ASSUME NEW r \in Row, after.latest = <<r>>, r.lead \in M, \A l \in M : r.lead <= l
       PROVE  KeepsLatest(after, rows, S)
  <2> HIDE DEF after, row
  <2> QED
    BY <1>2, <1>10, <1>12, <1>13, KeptRow
<1>6. CASE S \ {m} = {}
  <2>1. L = {} /\ x = <<>>
    BY <1>3, <1>6 DEF KeepsLatest
  <2>2. OtbLatest(seen, row) = row
    BY <2>1, <1>3 DEF OtbLatest
  <2> HIDE DEF row, after
  <2>3. \A l \in L \cup {row.lead} : row.lead <= l
    BY <1>1, <2>1
  <2> QED
    BY <1>1, <1>4, <1>11, <1>13, <2>2, <2>3
<1>7. CASE S \ {m} # {}
  <2>1. PICK r \in Row : x = <<r>> /\ r.lead \in L /\ \A l \in L : r.lead <= l
    BY <1>3, <1>7 DEF KeepsLatest
  <2>2. r.lead \in Int /\ \A l \in L : l \in Int
    BY DEF Row
  <2> HIDE DEF row, after
  <2>3. CASE row.lead <= r.lead
    <3>1. \A l \in L \cup {row.lead} : row.lead <= l
      BY <1>1, <2>1, <2>2, <2>3
    <3>2. \A k \in L \cup {row.lead} : (\A l \in L \cup {row.lead} : k <= l) => k = row.lead
      BY <1>1, <2>2, <3>1
    <3>3. Min(L \cup {row.lead}) = row.lead
      BY <3>1, <3>2 DEF Min
    <3>4. OtbLatest(seen, row) = row
      BY <1>1, <1>3, <3>3 DEF OtbLatest
    <3> QED
      BY <1>1, <1>4, <1>11, <1>13, <3>1, <3>4
  <2>4. CASE ~ (row.lead <= r.lead)
    <3>1. r.lead \in L \cup {row.lead} /\ \A l \in L \cup {row.lead} : r.lead <= l
      BY <1>1, <2>1, <2>2, <2>4
    <3>2. \A k \in L \cup {row.lead} : (\A l \in L \cup {row.lead} : k <= l) => k = r.lead
      BY <1>1, <2>2, <3>1
    <3>3. Min(L \cup {row.lead}) = r.lead
      BY <3>1, <3>2 DEF Min
    <3>4. OtbLatest(seen, row) = r
      BY <1>3, <2>1, <2>4, <3>3 DEF OtbLatest
    <3> QED
      BY <1>4, <1>11, <1>13, <3>1, <3>4
  <2> QED
    BY <2>3, <2>4
<1> QED
  BY <1>6, <1>7

\* So it is after all rows: the fold takes the last row away one at a time, and
\* what it is made of exists (FoldExists).
LEMMA OtbRead ==
    ASSUME NEW rows \in Seq(Row)
    PROVE  KeepsLatest(FoldLeft(ReadRow, [leads |-> {}, latest |-> <<>>], rows), rows, 1..Len(rows))
<1> DEFINE n == Len(rows)
           none == [leads |-> {}, latest |-> <<>>]
           Body(it) == [S \in SUBSET (1..n) |-> IF S = {} THEN none ELSE ReadRow(it[S \ {Max(S)}], rows[Max(S)])]
           Fix == CHOOSE it : it = Body(it)
           step == [i \in 1..n |-> [v \in OtbSeen |-> ReadRow(v, rows[i])]]
<1>1. n \in Nat /\ DOMAIN rows = 1..n /\ rows \in [1..n -> Row]
  OBVIOUS
<1>2. FoldLeft(ReadRow, none, rows) = Fix[1..n]
  BY <1>1, Zenon DEF FoldLeft, MapThenFoldSet
<1>0. none \in OtbSeen
  BY DEF OtbSeen
<1> HIDE DEF n
<1>3. step \in [1..n -> [OtbSeen -> OtbSeen]]
  BY <1>1, ReadRowIs
<1>5. \E it : it = Body(it)
  <2> DEFINE Is(it, m, U, c, st) ==
               \A S \in SUBSET (1..m) : it[S] = IF S = {} THEN c ELSE st[Max(S)][it[S \ {Max(S)}]]
  <2>1. \A m \in Nat : \A U : \A c \in U : \A st \in [1..m -> [U -> U]] :
           \E it \in [SUBSET (1..m) -> U] : Is(it, m, U, c, st)
    BY FoldExists
  <2> HIDE DEF Is, step, none
  <2>2. PICK it \in [SUBSET (1..n) -> OtbSeen] : Is(it, n, OtbSeen, none, step)
    BY <1>0, <1>1, <1>3, <2>1
  <2>3. \A S \in SUBSET (1..n) : it[S] = IF S = {} THEN none ELSE step[Max(S)][it[S \ {Max(S)}]]
    BY <2>2 DEF Is
  <2> USE DEF step
  <2>4. ASSUME NEW S \in SUBSET (1..n), S # {}
        PROVE  step[Max(S)][it[S \ {Max(S)}]] = ReadRow(it[S \ {Max(S)}], rows[Max(S)])
    <3>1. Max(S) \in 1..n /\ S \ {Max(S)} \in SUBSET (1..n)
      BY <2>4, <1>1, GreatestElement
    <3>2. it[S \ {Max(S)}] \in OtbSeen
      BY <2>2, <3>1
    <3> QED
      BY <3>1, <3>2
  <2> HIDE DEF step
  <2>5. it = Body(it)
    BY <2>2, <2>3, <2>4
  <2> QED
    BY <2>5
<1>6. Fix = Body(Fix)
  BY <1>5
<1> HIDE DEF Fix
<1> DEFINE G == {S \in SUBSET (1..n) : KeepsLatest(Fix[S], rows, S)}
<1>7. {} \in G
  <2>1. Fix[{}] = none
    BY <1>6
  <2>2. KeepsLatest(none, rows, {})
    BY <1>0 DEF KeepsLatest
  <2> HIDE DEF none
  <2> QED
    BY <2>1, <2>2
<1>8. ASSUME NEW S \in SUBSET (1..n), S # {}, S \ {Max(S)} \in G PROVE S \in G
  <2>1. Fix[S] = ReadRow(Fix[S \ {Max(S)}], rows[Max(S)])
    BY <1>6, <1>8
  <2>2. Max(S) \in S
    BY <1>8, <1>1, GreatestElement
  <2>3. KeepsLatest(Fix[S \ {Max(S)}], rows, S \ {Max(S)})
    BY <1>8
  <2>4. KeepsLatest(ReadRow(Fix[S \ {Max(S)}], rows[Max(S)]), rows, S)
    BY <1>1, <2>2, <2>3, ReadRowKeeps
  <2> QED
    BY <2>1, <2>4
<1> HIDE DEF G
<1>9. 1..n \in G
  BY <1>1, <1>7, <1>8, OneByOne
<1> QED
  BY <1>2, <1>9 DEF G, n, none

\* The row kept has a lead no row is below.
LEMMA LatestIsKept == ASSUME NEW rows \in Seq(Row) PROVE OtbIsLatest(rows)
<1>1. ReadOtb(rows) = FoldLeft(ReadRow, [leads |-> {}, latest |-> <<>>], rows).latest
  BY Zenon DEF ReadOtb, ReadRow
<1>2. PICK seen : seen = FoldLeft(ReadRow, [leads |-> {}, latest |-> <<>>], rows)
  OBVIOUS
<1>3. KeepsLatest(seen, rows, 1..Len(rows)) /\ ReadOtb(rows) = seen.latest
  BY <1>1, <1>2, OtbRead
<1>4. DOMAIN rows = 1..Len(rows)
  OBVIOUS
<1>5. ASSUME rows # <<>>, NEW i \in DOMAIN rows PROVE ReadOtb(rows)[1].lead <= rows[i].lead
  <2>1. PICK r \in Row : seen.latest = <<r>> /\ \A l \in seen.leads : r.lead <= l
    BY <1>3, <1>4, <1>5 DEF KeepsLatest
  <2>2. rows[i].lead \in seen.leads
    BY <1>3, <1>4 DEF KeepsLatest
  <2> QED
    BY <1>3, <2>1, <2>2
<1> QED
  BY <1>5, Zenon DEF OtbIsLatest

-----------------------------------------------------------------------------
(* What an insight may cite.                                                 *)

\* The references rebuilt from an insight's input are those of the hotels, nights
\* and events it was built of: the words of the input lose none of them.
LEMMA RefsRebuilt ==
    ASSUME NEW hotels, NEW compared, NEW horizon, NEW status, NEW facts, NEW limit24, NEW limit7,
           \A k \in DOMAIN status : status[k] # "no_data"
    PROVE  RebuiltInput(BuildInput(hotels, compared, horizon, status, facts, limit24, limit7))
<1> DEFINE b == BuildInput(hotels, compared, horizon, status, facts, limit24, limit7)
           nights == 0..((IF horizon < InsightMaxDays THEN horizon ELSE InsightMaxDays) - 1)
           observed == {x \in hotels \X nights : x \in DOMAIN status}
           day == EventsOf(facts, hotels, nights, 24, limit24)
           week == EventsOf(facts, hotels, nights, 7 * 24, limit7)
           days == [x \in hotels \X nights |-> IF x \in observed THEN status[x] ELSE "no_data"]
           compset == IF compared = {} THEN {} ELSE nights
           refs == {MetricRef(x[1], x[2]) : x \in observed} \cup {EventRef(e) : e \in day \cup week}
                   \cup (IF compared = {} THEN {} ELSE {CompsetRef(n) : n \in nights})
<1>1. b.days = days /\ b.events24 = day /\ b.events7 = week /\ b.compset = compset /\ b.refs = refs
  BY DEF BuildInput
<1>2. {y \in DOMAIN days : days[y] # "no_data"} = observed
  <2> HIDE DEF nights
  <2> QED
    OBVIOUS
<1>3. {CompsetRef(n) : n \in compset} = IF compared = {} THEN {} ELSE {CompsetRef(n) : n \in nights}
  <2> HIDE DEF nights
  <2> QED
    OBVIOUS
<1> HIDE DEF b, days, observed, day, week, compset, nights
<1>4. RebuiltRefs(b) = {MetricRef(x[1], x[2]) : x \in observed}
                           \cup {EventRef(e) : e \in day \cup week} \cup {CompsetRef(n) : n \in compset}
  BY <1>1, <1>2 DEF RebuiltRefs
<1> QED
  BY <1>1, <1>3, <1>4 DEF RebuiltInput, b

\* Whatever hotels, nights and events there are, an insight can only cite what its
\* input holds (insight/service.py rebuild of the allowed references).
THEOREM CitedIsStored == FiguresSpec => []EvidenceIsInput
<1>1. FiguresInit => EvidenceIsInput
  BY AnalysisInputs, RefsRebuilt DEF FiguresInit, EvidenceIsInput, IsEvidence
<1>2. EvidenceIsInput /\ [FiguresNext]_<<kind, input>> => EvidenceIsInput'
  BY DEF FiguresNext, EvidenceIsInput
<1> QED
  BY <1>1, <1>2, PTL DEF FiguresSpec

-----------------------------------------------------------------------------
(* Promotions.                                                               *)

\* A hotel is counted on a night exactly when one of its runs covers it.
LEMMA SharesAlwaysAgree == ASSUME NEW hotels PROVE SharesAgree(hotels)
<1> DEFINE all(promos) == UNION {DOMAIN promos[e] : e \in DOMAIN promos}
<1>1. ASSUME NEW promos
      PROVE  /\ \A r \in PromoRuns(promos, << >>) : \E l \in all(promos) : r.nights = RunNights(promos, l)
             /\ \A l \in all(promos) : \E r \in PromoRuns(promos, << >>) : r.nights = RunNights(promos, l)
  <2> DEFINE run(l) ==
               [label |-> l, origin |-> PromoOrigin(l), nights |-> RunNights(promos, l),
                depth |-> GreatestOf({promos[d][l] : d \in RunNights(promos, l)}),
                startedAt |-> IF l \in DOMAIN << >> THEN << >>[l] ELSE None]
  <2>1. PromoRuns(promos, << >>) = {run(l) : l \in all(promos)}
    BY Zenon DEF PromoRuns
  <2>2. \A l : run(l).nights = RunNights(promos, l)
    OBVIOUS
  <2> HIDE DEF run, all
  <2> QED
    BY <2>1, <2>2
<1> SUFFICES ASSUME NEW d
             PROVE  /\ PromoShare(hotels, d)[1]
                         = Cardinality({h \in hotels : \E r \in PromoRuns(h.promos, << >>) : d \in r.nights})
                    /\ \A h \in hotels : \A r \in PromoRuns(h.promos, << >>) : r.nights \subseteq DOMAIN h.promos
  BY Zenon DEF SharesAgree
<1>3. \A h \in hotels :
         (d \in DOMAIN h.promos /\ DOMAIN h.promos[d] # {}) <=> \E r \in PromoRuns(h.promos, << >>) : d \in r.nights
  BY <1>1 DEF RunNights
<1>4. \A h \in hotels : \A r \in PromoRuns(h.promos, << >>) : r.nights \subseteq DOMAIN h.promos
  BY <1>1 DEF RunNights
<1>5. {h \in hotels : d \in DOMAIN h.promos /\ DOMAIN h.promos[d] # {}}
        = {h \in hotels : \E r \in PromoRuns(h.promos, << >>) : d \in r.nights}
  BY <1>3
<1>6. PromoShare(hotels, d)[1] = Cardinality({h \in hotels : d \in DOMAIN h.promos /\ DOMAIN h.promos[d] # {}})
  BY DEF PromoShare
<1> QED
  BY <1>4, <1>5, <1>6

\* Of any hotels' promotions the two readings agree: a night counts the hotels one
\* of whose runs covers it, and no run covers a night not observed (radar.py).
THEOREM PromotionsAreOne == FiguresSpec => []PromotionsAgree
<1>1. FiguresInit => PromotionsAgree
  BY SharesAlwaysAgree DEF PromotionsAgree
<1>2. PromotionsAgree /\ [FiguresNext]_<<kind, input>> => PromotionsAgree'
  BY DEF FiguresNext, PromotionsAgree
<1> QED
  BY <1>1, <1>2, PTL DEF FiguresSpec

-----------------------------------------------------------------------------
(* Competitor sets.                                                          *)

\* A metric read at another time is of that time.
LEMMA MetricAt ==
    ASSUME NEW m, IsMetric(m), NEW t
    PROVE  [m EXCEPT !.at = t].at = t
<1>1. PICK a, b, c, d, e : m = [at |-> a, status |-> b, minStay |-> c, left |-> d, price |-> e]
  BY DEF IsMetric
<1> QED
  BY <1>1

\* A day of the set depends on its fresh metrics alone.
LEMMA FreshOnly ==
    ASSUME NEW looks, NEW stale, NEW now, NEW own, NEW comps, NEW basis,
           DOMAIN stale = DOMAIN looks, FreshMetrics(stale, now) = FreshMetrics(looks, now),
           \A h \in FreshMetrics(looks, now) : stale[h] = looks[h]
    PROVE  CompsetDay(stale, own, comps, basis, now) = CompsetDay(looks, own, comps, basis, now)
<1> DEFINE fresh(m) == FreshMetrics(m, now)
           Seen == {"available", "sold_out", "restricted"}
           observed(m) == {h \in comps \cap fresh(m) : m[h].status \in Seen}
           priced(m) == {h \in observed(m) : HasPrice(m, h, basis)}
           price(m) == [h \in priced(m) |-> m[h].price[basis]]
           figures(m) == {m[h].price[basis] : h \in priced(m)}
           pairs(m) == {<<m[h].price[basis], h>> : h \in priced(m)}
           sample(m) == SampleLevel(Cardinality(priced(m)))
           med(m) == IF sample(m) = "insufficient" THEN None ELSE MiddleOf(pairs(m))
           out(m) == Cardinality({h \in observed(m) : m[h].status = "sold_out"})
           ownPrice(m) == IF own \in fresh(m) /\ HasPrice(m, own, basis) THEN m[own].price[basis] ELSE None
           share(m) == IF observed(m) = {} THEN None ELSE HalfEven(100 * out(m), Cardinality(observed(m)))
           ownStatus(m) == IF own \in fresh(m) THEN m[own].status ELSE "none"
           index(m) == IF ownPrice(m) = None \/ med(m) \in {None, 0} THEN None ELSE HalfEven(1000 * ownPrice(m), med(m))
           rank(m) == IF sample(m) = "insufficient" THEN None ELSE PriceRank(ownPrice(m), price(m))
           hotels(m) == Cardinality(priced(m)) + (IF ownPrice(m) = None THEN 0 ELSE 1)
           restricted(m) == Cardinality({h \in observed(m) : IsRestricted(m[h])})
           low(m) == Cardinality({h \in observed(m) : m[h].status = "available" /\ m[h].left # None /\ m[h].left <= LowRooms})
           old(m) == Cardinality((comps \cap DOMAIN m) \ fresh(m))
           day(m) ==
             [observed |-> Cardinality(observed(m)), soldOut |-> out(m), share |-> share(m),
              min |-> LeastOf(figures(m)), median |-> med(m), ownPrice |-> ownPrice(m), ownStatus |-> ownStatus(m),
              index |-> index(m), rank |-> rank(m), priced |-> Cardinality(priced(m)), total |-> Cardinality(comps),
              sample |-> sample(m), pricedHotels |-> hotels(m), restricted |-> restricted(m), low |-> low(m), stale |-> old(m)]
<1>1. CompsetDay(stale, own, comps, basis, now) = day(stale) /\ CompsetDay(looks, own, comps, basis, now) = day(looks)
  BY Zenon DEF CompsetDay, Median
<1>2. fresh(stale) = fresh(looks) /\ \A h \in fresh(looks) : stale[h] = looks[h]
  OBVIOUS
<1>3. ownStatus(stale) = ownStatus(looks) /\ old(stale) = old(looks)
  BY <1>2
<1> HIDE DEF fresh, ownStatus, old
<1>4. observed(stale) = observed(looks) /\ observed(looks) \subseteq fresh(looks)
  BY <1>2
<1>5. /\ {h \in observed(stale) : stale[h].status = "sold_out"} = {h \in observed(looks) : looks[h].status = "sold_out"}
      /\ {h \in observed(stale) : IsRestricted(stale[h])} = {h \in observed(looks) : IsRestricted(looks[h])}
      /\ {h \in observed(stale) : stale[h].status = "available" /\ stale[h].left # None /\ stale[h].left <= LowRooms}
           = {h \in observed(looks) : looks[h].status = "available" /\ looks[h].left # None /\ looks[h].left <= LowRooms}
  <2> HIDE DEF observed
  <2> QED
    BY <1>2, <1>4
<1> HIDE DEF observed
<1>6. out(stale) = out(looks) /\ restricted(stale) = restricted(looks) /\ low(stale) = low(looks)
  BY <1>5, Zenon
<1>7. \A h \in fresh(looks) : HasPrice(stale, h, basis) <=> HasPrice(looks, h, basis)
  BY <1>2 DEF HasPrice
<1>8. priced(stale) = priced(looks) /\ priced(looks) \subseteq fresh(looks)
  BY <1>4, <1>7
<1>9. ownPrice(stale) = ownPrice(looks)
  BY <1>2, <1>7
<1> HIDE DEF priced, ownPrice, out, restricted, low
<1>10. price(stale) = price(looks) /\ figures(stale) = figures(looks) /\ pairs(stale) = pairs(looks)
  BY <1>2, <1>8
<1> HIDE DEF price, figures, pairs
<1>11. sample(stale) = sample(looks) /\ hotels(stale) = hotels(looks) /\ share(stale) = share(looks)
  BY <1>4, <1>6, <1>8, <1>9
<1>12. med(stale) = med(looks)
  BY <1>10, <1>11
<1> HIDE DEF sample, hotels, share, med
<1>13. index(stale) = index(looks) /\ rank(stale) = rank(looks)
  BY <1>9, <1>10, <1>11, <1>12
<1> HIDE DEF index, rank
<1>14. day(stale) = day(looks)
  BY <1>3, <1>4, <1>6, <1>8, <1>9, <1>10, <1>11, <1>12, <1>13
<1> QED
  BY <1>1, <1>14

\* To put anything in the place of stale metrics changes nothing, as long as what
\* is put there is stale.
LEMMA StaleNeverCounts ==
    ASSUME NEW looks, NEW own, NEW comps, NEW basis, NEW now, NEW other, IsMetric(other)
    PROVE  StaleIsLeftOut(looks, own, comps, basis, now, other)
<1> DEFINE stale == [h \in DOMAIN looks |->
                       IF NewestLook(looks, now) - looks[h].at <= StaleAfter THEN looks[h]
                       ELSE [other EXCEPT !.at = looks[h].at]]
<1>1. DOMAIN stale = DOMAIN looks
  OBVIOUS
<1>2. \A h \in DOMAIN looks : stale[h].at = looks[h].at
  BY MetricAt
<1>3. \A h \in FreshMetrics(looks, now) : h \in DOMAIN looks /\ stale[h] = looks[h]
  BY DEF FreshMetrics
<1> HIDE DEF stale
<1>4. {stale[h].at : h \in DOMAIN stale} = {looks[h].at : h \in DOMAIN looks}
  BY <1>1, <1>2
<1>5. NewestLook(stale, now) = NewestLook(looks, now)
  BY <1>4, Zenon DEF NewestLook
<1>6. FreshMetrics(stale, now) = FreshMetrics(looks, now)
  BY <1>1, <1>2, <1>5 DEF FreshMetrics
<1>7. CompsetDay(stale, own, comps, basis, now) = CompsetDay(looks, own, comps, basis, now)
  BY <1>1, <1>3, <1>6, FreshOnly
<1> QED
  BY <1>7, Zenon DEF StaleIsLeftOut, stale

\* Of any hotels and metrics, what is said of a competitor set does not depend on
\* those that are too old (analytics/compset.py).
THEOREM StaleIsAside == FiguresSpec => []CompsetIsFresh
<1>1. FiguresInit => CompsetIsFresh
  BY AnalysisInputs, StaleNeverCounts DEF FiguresInit, CompsetIsFresh
<1>2. CompsetIsFresh /\ [FiguresNext]_<<kind, input>> => CompsetIsFresh'
  BY DEF FiguresNext, CompsetIsFresh
<1> QED
  BY <1>1, <1>2, PTL DEF FiguresSpec

-----------------------------------------------------------------------------
(* Pace.                                                                     *)

\* The pace of a night that is no holiday does not depend on the curves of
\* holidays.
LEMMA HolidaysApart ==
    ASSUME NEW night, NEW lead, NEW now, NEW curves, NEW others, NEW holidays
    PROVE  PaceIgnoresHolidays(night, lead, now, curves, others, holidays)
<1> SUFFICES ASSUME night \notin holidays
             PROVE  Pace(night, lead, now, curves, holidays)
                      = Pace(night, lead, now, [m \in DOMAIN curves |-> IF m \in holidays THEN others ELSE curves[m]], holidays)
  BY Zenon DEF PaceIgnoresHolidays
<1> DEFINE moved == [m \in DOMAIN curves |-> IF m \in holidays THEN others ELSE curves[m]]
           before(w) == night - 7 * w
           refs(c) == {w \in Weeks : /\ Comparable(night, before(w), holidays)
                                     /\ before(w) \in DOMAIN c /\ OccAtLead(c[before(w)], lead) # None}
           pairs(c) == {<<OccAtLead(c[before(w)], lead), w>> : w \in refs(c)}
           pace(c) == IF Cardinality(refs(c)) < MinReferences THEN [NoPace EXCEPT !.references = Cardinality(refs(c))]
                      ELSE [reference |-> MiddleOf(pairs(c)), references |-> Cardinality(refs(c)),
                            delta |-> IF now = None THEN None ELSE now - MiddleOf(pairs(c))]
<1>1. \A c : Pace(night, lead, now, c, holidays) = pace(c)
  BY Zenon DEF Pace, Median
<1>2. \A m \in DOMAIN curves : m \notin holidays => moved[m] = curves[m]
  OBVIOUS
<1>3. DOMAIN moved = DOMAIN curves
  OBVIOUS
<1> HIDE DEF moved, before
<1>4. \A w \in Weeks : Comparable(night, before(w), holidays) => before(w) \notin holidays
  BY DEF Comparable
<1>5. refs(moved) = refs(curves) /\ \A w \in refs(curves) : before(w) \in DOMAIN curves /\ before(w) \notin holidays
  BY <1>2, <1>3, <1>4
<1> HIDE DEF refs
<1>6. pairs(moved) = pairs(curves)
  BY <1>2, <1>5
<1> HIDE DEF pairs
<1>7. pace(moved) = pace(curves)
  BY <1>5, <1>6, Zenon
<1> HIDE DEF pace
<1> QED
  BY <1>1, <1>7, Zenon DEF moved

\* Of any rows in any order the latest is read, and the pace of a night compares
\* it with nights of its weekday that are no holidays (pace_report.py).
THEOREM PaceIsTrue == FiguresSpec => []PaceIsFair
<1>1. ASSUME IsOtb(input) PROVE OtbIsLatest(input)
  BY <1>1, LatestIsKept DEF IsOtb, Row
<1>2. FiguresInit => PaceIsFair
  BY <1>1, AnalysisInputs, HolidaysApart DEF FiguresInit, PaceIsFair
<1>3. PaceIsFair /\ [FiguresNext]_<<kind, input>> => PaceIsFair'
  BY DEF FiguresNext, PaceIsFair
<1> QED
  BY <1>2, <1>3, PTL DEF FiguresSpec

-----------------------------------------------------------------------------
(* Alerts.                                                                   *)

\* What an alert is about, as a reader would say.
Subject(i) == CASE i.kind = "drift" -> <<i.kind, i.stay>>
                [] i.kind = "promo" -> <<i.kind, i.hotel>>
                [] OTHER -> <<i.kind, i.hotel, i.stay>>

\* Each alert of S has one of T about the same; no two of S are about the same.
Covers(T, S) == \A i \in S : \E j \in T : Subject(j) = Subject(i)
Single(S) == \A i, j \in S : i # j /\ i.kind # "promo" => Subject(i) # Subject(j)
Of(kd, S) == \A i \in S : i.kind = kd

\* An alert has the kind, hotel, night and event it is made of.
LEMMA ItemIs ==
    ASSUME NEW kd, NEW hotel, NEW stay, NEW e
    PROVE  /\ Item(kd, hotel, stay, e) = [kind |-> kd, hotel |-> hotel, stay |-> stay, event |-> e.id]
           /\ Item(kd, hotel, stay, e).kind = kd /\ Item(kd, hotel, stay, e).hotel = hotel
           /\ Item(kd, hotel, stay, e).stay = stay /\ Item(kd, hotel, stay, e).event = e.id
BY DEF Item

\* An alert of most kinds is about a hotel and a night, ...
LEMMA SubjectOf ==
    ASSUME NEW kd, NEW hotel, NEW stay, NEW e, kd \notin {"drift", "promo"}
    PROVE  Subject(Item(kd, hotel, stay, e)) = <<kd, hotel, stay>>
BY ItemIs DEF Subject

\* ... one of a promotion about a hotel, whatever the night.
LEMMA PromoSubject ==
    ASSUME NEW hotel, NEW stay, NEW e
    PROVE  Subject(Item("promo", hotel, stay, e)) = <<"promo", hotel>>
BY ItemIs DEF Subject

\* The alerts of a kind are of that kind, ...
LEMMA EachOf == ASSUME NEW kd, NEW E PROVE Of(kd, ForEach(kd, E))
BY ItemIs DEF ForEach, Of

\* ... and a subject tells the kind.
LEMMA SubjectKind == \A i : Subject(i)[1] = i.kind
BY DEF Subject

\* Events of some nights and hotels give alerts of them.
LEMMA EachCovers ==
    ASSUME NEW kd, NEW E, NEW F, kd \notin {"drift", "promo"},
           \A e \in E : \E f \in F : f.hotel = e.hotel /\ f.stay = e.stay
    PROVE  Covers(ForEach(kd, F), ForEach(kd, E))
<1> SUFFICES ASSUME NEW e \in E
             PROVE  \E j \in ForEach(kd, F) : Subject(j) = Subject(Item(kd, e.hotel, e.stay, e))
  BY DEF Covers, ForEach
<1>1. PICK f \in F : f.hotel = e.hotel /\ f.stay = e.stay
  OBVIOUS
<1>2. Item(kd, f.hotel, f.stay, f) \in ForEach(kd, F)
  BY DEF ForEach
<1>3. Subject(Item(kd, f.hotel, f.stay, f)) = Subject(Item(kd, e.hotel, e.stay, e))
  BY <1>1, ItemIs DEF Subject
<1> QED
  BY <1>2, <1>3

\* Events of different nights or hotels give alerts about different subjects.
LEMMA EachSingle ==
    ASSUME NEW kd, NEW E, kd # "drift", \A e, f \in E : e.hotel = f.hotel /\ e.stay = f.stay => e = f
    PROVE  Single(ForEach(kd, E))
<1> DEFINE item(e) == Item(kd, e.hotel, e.stay, e)
<1>1. ASSUME NEW e \in E, NEW f \in E, kd # "promo", Subject(item(e)) = Subject(item(f)) PROVE e = f
  <2>3. kd \notin {"drift", "promo"}
    BY <1>1
  <2>1. Subject(item(e)) = <<kd, e.hotel, e.stay>> /\ Subject(item(f)) = <<kd, f.hotel, f.stay>>
    BY <2>3, SubjectOf, Zenon
  <2>4. <<kd, e.hotel, e.stay>> = <<kd, f.hotel, f.stay>>
    BY <1>1, <2>1, Zenon
  <2>2. e.hotel = f.hotel /\ e.stay = f.stay
    BY <2>4
  <2> QED
    BY <2>2
<1>2. \A e \in E : item(e).kind = kd
  BY ItemIs
<1>3. ForEach(kd, E) = {item(e) : e \in E}
  BY DEF ForEach
<1> HIDE DEF item
<1> QED
  BY <1>1, <1>2, <1>3 DEF Single

\* Of the members with the same key one has the least rank.
IsFirst(g, G, key, rank) == \A f \in G : key[f] = key[g] => rank[f] >= rank[g]

\* Of the members with one's key there is a first.
LEMMA Firsts ==
    ASSUME NEW G, NEW key, NEW rank, \A e \in G : rank[e] \in Nat, NEW e \in G
    PROVE  \E g \in G : key[g] = key[e] /\ IsFirst(g, G, key, rank)
<1> DEFINE R == {rank[g] : g \in {x \in G : key[x] = key[e]}}
<1>1. R \in SUBSET Nat /\ R # {}
  OBVIOUS
<1>2. \E x \in R : \A y \in R : x <= y
  <2> HIDE DEF R
  <2> QED
    BY <1>1, LeastElement
<1>3. PICK g \in G : key[g] = key[e] /\ \A y \in R : rank[g] <= y
  BY <1>2
<1>4. \A f \in G : key[f] = key[g] => rank[f] >= rank[g]
  BY <1>3
<1> QED
  BY <1>3, <1>4 DEF IsFirst

Numbered(E) == \A e, f \in E : e.id \in Nat /\ (e.id = f.id => e = f)

\* The first events of each night: one of every night, and no more.
LEMMA FirstNight ==
    ASSUME NEW G, Numbered(G)
    PROVE  /\ \A e \in G : \E g \in FirstOf(G, Night) : g.stay = e.stay
           /\ \A e, f \in FirstOf(G, Night) : e.stay = f.stay => e = f
           /\ FirstOf(G, Night) \subseteq G
<1> DEFINE key == [x \in G |-> x.stay]  rank == [x \in G |-> x.id]
           first == {x \in G : \A f \in G : f.stay = x.stay => f.id >= x.id}
<1>1. FirstOf(G, Night) = first
  BY DEF FirstOf, Night
<1>2. \A e \in G : \E g \in G : key[g] = key[e] /\ IsFirst(g, G, key, rank)
  <2>1. \A e \in G : rank[e] \in Nat
    BY DEF Numbered
  <2> HIDE DEF rank, key
  <2> TAKE e \in G
  <2> QED
    BY <2>1, Firsts, Zenon
<1>3. \A e \in G : \E g \in first : g.stay = e.stay
  BY <1>2 DEF IsFirst
<1>4. ASSUME NEW e \in first, NEW f \in first, e.stay = f.stay PROVE e = f
  <2>3. e \in G /\ \A x \in G : x.stay = e.stay => x.id >= e.id
    OBVIOUS
  <2>4. f \in G /\ \A x \in G : x.stay = f.stay => x.id >= f.id
    OBVIOUS
  <2>1. e \in G /\ f \in G /\ e.id >= f.id /\ f.id >= e.id
    BY <1>4, <2>3, <2>4
  <2>2. e.id \in Nat /\ f.id \in Nat /\ (e.id = f.id => e = f)
    BY <2>1, Zenon DEF Numbered
  <2> QED
    BY <2>1, <2>2
<1> QED
  BY <1>1, <1>3, <1>4

\* The first events of each hotel and night, likewise.
LEMMA FirstHotelNight ==
    ASSUME NEW G, Numbered(G)
    PROVE  /\ \A e \in G : \E g \in FirstOf(G, LowStockKey) : g.hotel = e.hotel /\ g.stay = e.stay
           /\ \A e, f \in FirstOf(G, LowStockKey) : e.hotel = f.hotel /\ e.stay = f.stay => e = f
<1> DEFINE key == [x \in G |-> <<x.hotel, x.stay>>]  rank == [x \in G |-> x.id]
           first == {x \in G : \A f \in G : <<f.hotel, f.stay>> = <<x.hotel, x.stay>> => f.id >= x.id}
<1>1. FirstOf(G, LowStockKey) = first
  BY DEF FirstOf, LowStockKey, HotelNight
<1>2. \A e \in G : \E g \in G : key[g] = key[e] /\ IsFirst(g, G, key, rank)
  <2>1. \A e \in G : rank[e] \in Nat
    BY DEF Numbered
  <2> HIDE DEF rank, key
  <2> TAKE e \in G
  <2> QED
    BY <2>1, Firsts, Zenon
<1>3. \A e \in G : \E g \in first : g.hotel = e.hotel /\ g.stay = e.stay
  BY <1>2 DEF IsFirst
<1>4. ASSUME NEW e \in first, NEW f \in first, e.hotel = f.hotel /\ e.stay = f.stay PROVE e = f
  <2>3. e \in G /\ \A x \in G : x.hotel = e.hotel /\ x.stay = e.stay => x.id >= e.id
    OBVIOUS
  <2>4. f \in G /\ \A x \in G : x.hotel = f.hotel /\ x.stay = f.stay => x.id >= f.id
    OBVIOUS
  <2>1. e \in G /\ f \in G /\ e.id >= f.id /\ f.id >= e.id
    BY <1>4, <2>3, <2>4
  <2>2. e.id \in Nat /\ f.id \in Nat /\ (e.id = f.id => e = f)
    BY <2>1, Zenon DEF Numbered
  <2> QED
    BY <2>1, <2>2
<1> QED
  BY <1>1, <1>3, <1>4

\* Events that are left out leave a set of events.
LEMMA FewerAlerts ==
    ASSUME NEW G, IsAlerts(G), NEW F \in SUBSET G
    PROVE  IsAlerts(F) /\ Numbered(F)
BY DEF IsAlerts, Numbered

\* What a kind's rule finds in more events covers what it finds in fewer, and
\* is said once.
StillTold(kd, T, S) == Covers(T, S) /\ Single(T) /\ Of(kd, T)

\* Alerts of a kind stay told of fewer events when each night and hotel of the
\* fewer is one of the more.
LEMMA EachKept ==
    ASSUME NEW kd, NEW T, NEW S, kd \notin {"drift", "promo"},
           \A e \in S : \E f \in T : f.hotel = e.hotel /\ f.stay = e.stay,
           \A e, f \in T : e.hotel = f.hotel /\ e.stay = f.stay => e = f
    PROVE  StillTold(kd, ForEach(kd, T), ForEach(kd, S))
<1>1. kd # "drift"
  OBVIOUS
<1> QED
  BY <1>1, EachCovers, EachSingle, EachOf, Zenon DEF StillTold

\* So it is of competitors sold out, ...
LEMMA SoldOutKept ==
    ASSUME NEW G, IsAlerts(G), NEW F \in SUBSET G, NEW market, NEW p
    PROVE  StillTold("sold_out", SoldOut(G, market, p), SoldOut(F, market, p))
<1> DEFINE sold(e) == IF e.stay \in DOMAIN market THEN market[e.stay].soldOut ELSE 1
           some(E) == {e \in E : e.type = "sold_out" /\ OfHotel(e) /\ Competitor(e) /\ sold(e) >= p.min}
<1>1. \A E : SoldOut(E, market, p) = ForEach("sold_out", some(E))
  BY Zenon DEF SoldOut
<1> HIDE DEF sold
<1>2. some(F) \subseteq some(G) /\ some(G) \in SUBSET G /\ \A e \in some(G) : e.type = "sold_out" /\ OfHotel(e)
  OBVIOUS
<1> HIDE DEF some
<1>3. ASSUME NEW e \in some(G), NEW f \in some(G), e.hotel = f.hotel /\ e.stay = f.stay PROVE e = f
  <2>1. e \in G /\ f \in G /\ e.room = f.room /\ e.type = f.type
    BY <1>2, <1>3 DEF OfHotel
  <2> QED
    BY <1>3, <2>1, Zenon DEF IsAlerts
<1>4. \A e \in some(F) : \E f \in some(G) : f.hotel = e.hotel /\ f.stay = e.stay
  BY <1>2
<1>7. SoldOut(G, market, p) = ForEach("sold_out", some(G)) /\ SoldOut(F, market, p) = ForEach("sold_out", some(F))
  BY <1>1, Zenon
<1>5. "sold_out" \notin {"drift", "promo"}
  OBVIOUS
<1>6. StillTold("sold_out", ForEach("sold_out", some(G)), ForEach("sold_out", some(F)))
  BY <1>3, <1>4, <1>5, EachKept, Zenon
<1> QED
  BY <1>6, <1>7, Zenon

\* ... of prices that fell or rose, ...
LEMMA PriceKept ==
    ASSUME NEW G, IsAlerts(G), NEW F \in SUBSET G, NEW kd \in {"price_drop", "price_rise"}, NEW type, NEW p
    PROVE  StillTold(kd, PriceChanges(kd, type, G, p), PriceChanges(kd, type, F, p))
<1> DEFINE some(E) == {e \in E : e.type = type /\ OfHotel(e) /\ e.delta # None /\ Competitor(e) /\ Abs(e.delta) >= p.pct}
<1>1. \A E : PriceChanges(kd, type, E, p) = ForEach(kd, some(E))
  BY Zenon DEF PriceChanges
<1>2. some(F) \subseteq some(G) /\ some(G) \in SUBSET G /\ \A e \in some(G) : e.type = type /\ OfHotel(e)
  OBVIOUS
<1> HIDE DEF some
<1>3. ASSUME NEW e \in some(G), NEW f \in some(G), e.hotel = f.hotel /\ e.stay = f.stay PROVE e = f
  <2>1. e \in G /\ f \in G /\ e.room = f.room /\ e.type = f.type
    BY <1>2, <1>3 DEF OfHotel
  <2> QED
    BY <1>3, <2>1, Zenon DEF IsAlerts
<1>4. \A e \in some(F) : \E f \in some(G) : f.hotel = e.hotel /\ f.stay = e.stay
  BY <1>2
<1>7. /\ PriceChanges(kd, type, G, p) = ForEach(kd, some(G))
      /\ PriceChanges(kd, type, F, p) = ForEach(kd, some(F))
  BY <1>1, Zenon
<1>5. kd \notin {"drift", "promo"}
  OBVIOUS
<1>6. StillTold(kd, ForEach(kd, some(G)), ForEach(kd, some(F)))
  BY <1>3, <1>4, <1>5, EachKept, Zenon
<1> QED
  BY <1>6, <1>7, Zenon

\* ... of the own hotel closed, ...
LEMMA OwnClosedKept ==
    ASSUME NEW G, IsAlerts(G), NEW F \in SUBSET G
    PROVE  StillTold("own_closed", OwnClosed(G), OwnClosed(F))
<1> DEFINE some(E) == {e \in E : e.role = "self" /\ e.type \in {"sold_out", "restricted"} /\ OfHotel(e)}
<1>1. \A E : OwnClosed(E) = ForEach("own_closed", some(E))
  BY Zenon DEF OwnClosed
<1>2. some(F) \subseteq some(G)
  OBVIOUS
<1>3. ASSUME NEW e \in some(G), NEW f \in some(G), e.hotel = f.hotel /\ e.stay = f.stay PROVE e = f
  <2>1. e.type = f.type
    BY <1>3, Zenon DEF IsAlerts
  <2> QED
    BY <1>3, <2>1 DEF IsAlerts, OfHotel
<1> HIDE DEF some
<1>4. \A e \in some(F) : \E f \in some(G) : f.hotel = e.hotel /\ f.stay = e.stay
  BY <1>2
<1>5. "own_closed" \notin {"drift", "promo"}
  OBVIOUS
<1>6. StillTold("own_closed", ForEach("own_closed", some(G)), ForEach("own_closed", some(F)))
  BY <1>3, <1>4, <1>5, EachKept, Zenon
<1> QED
  BY <1>1, <1>6, Zenon

\* ... of rooms that run low, ...
LEMMA LowStockKept ==
    ASSUME NEW G, IsAlerts(G), NEW F \in SUBSET G
    PROVE  StillTold("low_stock", LowStockAlerts(G), LowStockAlerts(F))
<1> DEFINE some(E) == {e \in E : e.type = "low_stock_enter" /\ ~OfHotel(e) /\ Competitor(e)}
           first(E) == FirstOf(some(E), LowStockKey)
<1>1. \A E : LowStockAlerts(E) = ForEach("low_stock", first(E))
  BY Zenon DEF LowStockAlerts
<1>2. some(F) \subseteq some(G) /\ some(G) \in SUBSET G
  OBVIOUS
<1> HIDE DEF some
<1>3. Numbered(some(G))
  BY <1>2, FewerAlerts
<1>4. first(F) \subseteq some(F)
  BY DEF FirstOf
<1>5. /\ \A e \in some(G) : \E g \in first(G) : g.hotel = e.hotel /\ g.stay = e.stay
      /\ \A e, f \in first(G) : e.hotel = f.hotel /\ e.stay = f.stay => e = f
  BY <1>3, FirstHotelNight, Zenon
<1> HIDE DEF first
<1>6. \A e \in first(F) : \E f \in first(G) : f.hotel = e.hotel /\ f.stay = e.stay
  BY <1>2, <1>4, <1>5
<1>7. "low_stock" \notin {"drift", "promo"}
  OBVIOUS
<1>8. StillTold("low_stock", ForEach("low_stock", first(G)), ForEach("low_stock", first(F)))
  BY <1>5, <1>6, <1>7, EachKept, Zenon
<1> QED
  BY <1>1, <1>8, Zenon

\* ... of a market that is tight, ...
LEMMA TightKept ==
    ASSUME NEW G, IsAlerts(G), NEW F \in SUBSET G, NEW market, NEW p
    PROVE  StillTold("market_tight", MarketTight(G, market, p), MarketTight(F, market, p))
<1> DEFINE tight(d) == d \in DOMAIN market /\ market[d].observed >= 3
                       /\ (market[d].soldOut + market[d].low) * 100 >= p.share * market[d].observed
           some(E) == {e \in E : Competitor(e) /\ e.type \in Tightening}
           first(E) == FirstOf(some(E), Night)
           item(e) == Item("market_tight", None, e.stay, e)
<1>1. \A E : MarketTight(E, market, p) = {item(e) : e \in {x \in first(E) : tight(x.stay)}}
  BY Zenon DEF MarketTight
<1>2. some(F) \subseteq some(G) /\ some(G) \in SUBSET G /\ some(F) \in SUBSET G
  OBVIOUS
<1> HIDE DEF some, tight
<1>3. Numbered(some(G)) /\ Numbered(some(F))
  BY <1>2, FewerAlerts
<1>4. /\ \A e \in some(G) : \E g \in first(G) : g.stay = e.stay
      /\ \A e, f \in first(G) : e.stay = f.stay => e = f
      /\ first(F) \subseteq some(F)
  BY <1>3, FirstNight, Zenon
<1>5. \A e : item(e).kind = "market_tight" /\ Subject(item(e)) = <<"market_tight", None, e.stay>>
  BY ItemIs DEF Subject
<1> HIDE DEF first, item
<1>6. ASSUME NEW e \in first(F), tight(e.stay)
      PROVE  \E f \in first(G) : tight(f.stay) /\ Subject(item(f)) = Subject(item(e))
  <2>1. PICK f \in first(G) : f.stay = e.stay
    BY <1>2, <1>4
  <2> QED
    BY <1>5, <1>6, <2>1
<1>7. ASSUME NEW e \in first(G), NEW f \in first(G), Subject(item(e)) = Subject(item(f)) PROVE e = f
  <2>1. <<"market_tight", None, e.stay>> = <<"market_tight", None, f.stay>>
    BY <1>5, <1>7, Zenon
  <2>2. e.stay = f.stay
    BY <2>1
  <2> QED
    BY <1>4, <2>2
<1> DEFINE S == {item(e) : e \in {x \in first(F) : tight(x.stay)}}
           T == {item(e) : e \in {x \in first(G) : tight(x.stay)}}
<1>8. Covers(T, S)
  BY <1>6 DEF Covers
<1>9. Single(T) /\ Of("market_tight", T)
  BY <1>5, <1>7 DEF Single, Of
<1> HIDE DEF S, T
<1>10. StillTold("market_tight", T, S)
  BY <1>8, <1>9 DEF StillTold
<1> QED
  BY <1>1, <1>10, Zenon DEF S, T

\* ... of an own price off its target, ...
LEMMA DriftKept ==
    ASSUME NEW G, IsAlerts(G), NEW F \in SUBSET G, NEW market, NEW p, NEW target
    PROVE  StillTold("drift", Drift(G, market, p, target), Drift(F, market, p, target))
<1> DEFINE off(d) == d \in DOMAIN market /\ market[d].index # None /\ market[d].sample # "insufficient"
                     /\ Abs(market[d].index - target) > p.gap
           some(E) == {e \in E : e.type \in {"price_up", "price_down"} /\ OfHotel(e) /\ off(e.stay)}
           first(E) == FirstOf(some(E), Night)
           item(e) == Item("drift", IF e.role = "self" THEN e.hotel ELSE None, e.stay, e)
<1>1. \A E : Drift(E, market, p, target) = {item(e) : e \in first(E)}
  BY Zenon DEF Drift
<1> HIDE DEF off
<1>2. some(F) \subseteq some(G) /\ some(G) \in SUBSET G /\ some(F) \in SUBSET G
  OBVIOUS
<1> HIDE DEF some
<1>3. Numbered(some(G)) /\ Numbered(some(F))
  BY <1>2, FewerAlerts
<1>4. /\ \A e \in some(G) : \E g \in first(G) : g.stay = e.stay
      /\ \A e, f \in first(G) : e.stay = f.stay => e = f
      /\ first(F) \subseteq some(F)
  BY <1>3, FirstNight, Zenon
<1>5. \A e : item(e).kind = "drift" /\ Subject(item(e)) = <<"drift", e.stay>>
  BY ItemIs DEF Subject
<1> HIDE DEF first, item
<1>6. ASSUME NEW e \in first(F) PROVE \E f \in first(G) : Subject(item(f)) = Subject(item(e))
  <2>1. PICK f \in first(G) : f.stay = e.stay
    BY <1>2, <1>4
  <2> QED
    BY <1>5, <2>1
<1>7. ASSUME NEW e \in first(G), NEW f \in first(G), Subject(item(e)) = Subject(item(f)) PROVE e = f
  <2>1. <<"drift", e.stay>> = <<"drift", f.stay>>
    BY <1>5, <1>7, Zenon
  <2>2. e.stay = f.stay
    BY <2>1
  <2> QED
    BY <1>4, <2>2
<1> DEFINE S == {item(e) : e \in first(F)}  T == {item(e) : e \in first(G)}
<1>8. Covers(T, S)
  BY <1>6 DEF Covers
<1>9. Single(T) /\ Of("drift", T)
  BY <1>5, <1>7 DEF Single, Of
<1> HIDE DEF S, T
<1>10. StillTold("drift", T, S)
  BY <1>8, <1>9 DEF StillTold
<1> QED
  BY <1>1, <1>10, Zenon DEF S, T

\* ... and of promotions, told once for a hotel.
LEMMA PromoKept ==
    ASSUME NEW G, IsAlerts(G), NEW F \in SUBSET G, NEW p, \A e \in G : e.stay \in Nat
    PROVE  StillTold("promo", PromoAlerts(G, p), PromoAlerts(F, p))
<1> DEFINE starts(E) == {e \in E : e.type = "promo_start" /\ Competitor(e) /\ e.delta # None /\ e.delta >= p.pct}
           earlier(f, e) == f.stay < e.stay \/ (f.stay = e.stay /\ f.id < e.id)
           first(E) == {e \in starts(E) : \A f \in starts(E) : HotelPromo(f) = HotelPromo(e) => ~earlier(f, e)}
<1>1. \A E : PromoAlerts(E, p) = ForEach("promo", first(E))
  BY Zenon DEF PromoAlerts
<1>2. starts(F) \subseteq starts(G) /\ starts(G) \in SUBSET G
  OBVIOUS
<1> HIDE DEF starts
<1>3. ASSUME NEW e \in starts(G) PROVE \E g \in first(G) : g.hotel = e.hotel
  <2> DEFINE key == [x \in starts(G) |-> HotelPromo(x)]  stay == [x \in starts(G) |-> x.stay]
  <2>1. \A x \in starts(G) : stay[x] \in Nat
    BY <1>2
  <2>2. PICK a \in starts(G) : key[a] = key[e] /\ IsFirst(a, starts(G), key, stay)
    <3> HIDE DEF key, stay
    <3> QED
      BY <1>3, <2>1, Firsts, Zenon
  <2> DEFINE A == {x \in starts(G) : HotelPromo(x) = HotelPromo(a) /\ x.stay = a.stay}
             one == [x \in A |-> 0]  rank == [x \in A |-> x.id]
  <2>3. a \in A /\ \A x \in A : rank[x] \in Nat
    BY <1>2 DEF IsAlerts
  <2>4. PICK g \in A : one[g] = one[a] /\ IsFirst(g, A, one, rank)
    <3> HIDE DEF A, one, rank
    <3> QED
      BY <2>3, Firsts, Zenon
  <2>5. g \in starts(G) /\ HotelPromo(g) = HotelPromo(a) /\ g.stay = a.stay /\ \A f \in A : f.id >= g.id
    BY <2>4 DEF IsFirst
  <2>6. HotelPromo(a) = HotelPromo(e) /\ \A f \in starts(G) : HotelPromo(f) = HotelPromo(a) => f.stay >= a.stay
    BY <1>3, <2>2 DEF IsFirst
  <2>7. \A f \in starts(G) : f.stay \in Nat /\ f.id \in Nat
    BY <1>2 DEF IsAlerts
  <2>8. ASSUME NEW f \in starts(G), HotelPromo(f) = HotelPromo(g) PROVE ~earlier(f, g)
    <3>1. f.stay >= g.stay /\ (f.stay = g.stay => f.id >= g.id)
      BY <2>5, <2>6, <2>8
    <3> QED
      BY <2>5, <2>7, <3>1
  <2>9. g.hotel = e.hotel
    BY <2>5, <2>6 DEF HotelPromo
  <2> HIDE DEF A, earlier
  <2> QED
    BY <2>5, <2>8, <2>9
<1>4. first(F) \subseteq starts(F)
  OBVIOUS
<1> HIDE DEF first
<1>5. ASSUME NEW e \in first(F)
      PROVE  \E g \in first(G) : Subject(Item("promo", g.hotel, g.stay, g)) = Subject(Item("promo", e.hotel, e.stay, e))
  <2>1. PICK g \in first(G) : g.hotel = e.hotel
    BY <1>2, <1>3, <1>4
  <2> QED
    BY <2>1, PromoSubject
<1>6. Covers(ForEach("promo", first(G)), ForEach("promo", first(F)))
  BY <1>5 DEF Covers, ForEach
<1>7. Of("promo", ForEach("promo", first(G)))
  BY EachOf
<1>8. Single(ForEach("promo", first(G)))
  BY <1>7 DEF Single, Of
<1> QED
  BY <1>1, <1>6, <1>7, <1>8, Zenon DEF StillTold

\* All kinds together: what the rules tell of some events is about what they tell
\* of all of them, and nothing is told twice.
LEMMA AlertsStay ==
    ASSUME NEW rules, NEW facts, IsAlerts(facts), NEW market, NEW target
    PROVE  AlertsAreKept(rules, facts, market, target)
<1> DEFINE p(k) == rules[k].params
           seen(E, k) == {e \in E : WithinDays(e, 0, p(k).within)}
           of(k, S) == CASE k = "sold_out" -> SoldOut(S, market, p(k))
                         [] k = "low_stock" -> LowStockAlerts(S)
                         [] k = "price_drop" -> PriceChanges(k, "price_down", S, p(k))
                         [] k = "price_rise" -> PriceChanges(k, "price_up", S, p(k))
                         [] k = "market_tight" -> MarketTight(S, market, p(k))
                         [] k = "promo" -> PromoAlerts(S, p(k))
                         [] k = "drift" -> Drift(S, market, p(k), target)
                         [] k = "own_closed" -> OwnClosed(S)
           active == {x \in AlertKinds : rules[x].active}
           items(E) == UNION {of(k, seen(E, k)) : k \in active}
<1>1. \A E : EvaluateAlerts(rules, E, market, 0, target) = items(E)
  BY Zenon DEF EvaluateAlerts
<1>2. ASSUME NEW k \in AlertKinds, NEW E \in SUBSET facts
      PROVE  /\ seen(E, k) \in SUBSET seen(facts, k) /\ IsAlerts(seen(facts, k))
             /\ \A e \in seen(facts, k) : e.stay \in Nat
  <2>1. seen(E, k) \in SUBSET seen(facts, k) /\ seen(facts, k) \in SUBSET facts
    OBVIOUS
  <2>2. \A e \in seen(facts, k) : e.stay \in Nat
    BY DEF WithinDays, IsAlerts
  <2> HIDE DEF seen
  <2> QED
    BY <2>1, <2>2, FewerAlerts
<1>3. ASSUME NEW k \in AlertKinds, NEW E \in SUBSET facts
      PROVE  StillTold(k, of(k, seen(facts, k)), of(k, seen(E, k)))
  <2> DEFINE G == seen(facts, k)  F == seen(E, k)
  <2>1. F \in SUBSET G /\ IsAlerts(G) /\ \A e \in G : e.stay \in Nat
    BY <1>2
  <2> SUFFICES StillTold(k, of(k, G), of(k, F))
    OBVIOUS
  <2> HIDE DEF G, F, p
  <2>2. CASE k = "sold_out"
    <3>1. of(k, G) = SoldOut(G, market, p(k)) /\ of(k, F) = SoldOut(F, market, p(k))
      BY <2>2
    <3> HIDE DEF of
    <3> QED
      BY <2>1, <2>2, <3>1, SoldOutKept, Zenon
  <2>3. CASE k = "low_stock"
    <3>1. of(k, G) = LowStockAlerts(G) /\ of(k, F) = LowStockAlerts(F)
      BY <2>3
    <3> HIDE DEF of
    <3> QED
      BY <2>1, <2>3, <3>1, LowStockKept, Zenon
  <2>4. CASE k = "price_drop"
    <3>1. of(k, G) = PriceChanges(k, "price_down", G, p(k)) /\ of(k, F) = PriceChanges(k, "price_down", F, p(k))
      BY <2>4
    <3>2. k \in {"price_drop", "price_rise"}
      BY <2>4
    <3> HIDE DEF of
    <3> QED
      BY <2>1, <2>4, <3>1, <3>2, PriceKept, Zenon
  <2>5. CASE k = "price_rise"
    <3>1. of(k, G) = PriceChanges(k, "price_up", G, p(k)) /\ of(k, F) = PriceChanges(k, "price_up", F, p(k))
      BY <2>5
    <3>2. k \in {"price_drop", "price_rise"}
      BY <2>5
    <3> HIDE DEF of
    <3> QED
      BY <2>1, <2>5, <3>1, <3>2, PriceKept, Zenon
  <2>6. CASE k = "market_tight"
    <3>1. of(k, G) = MarketTight(G, market, p(k)) /\ of(k, F) = MarketTight(F, market, p(k))
      BY <2>6
    <3> HIDE DEF of
    <3> QED
      BY <2>1, <2>6, <3>1, TightKept, Zenon
  <2>7. CASE k = "promo"
    <3>1. of(k, G) = PromoAlerts(G, p(k)) /\ of(k, F) = PromoAlerts(F, p(k))
      BY <2>7
    <3> HIDE DEF of
    <3> QED
      BY <2>1, <2>7, <3>1, PromoKept, Zenon
  <2>8. CASE k = "drift"
    <3>1. of(k, G) = Drift(G, market, p(k), target) /\ of(k, F) = Drift(F, market, p(k), target)
      BY <2>8
    <3> HIDE DEF of
    <3> QED
      BY <2>1, <2>8, <3>1, DriftKept, Zenon
  <2>9. CASE k = "own_closed"
    <3>1. of(k, G) = OwnClosed(G) /\ of(k, F) = OwnClosed(F)
      BY <2>9
    <3> HIDE DEF of
    <3> QED
      BY <2>1, <2>9, <3>1, OwnClosedKept, Zenon
  <2> QED
    BY <2>2, <2>3, <2>4, <2>5, <2>6, <2>7, <2>8, <2>9, Zenon DEF AlertKinds
<1>4. active \subseteq AlertKinds
  OBVIOUS
<1> HIDE DEF of, seen, active, p
<1>5. ASSUME NEW E \in SUBSET facts, NEW i \in items(E) PROVE \E j \in items(facts) : Subject(j) = Subject(i)
  <2>1. PICK k \in active : i \in of(k, seen(E, k))
    BY <1>5
  <2>2. PICK j \in of(k, seen(facts, k)) : Subject(j) = Subject(i)
    BY <1>3, <1>4, <2>1 DEF StillTold, Covers
  <2> QED
    BY <2>1, <2>2
<1>6. ASSUME NEW i \in items(facts), NEW j \in items(facts), i # j, i.kind # "promo" PROVE Subject(i) # Subject(j)
  <2>1. PICK k \in active : i \in of(k, seen(facts, k))
    BY <1>6
  <2>2. PICK l \in active : j \in of(l, seen(facts, l))
    BY <1>6
  <2>3. facts \in SUBSET facts
    OBVIOUS
  <2>4. i.kind = k /\ j.kind = l /\ Single(of(k, seen(facts, k)))
    BY <1>3, <1>4, <2>1, <2>2, <2>3 DEF StillTold, Of
  <2>5. CASE k = l
    BY <1>6, <2>1, <2>2, <2>4, <2>5 DEF Single
  <2>6. CASE k # l
    BY <2>4, <2>6, SubjectKind, Zenon
  <2> QED
    BY <2>5, <2>6
<1> HIDE DEF items
<1>7. \A E \in SUBSET facts : {Subject(i) : i \in items(E)} \subseteq {Subject(i) : i \in items(facts)}
  BY <1>5
<1> DEFINE said(E) == EvaluateAlerts(rules, E, market, 0, target)
<1>8. \A E \in SUBSET facts : {Subject(i) : i \in said(E)} \subseteq {Subject(i) : i \in said(facts)}
  BY <1>1, <1>7
<1>9. \A i, j \in said(facts) : i # j /\ i.kind # "promo" => Subject(i) # Subject(j)
  BY <1>1, <1>6
<1> HIDE DEF items
<1> QED
  BY <1>8, <1>9, Zenon DEF AlertsAreKept, Subject

\* Of any events of a run, under any rules, what some of them would have said
\* alone is still said when they are grouped, and nothing is said twice of one
\* night (alert_rules.py evaluate_alerts).
THEOREM NoAlertIsLost == FiguresSpec => []AlertsAreComplete
<1>1. FiguresInit => AlertsAreComplete
  BY AnalysisInputs, AlertsStay DEF FiguresInit, AlertsAreComplete
<1>2. AlertsAreComplete /\ [FiguresNext]_<<kind, input>> => AlertsAreComplete'
  BY DEF FiguresNext, AlertsAreComplete
<1> QED
  BY <1>1, <1>2, PTL DEF FiguresSpec

-----------------------------------------------------------------------------
(* Sums.                                                                     *)

\* What holds of each set of members when it holds of the set without any one
\* of them, holds of all subsets of a finite set.
LEMMA FiniteOneByOne ==
    ASSUME NEW D, IsFiniteSet(D), NEW G,
           \A S \in SUBSET D : (\A x \in S : S \ {x} \in G) => S \in G
    PROVE  \A S \in SUBSET D : S \in G
<1> DEFINE Bad == {k \in Nat : \E S \in SUBSET D : Cardinality(S) = k /\ S \notin G}
<1>1. Bad = {}
  <2> SUFFICES ASSUME Bad # {} PROVE FALSE
    OBVIOUS
  <2>1. PICK k \in Bad : \A j \in Bad : k <= j
    BY LeastElement
  <2>2. PICK S \in SUBSET D : Cardinality(S) = k /\ S \notin G
    OBVIOUS
  <2>3. PICK x \in S : S \ {x} \notin G
    BY <2>2
  <2>4. S \ {x} \in SUBSET D
    BY <2>2, <2>3
  <2>5. Cardinality(S) \in Nat /\ Cardinality(S \ {x}) \in Nat /\ Cardinality(S \ {x}) = Cardinality(S) - 1
    BY <2>3, FS_Subset, FS_CardinalityType, FS_RemoveElement
  <2>6. k - 1 \in Bad
    BY <2>2, <2>3, <2>4, <2>5
  <2>7. k \in Nat /\ k <= k - 1
    BY <2>1, <2>6
  <2> QED
    BY <2>7
<1> SUFFICES ASSUME NEW S \in SUBSET D, S \notin G PROVE FALSE
  OBVIOUS
<1>2. Cardinality(S) \in Nat
  BY FS_Subset, FS_CardinalityType
<1>3. Cardinality(S) \in Bad
  BY <1>2
<1> QED
  BY <1>1, <1>3

\* The sums of the parts of a function's domain.
Pick(S) == CHOOSE x \in S : TRUE
Sums(g) == CHOOSE it : it = [S \in SUBSET DOMAIN g |-> IF S = {} THEN 0 ELSE g[Pick(S)] + it[S \ {Pick(S)}]]

\* The sum of a function is that of its figures over all of its domain.
LEMMA SumOfIs == \A g : SumOf(g) = Sums(g)[DOMAIN g]
BY Zenon DEF SumOf, MapThenSumSet, MapThenFoldSet, Sums, Pick

SumUp(it, g, C) == \A S \in C : it[S] = IF S = {} THEN 0 ELSE g[Pick(S)] + it[S \ {Pick(S)}]

\* There is a sum that takes one member away at a time.
LEMMA SumsExist ==
    ASSUME NEW D, IsFiniteSet(D), NEW g \in [D -> Int]
    PROVE  \E it \in [SUBSET D -> Int] : SumUp(it, g, SUBSET D)
<1> DEFINE Sub(k) == {S \in SUBSET D : Cardinality(S) <= k}
           Is(it, C) == /\ it \in [C -> Int]
                        /\ \A S \in C : it[S] = IF S = {} THEN 0 ELSE g[Pick(S)] + it[S \ {Pick(S)}]
           Bad == {k \in Nat : ~ \E it : Is(it, Sub(k))}
<1>0. \A S \in SUBSET D : IsFiniteSet(S) /\ Cardinality(S) \in Nat /\ (Cardinality(S) = 0 <=> S = {})
  BY FS_Subset, FS_CardinalityType, FS_EmptySet
<1>p. \A S : S # {} => Pick(S) \in S
  BY DEF Pick
<1>1. \E it : Is(it, Sub(0))
  <2>1. Sub(0) = {{}}
    BY <1>0
  <2>2. Is([S \in {{}} |-> 0], {{}})
    OBVIOUS
  <2> HIDE DEF Is, Sub
  <2> QED
    BY <2>1, <2>2
<1>2. ASSUME NEW k \in Nat, NEW it, Is(it, Sub(k)) PROVE \E x : Is(x, Sub(k + 1))
  <2> DEFINE next == [S \in Sub(k + 1) |-> IF S = {} THEN 0 ELSE g[Pick(S)] + it[S \ {Pick(S)}]]
  <2>1. ASSUME NEW S \in Sub(k + 1), S # {}
        PROVE  Pick(S) \in D /\ S \ {Pick(S)} \in Sub(k)
    <3>1. Pick(S) \in S /\ S \in SUBSET D /\ Cardinality(S) <= k + 1
      BY <1>p, <2>1
    <3>2. PICK x \in S : x = Pick(S)
      BY <3>1
    <3>3. IsFiniteSet(S) /\ Cardinality(S) \in Nat
      BY <1>0, <3>1
    <3>4. Cardinality(S \ {x}) = Cardinality(S) - 1
      BY <3>2, <3>3, FS_RemoveElement
    <3>5. S \ {x} \in SUBSET D /\ Cardinality(S \ {x}) <= k
      BY <3>1, <3>3, <3>4
    <3> QED
      BY <3>1, <3>2, <3>5
  <2>2. Sub(k) \subseteq Sub(k + 1)
    BY <1>0
  <2> HIDE DEF Sub, Bad
  <2>3. \A S \in Sub(k) : next[S] = it[S]
    BY <1>2, <2>2
  <2>4. next \in [Sub(k + 1) -> Int]
    BY <1>2, <2>1
  <2>5. \A S \in Sub(k + 1) : next[S] = IF S = {} THEN 0 ELSE g[Pick(S)] + next[S \ {Pick(S)}]
    BY <2>1, <2>3
  <2> HIDE DEF next
  <2> QED
    BY <2>4, <2>5
<1>3. Bad = {}
  <2> HIDE DEF Is, Sub
  <2> SUFFICES ASSUME Bad # {} PROVE FALSE
    OBVIOUS
  <2>1. PICK k \in Bad : \A j \in Bad : k <= j
    BY LeastElement
  <2>2. k \in Nat /\ k # 0
    BY <1>1
  <2>3. k - 1 \in Nat /\ k - 1 \notin Bad
    BY <2>1, <2>2
  <2>4. \E it : Is(it, Sub(k - 1))
    BY <2>3
  <2>5. \E it : Is(it, Sub((k - 1) + 1))
    BY <1>2, <2>3, <2>4
  <2> QED
    BY <2>2, <2>5
<1>4. Cardinality(D) \in Nat /\ Sub(Cardinality(D)) = SUBSET D
  BY FS_Subset, FS_CardinalityType
<1>5. PICK it : Is(it, Sub(Cardinality(D)))
  <2> HIDE DEF Is, Sub
  <2> QED
    BY <1>3, <1>4
<1> HIDE DEF Sub
<1> QED
  BY <1>4, <1>5 DEF SumUp

\* s holds the sums of the parts of D, one member taken out at a time.
AddsPick(s, g, D) == /\ s \in [SUBSET D -> Int]
                     /\ s[{}] = 0
                     /\ \A S \in SUBSET D : S # {} => s[S] = g[Pick(S)] + s[S \ {Pick(S)}]

\* Sums is one.
LEMMA SumsAre ==
    ASSUME NEW D, IsFiniteSet(D), NEW g \in [D -> Int]
    PROVE  AddsPick(Sums(g), g, D)
<1> DEFINE Body(it) == [S \in SUBSET D |-> IF S = {} THEN 0 ELSE g[Pick(S)] + it[S \ {Pick(S)}]]
           s == Sums(g)
<1>14. PICK it \in [SUBSET D -> Int] : SumUp(it, g, SUBSET D)
  BY SumsExist
<1>1. \A S \in SUBSET D : it[S] = IF S = {} THEN 0 ELSE g[Pick(S)] + it[S \ {Pick(S)}]
  BY <1>14 DEF SumUp
<1>2. it = Body(it)
  BY <1>1
<1>3. DOMAIN g = D
  OBVIOUS
<1>4. s = CHOOSE x : x = Body(x)
  BY <1>3, Zenon DEF Sums
<1>5. s = Body(s)
  BY <1>2, <1>4
<1> HIDE DEF s
<1>6. \A S : S # {} => Pick(S) \in S
  BY DEF Pick
<1>13. \A S \in SUBSET D : s[S] = IF S = {} THEN 0 ELSE g[Pick(S)] + s[S \ {Pick(S)}]
  BY <1>5
<1>7. s[{}] = 0 /\ \A S \in SUBSET D : S # {} => s[S] = g[Pick(S)] + s[S \ {Pick(S)}]
  BY <1>13
<1>8. DOMAIN s = SUBSET D /\ s = [S \in SUBSET D |-> s[S]]
  BY <1>5
<1> DEFINE Bad == {k \in Nat : \E S \in SUBSET D : Cardinality(S) = k /\ s[S] # it[S]}
<1>9. ASSUME NEW S \in SUBSET D, S # {}, s[S \ {Pick(S)}] = it[S \ {Pick(S)}] PROVE s[S] = it[S]
  BY <1>1, <1>7, <1>9
<1>10. Bad = {}
  <2> SUFFICES ASSUME Bad # {} PROVE FALSE
    OBVIOUS
  <2>1. PICK k \in Bad : \A j \in Bad : k <= j
    BY LeastElement
  <2>2. PICK S \in SUBSET D : Cardinality(S) = k /\ s[S] # it[S]
    OBVIOUS
  <2>3. S # {}
    BY <1>1, <1>7, <2>2
  <2>4. s[S \ {Pick(S)}] # it[S \ {Pick(S)}] /\ Pick(S) \in S
    BY <1>6, <1>9, <2>2, <2>3
  <2>5. PICK x \in S : x = Pick(S)
    BY <2>4
  <2>6. Cardinality(S) \in Nat /\ Cardinality(S \ {x}) \in Nat /\ Cardinality(S \ {x}) = Cardinality(S) - 1
    BY FS_Subset, FS_CardinalityType, FS_RemoveElement
  <2>7. k - 1 \in Bad
    BY <2>2, <2>4, <2>5, <2>6
  <2>8. k \in Nat /\ k <= k - 1
    BY <2>1, <2>7
  <2> QED
    BY <2>8
<1>11. \A S \in SUBSET D : s[S] = it[S]
  <2> SUFFICES ASSUME NEW S \in SUBSET D, s[S] # it[S] PROVE FALSE
    OBVIOUS
  <2>1. Cardinality(S) \in Nat
    BY FS_Subset, FS_CardinalityType
  <2> QED
    BY <1>10, <2>1
<1>12. s = it
  BY <1>1, <1>8, <1>11
<1> QED
  BY <1>1, <1>7, <1>12 DEF s, AddsPick

\* s holds the sums of the parts of D.
Adds(s, g, D) == /\ s \in [SUBSET D -> Int]
                 /\ s[{}] = 0
                 /\ \A S \in SUBSET D : \A x \in S : s[S] = g[x] + s[S \ {x}]

\* Whichever member is taken out first, the sum is the same.
LEMMA SumsAny ==
    ASSUME NEW D, IsFiniteSet(D), NEW g \in [D -> Int]
    PROVE  Adds(Sums(g), g, D)
<1> DEFINE s == Sums(g)
           G == {S \in SUBSET D : \A x \in S : s[S] = g[x] + s[S \ {x}]}
<1>1. s \in [SUBSET D -> Int] /\ s[{}] = 0 /\ \A S \in SUBSET D : S # {} => s[S] = g[Pick(S)] + s[S \ {Pick(S)}]
  <2>1. AddsPick(s, g, D)
    BY SumsAre
  <2> QED
    BY <2>1 DEF AddsPick
<1> HIDE DEF s
<1>2. ASSUME NEW S \in SUBSET D, \A x \in S : S \ {x} \in G, NEW x \in S PROVE s[S] = g[x] + s[S \ {x}]
  <2>1. Pick(S) \in S
    BY DEF Pick
  <2>2. PICK p \in S : p = Pick(S)
    BY <2>1
  <2>3. s[S] = g[p] + s[S \ {p}]
    BY <1>1, <2>1, <2>2
  <2>4. CASE p = x
    BY <2>3, <2>4
  <2>5. CASE p # x
    <3>1. s[S \ {p}] = g[x] + s[(S \ {p}) \ {x}] /\ s[S \ {x}] = g[p] + s[(S \ {x}) \ {p}]
      BY <1>2, <2>5
    <3>2. (S \ {p}) \ {x} = (S \ {x}) \ {p}
      OBVIOUS
    <3>3. PICK r : r = s[(S \ {x}) \ {p}]
      OBVIOUS
    <3>4. r \in Int /\ g[x] \in Int /\ g[p] \in Int
      BY <1>1, <3>3
    <3>5. s[S \ {p}] = g[x] + r /\ s[S \ {x}] = g[p] + r
      BY <3>1, <3>2, <3>3
    <3> QED
      BY <2>3, <3>4, <3>5
  <2> QED
    BY <2>4, <2>5
<1>3. \A S \in SUBSET D : (\A x \in S : S \ {x} \in G) => S \in G
  BY <1>2
<1> HIDE DEF G
<1>4. \A S \in SUBSET D : S \in G
  BY <1>3, FiniteOneByOne
<1> QED
  BY <1>1, <1>4 DEF s, G, Adds

\* A sum is one of the figures and the sum of the others.
LEMMA SumSplit ==
    ASSUME NEW D, IsFiniteSet(D), NEW g \in [D -> Int]
    PROVE  SumOf(g) = Sums(g)[D] /\ SumOf(g) \in Int
<1>1. DOMAIN g = D
  OBVIOUS
<1>2. SumOf(g) = Sums(g)[D]
  BY <1>1, SumOfIs
<1>3. Adds(Sums(g), g, D)
  BY SumsAny
<1> QED
  BY <1>2, <1>3 DEF Adds

\* The sum of a part of the figures.
LEMMA SumPart ==
    ASSUME NEW D, IsFiniteSet(D), NEW g \in [D -> Int], NEW E \in SUBSET D
    PROVE  SumOf([x \in E |-> g[x]]) = Sums(g)[E]
<1> DEFINE h == [x \in E |-> g[x]]
           s == Sums(g)  t == Sums(h)
           G == {S \in SUBSET E : t[S] = s[S]}
<1>1. IsFiniteSet(E) /\ h \in [E -> Int]
  BY FS_Subset
<1>2. Adds(s, g, D)
  BY SumsAny
<1>3. Adds(t, h, E)
  <2> HIDE DEF h
  <2> QED
    BY <1>1, SumsAny
<1>4. SumOf(h) = t[E]
  <2> HIDE DEF h
  <2> QED
    BY <1>1, SumSplit
<1>5. \A x \in E : h[x] = g[x]
  OBVIOUS
<1> HIDE DEF s, t, h
<1>6. \A S \in SUBSET E : (\A x \in S : S \ {x} \in G) => S \in G
  <2> SUFFICES ASSUME NEW S \in SUBSET E, \A x \in S : S \ {x} \in G PROVE t[S] = s[S]
    OBVIOUS
  <2>1. CASE S = {}
    BY <1>2, <1>3, <2>1 DEF Adds
  <2>2. CASE S # {}
    <3>1. PICK x \in S : t[S \ {x}] = s[S \ {x}]
      BY <2>2
    <3> QED
      BY <1>2, <1>3, <1>5, <3>1 DEF Adds
  <2> QED
    BY <2>1, <2>2
<1> HIDE DEF G
<1>7. \A S \in SUBSET E : S \in G
  BY <1>1, <1>6, FiniteOneByOne
<1> QED
  BY <1>4, <1>7 DEF G, h, s, t

\* The sum of two parts that have no member in common.
LEMMA SumsUnion ==
    ASSUME NEW D, IsFiniteSet(D), NEW g \in [D -> Int], NEW A \in SUBSET D, NEW B \in SUBSET D, A \cap B = {}
    PROVE  Sums(g)[A \cup B] = Sums(g)[A] + Sums(g)[B]
<1> DEFINE s == Sums(g)
           G == {S \in SUBSET A : s[S \cup B] = s[S] + s[B]}
<1>1. Adds(s, g, D)
  BY SumsAny
<1> HIDE DEF s
<1>2. \A S \in SUBSET A : (\A x \in S : S \ {x} \in G) => S \in G
  <2> SUFFICES ASSUME NEW S \in SUBSET A, \A x \in S : S \ {x} \in G PROVE s[S \cup B] = s[S] + s[B]
    OBVIOUS
  <2>1. CASE S = {}
    <3>1. S \cup B = B /\ s[B] \in Int
      BY <1>1, <2>1 DEF Adds
    <3> QED
      BY <1>1, <2>1, <3>1 DEF Adds
  <2>2. CASE S # {}
    <3>1. PICK x \in S : s[(S \ {x}) \cup B] = s[S \ {x}] + s[B]
      BY <2>2
    <3>2. (S \cup B) \ {x} = (S \ {x}) \cup B
      BY <3>1
    <3>3. s[S \cup B] = g[x] + s[(S \ {x}) \cup B] /\ s[S] = g[x] + s[S \ {x}]
      <4>1. S \cup B \in SUBSET D /\ S \in SUBSET D /\ x \in S \cup B /\ x \in S
        OBVIOUS
      <4>2. s[S \cup B] = g[x] + s[(S \cup B) \ {x}]
        BY <1>1, <4>1 DEF Adds
      <4>3. s[S] = g[x] + s[S \ {x}]
        BY <1>1, <4>1 DEF Adds
      <4> QED
        BY <3>2, <4>2, <4>3
    <3>4. g[x] \in Int /\ s[S \ {x}] \in Int /\ s[B] \in Int
      BY <1>1 DEF Adds
    <3> QED
      BY <3>1, <3>3, <3>4
  <2> QED
    BY <2>1, <2>2
<1>3. IsFiniteSet(A)
  BY FS_Subset
<1> HIDE DEF G
<1>4. \A S \in SUBSET A : S \in G
  BY <1>2, <1>3, FiniteOneByOne
<1> QED
  BY <1>4 DEF G, s

\* Greater figures have a greater sum.
LEMMA SumsGrow ==
    ASSUME NEW D, IsFiniteSet(D), NEW g \in [D -> Int], NEW h \in [D -> Int], \A x \in D : g[x] <= h[x]
    PROVE  Sums(g)[D] <= Sums(h)[D]
<1> DEFINE s == Sums(g)  t == Sums(h)
           G == {S \in SUBSET D : s[S] <= t[S]}
<1>1. Adds(s, g, D)
  BY SumsAny
<1>2. Adds(t, h, D)
  BY SumsAny
<1> HIDE DEF s, t
<1>3. \A S \in SUBSET D : (\A x \in S : S \ {x} \in G) => S \in G
  <2> SUFFICES ASSUME NEW S \in SUBSET D, \A x \in S : S \ {x} \in G PROVE s[S] <= t[S]
    OBVIOUS
  <2>1. CASE S = {}
    BY <1>1, <1>2, <2>1 DEF Adds
  <2>2. CASE S # {}
    <3>1. PICK x \in S : s[S \ {x}] <= t[S \ {x}]
      BY <2>2
    <3>2. s[S] = g[x] + s[S \ {x}] /\ t[S] = h[x] + t[S \ {x}] /\ g[x] <= h[x]
      BY <1>1, <1>2 DEF Adds
    <3>3. g[x] \in Int /\ h[x] \in Int /\ s[S \ {x}] \in Int /\ t[S \ {x}] \in Int
      BY <1>1, <1>2 DEF Adds
    <3> QED
      BY <3>1, <3>2, <3>3
  <2> QED
    BY <2>1, <2>2
<1> HIDE DEF G
<1>4. \A S \in SUBSET D : S \in G
  BY <1>3, FiniteOneByOne
<1> QED
  BY <1>4 DEF G, s, t

\* The sum of what falls to each member of B.
Fibred(h, g, to, D, B) == \A b \in B : h[b] = Sums(g)[{x \in D : to[x] = b}]

\* Figures may be added up group by group.
LEMMA SumsFibres ==
    ASSUME NEW D, IsFiniteSet(D), NEW g \in [D -> Int], NEW B, IsFiniteSet(B), NEW to \in [D -> B],
           NEW h \in [B -> Int], Fibred(h, g, to, D, B)
    PROVE  Sums(g)[D] = Sums(h)[B]
<1> DEFINE s == Sums(g)  t == Sums(h)
           G == {C \in SUBSET B : s[{x \in D : to[x] \in C}] = t[C]}
<1>1. Adds(s, g, D)
  BY SumsAny
<1>0. ASSUME NEW R \in SUBSET D, NEW S \in SUBSET D, R \cap S = {} PROVE s[R \cup S] = s[R] + s[S]
  BY <1>0, SumsUnion
<1>2. Adds(t, h, B)
  BY SumsAny
<1>3. \A b \in B : h[b] = s[{x \in D : to[x] = b}]
  BY DEF Fibred
<1> HIDE DEF s, t
<1>4. \A C \in SUBSET B : (\A b \in C : C \ {b} \in G) => C \in G
  <2> SUFFICES ASSUME NEW C \in SUBSET B, \A b \in C : C \ {b} \in G PROVE s[{x \in D : to[x] \in C}] = t[C]
    OBVIOUS
  <2>1. CASE C = {}
    <3>1. {x \in D : to[x] \in C} = {}
      BY <2>1
    <3> QED
      BY <1>1, <1>2, <2>1, <3>1 DEF Adds
  <2>2. CASE C # {}
    <3>1. PICK b \in C : s[{x \in D : to[x] \in C \ {b}}] = t[C \ {b}]
      BY <2>2
    <3> DEFINE R == {x \in D : to[x] = b}  S == {x \in D : to[x] \in C \ {b}}
    <3>2. R \in SUBSET D /\ S \in SUBSET D /\ R \cap S = {} /\ {x \in D : to[x] \in C} = R \cup S
      BY <3>1
    <3>3. h[b] = s[R] /\ s[S] = t[C \ {b}] /\ t[C] = h[b] + t[C \ {b}]
      BY <1>2, <1>3, <3>1 DEF Adds
    <3>4. h[b] \in Int /\ t[C \ {b}] \in Int
      BY <1>2 DEF Adds
    <3> HIDE DEF R, S
    <3>5. s[R \cup S] = s[R] + s[S]
      BY <1>0, <3>2
    <3> QED
      BY <3>2, <3>3, <3>4, <3>5
  <2> QED
    BY <2>1, <2>2
<1> HIDE DEF G
<1>5. \A S \in SUBSET B : S \in G
  BY <1>4, FiniteOneByOne
<1>6. {x \in D : to[x] \in B} = D
  OBVIOUS
<1> QED
  BY <1>5, <1>6 DEF G, s, t

\* The sum of figures that are not negative is not negative, and is nothing
\* only if they all are.
LEMMA SumsZero ==
    ASSUME NEW D, IsFiniteSet(D), NEW g \in [D -> Int], \A x \in D : g[x] >= 0
    PROVE  /\ \A S \in SUBSET D : Sums(g)[S] >= 0
           /\ Sums(g)[D] = 0 <=> \A x \in D : g[x] = 0
<1> DEFINE s == Sums(g)
           G == {S \in SUBSET D : s[S] >= 0 /\ (s[S] = 0 <=> \A x \in S : g[x] = 0)}
<1>1. Adds(s, g, D)
  BY SumsAny
<1> HIDE DEF s
<1>2. \A S \in SUBSET D : (\A x \in S : S \ {x} \in G) => S \in G
  <2> SUFFICES ASSUME NEW S \in SUBSET D, \A x \in S : S \ {x} \in G
               PROVE  s[S] >= 0 /\ (s[S] = 0 <=> \A x \in S : g[x] = 0)
    OBVIOUS
  <2>1. CASE S = {}
    BY <1>1, <2>1 DEF Adds
  <2>2. CASE S # {}
    <3>1. PICK x \in S : s[S \ {x}] >= 0 /\ (s[S \ {x}] = 0 <=> \A y \in S \ {x} : g[y] = 0)
      BY <2>2
    <3>2. s[S] = g[x] + s[S \ {x}] /\ g[x] >= 0 /\ g[x] \in Int /\ s[S \ {x}] \in Int
      BY <1>1 DEF Adds
    <3>3. (\A y \in S : g[y] = 0) <=> g[x] = 0 /\ \A y \in S \ {x} : g[y] = 0
      OBVIOUS
    <3>4. s[S] = 0 <=> g[x] = 0 /\ s[S \ {x}] = 0
      BY <3>1, <3>2
    <3>5. s[S] >= 0
      BY <3>1, <3>2
    <3> QED
      BY <3>1, <3>3, <3>4, <3>5
  <2> QED
    BY <2>1, <2>2
<1> HIDE DEF G
<1>3. \A S \in SUBSET D : S \in G
  BY <1>2, FiniteOneByOne
<1> QED
  BY <1>3 DEF G, s

\* Sums of no figure, of one, and of two.
AddsFew(s, g, D) == /\ s[{}] = 0
                    /\ \A x \in D : s[{x}] = g[x]
                    /\ \A x, y \in D : x # y => s[{x, y}] = g[x] + g[y]

\* The sum of none is 0, of one is its figure.
LEMMA SumsFew ==
    ASSUME NEW D, IsFiniteSet(D), NEW g \in [D -> Int]
    PROVE  AddsFew(Sums(g), g, D)
<1> DEFINE s == Sums(g)
<1>1. Adds(s, g, D)
  BY SumsAny
<1> HIDE DEF s
<1>2. s[{}] = 0
  BY <1>1 DEF Adds
<1>3. ASSUME NEW x \in D PROVE s[{x}] = g[x]
  <2>1. {x} \ {x} = {} /\ {x} \in SUBSET D
    OBVIOUS
  <2>2. s[{x}] = g[x] + s[{x} \ {x}] /\ g[x] \in Int
    BY <1>1, <2>1 DEF Adds
  <2> QED
    BY <1>2, <2>1, <2>2
<1>4. ASSUME NEW x \in D, NEW y \in D, x # y PROVE s[{x, y}] = g[x] + g[y]
  <2>1. {x, y} \ {x} = {y} /\ {x, y} \in SUBSET D
    BY <1>4
  <2>2. s[{x, y}] = g[x] + s[{x, y} \ {x}]
    BY <1>1, <2>1 DEF Adds
  <2> QED
    BY <1>3, <2>1, <2>2
<1> QED
  BY <1>2, <1>3, <1>4 DEF s, AddsFew

\* Figures that are nothing outside E add up to those of E.
LEMMA SumsWhere ==
    ASSUME NEW D, IsFiniteSet(D), NEW g \in [D -> Int], NEW E \in SUBSET D, \A x \in D \ E : g[x] = 0
    PROVE  SumOf([x \in E |-> g[x]]) = Sums(g)[D]
<1> DEFINE s == Sums(g)  F == D \ E
           G == {S \in SUBSET F : s[S] = 0}
<1>1. Adds(s, g, D)
  BY SumsAny
<1>2. s[E \cup F] = s[E] + s[F]
  <2>1. ASSUME NEW R \in SUBSET D, NEW S \in SUBSET D, R \cap S = {} PROVE s[R \cup S] = s[R] + s[S]
    BY <2>1, SumsUnion
  <2>2. F \in SUBSET D /\ E \cap F = {}
    OBVIOUS
  <2> HIDE DEF F, s
  <2> QED
    BY <2>1, <2>2
<1>3. SumOf([x \in E |-> g[x]]) = s[E]
  BY SumPart
<1>4. E \cup F = D /\ F \in SUBSET D /\ \A x \in F : g[x] = 0
  OBVIOUS
<1> HIDE DEF s, F
<1>5. \A S \in SUBSET F : (\A x \in S : S \ {x} \in G) => S \in G
  <2> SUFFICES ASSUME NEW S \in SUBSET F, \A x \in S : S \ {x} \in G PROVE s[S] = 0
    OBVIOUS
  <2>1. CASE S = {}
    BY <1>1, <2>1 DEF Adds
  <2>2. CASE S # {}
    <3>1. PICK x \in S : s[S \ {x}] = 0
      BY <2>2
    <3>2. s[S] = g[x] + s[S \ {x}]
      BY <1>1, <1>4 DEF Adds
    <3> QED
      BY <1>4, <3>1, <3>2
  <2> QED
    BY <2>1, <2>2
<1>6. IsFiniteSet(F)
  BY <1>4, FS_Subset
<1> HIDE DEF G
<1>7. \A S \in SUBSET F : S \in G
  BY <1>5, <1>6, FiniteOneByOne
<1>8. s[F] = 0 /\ s[E] \in Int
  BY <1>1, <1>7 DEF G, Adds
<1>9. s[D] = s[E]
  <2>1. s[D] = s[E] + s[F]
    BY <1>2, <1>4
  <2> QED
    BY <1>8, <2>1
<1> QED
  BY <1>3, <1>9 DEF s

\* The image of a finite set is finite.
LEMMA FiniteImage ==
    ASSUME NEW S, IsFiniteSet(S), NEW f, DOMAIN f = S
    PROVE  IsFiniteSet({f[x] : x \in S})
<1> DEFINE T == {f[x] : x \in S}
           g == [x \in S |-> f[x]]
<1>1. g \in Surjection(S, T)
  BY DEF Surjection
<1> HIDE DEF T, g
<1>2. IsFiniteSet(T)
  BY <1>1, FS_Surjection
<1> QED
  BY <1>2 DEF T

-----------------------------------------------------------------------------
(* The books replayed.                                                       *)

\* What a booking means to a day.
Counts(b) == /\ b.booked \in Nat /\ b.cancel \in Nat \cup {None} /\ b.rooms \in Nat \ {0}
             /\ b.cancel = None \/ b.cancel >= b.booked
On(bs, n) == {b \in bs : n \in b.arrival..(b.departure - 1)}
UpTo(bs, n, day) == {e \in UNION {Deltas(b) : b \in On(bs, n)} : e.day <= day}
Taken(b, day) == b.cancel # None /\ b.cancel <= day

Booked(b) == [of |-> b, day |-> b.booked, rooms |-> b.rooms, cancelled |-> 0, group |-> IF b.group THEN b.rooms ELSE 0]
Cancelled(b) == [of |-> b, day |-> b.cancel, rooms |-> -b.rooms, cancelled |-> b.rooms, group |-> IF b.group THEN -b.rooms ELSE 0]

\* The events of a booking that a day knows.
LEMMA KnownOf ==
    ASSUME NEW b, Counts(b), NEW day \in Int
    PROVE  {e \in Deltas(b) : e.day <= day} =
             IF b.booked > day THEN {} ELSE IF Taken(b, day) THEN {Booked(b), Cancelled(b)} ELSE {Booked(b)}
<1>1. Deltas(b) = IF b.cancel = None THEN {Booked(b)} ELSE {Booked(b), Cancelled(b)}
  BY DEF Deltas, TakesBack, Booked, Cancelled
<1>2. Booked(b).day = b.booked /\ Cancelled(b).day = b.cancel
  BY DEF Booked, Cancelled
<1>3. b.booked \in Int /\ (b.cancel # None => b.cancel \in Int /\ b.cancel >= b.booked)
  BY DEF Counts
<1> HIDE DEF Deltas
<1>4. CASE b.booked > day
  <2>1. ~(b.booked <= day) /\ (b.cancel # None => ~(b.cancel <= day))
    BY <1>3, <1>4
  <2> QED
    BY <1>1, <1>2, <1>4, <2>1
<1>5. CASE ~(b.booked > day)
  <2>1. b.booked <= day
    BY <1>3, <1>5
  <2> QED
    BY <1>1, <1>2, <1>5, <2>1 DEF Taken
<1> QED
  BY <1>4, <1>5

\* A file has finitely many bookings of a night.
LEMMA UpToFinite ==
    ASSUME NEW bs, IsFiniteSet(bs), NEW n, NEW day
    PROVE  IsFiniteSet(UpTo(bs, n, day)) /\ IsFiniteSet(On(bs, n))
<1> DEFINE A == {[b \in bs |-> Booked(b)][x] : x \in bs}
           C == {[b \in bs |-> Cancelled(b)][x] : x \in bs}
<1>1. IsFiniteSet(A) /\ IsFiniteSet(C)
  BY FiniteImage
<1>2. \A b \in bs : Booked(b) \in A /\ Cancelled(b) \in C
  <2> HIDE DEF Booked, Cancelled
  <2> QED
    OBVIOUS
<1>3. \A b : \A e \in Deltas(b) : e = Booked(b) \/ e = Cancelled(b)
  BY Zenon DEF Deltas, TakesBack, Booked, Cancelled
<1>4. UpTo(bs, n, day) \subseteq A \cup C
  <2> HIDE DEF A, C, Booked, Cancelled, Deltas
  <2> QED
    BY <1>2, <1>3 DEF UpTo, On
<1> HIDE DEF A, C
<1>5. IsFiniteSet(A \cup C)
  BY <1>1, FS_Union
<1> QED
  BY <1>4, <1>5, FS_Subset DEF On

IsFile(bs) == IsFiniteSet(bs) /\ \A b \in bs : Counts(b)

\* Per booking, what a day knows of the rooms it holds and of those taken back.
Holds(bs, n, day) == [b \in On(bs, n) |-> IF Stands(b, n, day) THEN b.rooms ELSE 0]
TookBack(bs, n, day) == [b \in On(bs, n) |-> IF Taken(b, day) THEN b.rooms ELSE 0]
RoomsOf(bs, n, day) == [e \in UpTo(bs, n, day) |-> e.rooms]
KnownEvents(bs, n, day, b) == {e \in UpTo(bs, n, day) : e.of = b}
CancelledOf(bs, n, day) == [e \in UpTo(bs, n, day) |-> e.cancelled]

\* The known events of one booking add up to the rooms it holds and to those
\* it took back.
LEMMA OneBooking ==
    ASSUME NEW bs, IsFile(bs), NEW n \in Int, NEW day \in Int, NEW b \in On(bs, n)
    PROVE  /\ Sums(RoomsOf(bs, n, day))[KnownEvents(bs, n, day, b)] = Holds(bs, n, day)[b]
           /\ Sums(CancelledOf(bs, n, day))[KnownEvents(bs, n, day, b)] = TookBack(bs, n, day)[b]
<1> DEFINE D == UpTo(bs, n, day)
           F == {e \in D : e.of = b}
           g == RoomsOf(bs, n, day)  c == CancelledOf(bs, n, day)
<1>0. Counts(b) /\ b \in bs /\ \A a \in On(bs, n) : Counts(a)
  BY DEF IsFile, On
<1>1. F = {e \in Deltas(b) : e.day <= day}
  <2>1. \A a : \A e \in Deltas(a) : e.of = a
    <3>1. \A a : \A e \in Deltas(a) : e = Booked(a) \/ e = Cancelled(a)
      BY Zenon DEF Deltas, TakesBack, Booked, Cancelled
    <3>2. \A a : Booked(a).of = a /\ Cancelled(a).of = a
      BY DEF Booked, Cancelled
    <3> QED
      BY <3>1, <3>2
  <2> HIDE DEF Deltas, On
  <2> QED
    BY <2>1 DEF UpTo
<1>2. \A e \in D : e.rooms \in Int /\ e.cancelled \in Int
  <2>1. ASSUME NEW a \in On(bs, n), NEW e \in Deltas(a) PROVE e.rooms \in Int /\ e.cancelled \in Int
    <3>1. e = Booked(a) \/ e = Cancelled(a)
      BY Zenon DEF Deltas, TakesBack, Booked, Cancelled
    <3>2. a.rooms \in Int
      BY <1>0 DEF Counts
    <3> QED
      BY <3>1, <3>2 DEF Booked, Cancelled
  <2> QED
    BY <2>1 DEF UpTo
<1>3. IsFiniteSet(D)
  BY UpToFinite DEF IsFile
<1>4. g \in [D -> Int] /\ c \in [D -> Int] /\ \A e \in D : g[e] = e.rooms /\ c[e] = e.cancelled
  <2> HIDE DEF D
  <2> QED
    BY <1>2 DEF RoomsOf, CancelledOf, D
<1>5. F \in SUBSET D
  OBVIOUS
<1> DEFINE p == Booked(b)  q == Cancelled(b)
<1>6. F = IF b.booked > day THEN {} ELSE IF Taken(b, day) THEN {p, q} ELSE {p}
  BY <1>0, <1>1, KnownOf
<1>7. p.rooms = b.rooms /\ p.cancelled = 0 /\ q.rooms = -b.rooms /\ q.cancelled = b.rooms
  BY DEF Booked, Cancelled
<1>8. b.rooms \in Nat /\ b.rooms # 0 /\ b.booked \in Int /\ (b.cancel # None => b.cancel \in Int /\ b.cancel >= b.booked)
  BY <1>0 DEF Counts
<1>9. p # q
  BY <1>7, <1>8
<1>10. /\ Holds(bs, n, day)[b] = IF Stands(b, n, day) THEN b.rooms ELSE 0
       /\ TookBack(bs, n, day)[b] = IF Taken(b, day) THEN b.rooms ELSE 0
  BY DEF Holds, TookBack
<1>11. Stands(b, n, day) <=> ~(b.booked > day) /\ ~Taken(b, day)
  <2>1. n \in b.arrival..(b.departure - 1)
    BY DEF On
  <2> QED
    BY <1>8, <2>1 DEF Stands, Taken
<1>12. AddsFew(Sums(g), g, D)
  <2> HIDE DEF g, D
  <2> QED
    BY <1>3, <1>4, SumsFew
<1>13. AddsFew(Sums(c), c, D)
  <2> HIDE DEF c, D
  <2> QED
    BY <1>3, <1>4, SumsFew
<1> SUFFICES Sums(g)[F] = Holds(bs, n, day)[b] /\ Sums(c)[F] = TookBack(bs, n, day)[b]
  BY DEF KnownEvents
<1> HIDE DEF g, c, F, D, p, q
<1>14. CASE b.booked > day
  <2>1. ~Taken(b, day)
    BY <1>8, <1>14 DEF Taken
  <2> QED
    BY <1>6, <1>10, <1>11, <1>12, <1>13, <1>14, <2>1 DEF AddsFew
<1>15. CASE ~(b.booked > day) /\ ~Taken(b, day)
  <2>1. F = {p} /\ p \in D
    BY <1>5, <1>6, <1>15
  <2>2. Sums(g)[F] = b.rooms /\ Sums(c)[F] = 0
    BY <1>4, <1>7, <1>12, <1>13, <2>1 DEF AddsFew
  <2> QED
    BY <1>10, <1>11, <1>15, <2>2
<1>16. CASE ~(b.booked > day) /\ Taken(b, day)
  <2>1. F = {p, q} /\ p \in D /\ q \in D
    BY <1>5, <1>6, <1>16
  <2>2. Sums(g)[{p, q}] = g[p] + g[q] /\ Sums(c)[{p, q}] = c[p] + c[q]
    BY <1>9, <1>12, <1>13, <2>1 DEF AddsFew
  <2>4. g[p] = b.rooms /\ g[q] = -b.rooms /\ c[p] = 0 /\ c[q] = b.rooms
    BY <1>4, <1>7, <2>1
  <2>5. g[p] + g[q] = 0 /\ c[p] + c[q] = b.rooms
    BY <1>8, <2>4
  <2>3. Sums(g)[F] = 0 /\ Sums(c)[F] = b.rooms
    BY <2>1, <2>2, <2>5
  <2> QED
    BY <1>10, <1>11, <1>16, <2>3
<1> QED
  BY <1>14, <1>15, <1>16

\* What the events up to a day add up to: the rooms of the bookings that stand,
\* and the rooms taken back; there is neither only if nothing is booked yet.
LEMMA DaySums ==
    ASSUME NEW bs, IsFile(bs), NEW n \in Int, NEW day \in Int
    PROVE  /\ SumOf(RoomsOf(bs, n, day)) = SumOf([b \in {x \in bs : Stands(x, n, day)} |-> b.rooms])
           /\ SumOf(RoomsOf(bs, n, day)) \in Nat
           /\ SumOf(CancelledOf(bs, n, day)) \in Nat
           /\ SumOf(RoomsOf(bs, n, day)) # 0 \/ SumOf(CancelledOf(bs, n, day)) # 0
                <=> \E b \in On(bs, n) : b.booked <= day
<1> DEFINE D == UpTo(bs, n, day)
           H == On(bs, n)
           g == RoomsOf(bs, n, day)  c == CancelledOf(bs, n, day)
           h == Holds(bs, n, day)  k == TookBack(bs, n, day)
           to == [e \in D |-> e.of]
           St == {x \in bs : Stands(x, n, day)}
<1>0. \A b \in H : Counts(b) /\ b \in bs
  BY DEF IsFile, On
<1>1. IsFiniteSet(D) /\ IsFiniteSet(H)
  BY UpToFinite DEF IsFile
<1>2. \A e \in D : e.of \in H /\ e.rooms \in Int /\ e.cancelled \in Int
  <2>1. ASSUME NEW a \in On(bs, n), NEW e \in Deltas(a) PROVE e.of = a /\ e.rooms \in Int /\ e.cancelled \in Int
    <3>1. e = Booked(a) \/ e = Cancelled(a)
      BY Zenon DEF Deltas, TakesBack, Booked, Cancelled
    <3>2. a.rooms \in Int
      BY <1>0 DEF Counts
    <3> QED
      BY <3>1, <3>2 DEF Booked, Cancelled
  <2> QED
    BY <2>1 DEF UpTo
<1>3. g \in [D -> Int] /\ c \in [D -> Int] /\ to \in [D -> H]
  <2> HIDE DEF D, H
  <2> QED
    BY <1>2 DEF RoomsOf, CancelledOf, D
<1>4. /\ h \in [H -> Int] /\ \A b \in H : h[b] = (IF Stands(b, n, day) THEN b.rooms ELSE 0) /\ h[b] >= 0
      /\ k \in [H -> Int] /\ \A b \in H : k[b] = (IF Taken(b, day) THEN b.rooms ELSE 0) /\ k[b] >= 0
  <2>1. \A b \in H : b.rooms \in Nat
    BY <1>0 DEF Counts
  <2>2. h = [b \in H |-> IF Stands(b, n, day) THEN b.rooms ELSE 0] /\ k = [b \in H |-> IF Taken(b, day) THEN b.rooms ELSE 0]
    BY DEF Holds, TookBack
  <2> HIDE DEF h, k, H
  <2> QED
    BY <2>1, <2>2
<1>5. Fibred(h, g, to, D, H) /\ Fibred(k, c, to, D, H)
  <2> SUFFICES ASSUME NEW b \in H
               PROVE  h[b] = Sums(g)[{e \in D : to[e] = b}] /\ k[b] = Sums(c)[{e \in D : to[e] = b}]
    BY DEF Fibred
  <2>1. {e \in D : to[e] = b} = KnownEvents(bs, n, day, b)
    BY DEF KnownEvents
  <2>2. Sums(g)[KnownEvents(bs, n, day, b)] = h[b] /\ Sums(c)[KnownEvents(bs, n, day, b)] = k[b]
    BY OneBooking
  <2> QED
    BY <2>1, <2>2
<1>6. Sums(g)[D] = Sums(h)[H] /\ Sums(c)[D] = Sums(k)[H]
  <2> HIDE DEF g, c, h, k, D, H, to
  <2> QED
    BY <1>1, <1>3, <1>4, <1>5, SumsFibres
<1>7. SumOf(g) = Sums(g)[D] /\ SumOf(c) = Sums(c)[D] /\ SumOf(g) \in Int /\ SumOf(c) \in Int
  <2> HIDE DEF g, c, D
  <2> QED
    BY <1>1, <1>3, SumSplit
<1>8. /\ Sums(h)[H] >= 0 /\ (Sums(h)[H] = 0 <=> \A b \in H : h[b] = 0)
      /\ Sums(k)[H] >= 0 /\ (Sums(k)[H] = 0 <=> \A b \in H : k[b] = 0)
  <2> HIDE DEF h, k, H
  <2> QED
    BY <1>1, <1>4, SumsZero
<1>9. SumOf([b \in St |-> b.rooms]) = Sums(h)[H]
  <2>1. St \in SUBSET H /\ \A b \in H \ St : h[b] = 0
    BY <1>0, <1>4 DEF On, Stands
  <2>2. [b \in St |-> b.rooms] = [b \in St |-> h[b]]
    BY <1>4, <2>1
  <2>3. SumOf([b \in St |-> h[b]]) = Sums(h)[H]
    <3> HIDE DEF h, H, St
    <3> QED
      BY <1>1, <1>4, <2>1, SumsWhere
  <2> HIDE DEF St, h, H
  <2> QED
    BY <2>2, <2>3
<1>10. (\E b \in H : h[b] # 0 \/ k[b] # 0) <=> \E b \in H : b.booked <= day
  <2> SUFFICES ASSUME NEW b \in H PROVE h[b] # 0 \/ k[b] # 0 <=> b.booked <= day
    OBVIOUS
  <2>1. n \in b.arrival..(b.departure - 1)
    BY DEF On
  <2>2. b.rooms # 0 /\ b.booked \in Int /\ (b.cancel # None => b.cancel \in Int /\ b.cancel >= b.booked)
    BY <1>0 DEF Counts
  <2>3. Stands(b, n, day) \/ Taken(b, day) <=> b.booked <= day
    BY <2>1, <2>2 DEF Stands, Taken
  <2> HIDE DEF h, k, H
  <2> QED
    BY <1>4, <2>2, <2>3
<1> SUFFICES /\ SumOf(g) = SumOf([b \in St |-> b.rooms])
             /\ SumOf(g) \in Nat /\ SumOf(c) \in Nat
             /\ SumOf(g) # 0 \/ SumOf(c) # 0 <=> \E b \in H : b.booked <= day
  OBVIOUS
<1> HIDE DEF g, c, h, k, H, D, St
<1> QED
  BY <1>6, <1>7, <1>8, <1>9, <1>10

\* The lesser of two figures is a figure.
LEMMA LeastOfTwo ==
    ASSUME NEW a \in Int, NEW c \in Int
    PROVE  LeastOf({a, c}) \in Int
<1> DEFINE K == Known({a, c})
<1>1. PICK m : m = LeastOf({a, c})
  OBVIOUS
<1>2. CASE K = {}
  BY <1>1, <1>2 DEF LeastOf, None
<1>3. CASE K # {}
  <2>1. m = Min(K)
    BY <1>1, <1>3 DEF LeastOf
  <2>2. K = {a} \/ K = {c} \/ K = {a, c}
    BY <1>3 DEF Known
  <2>3. \E x \in K : \A y \in K : x <= y
    <3>1. \E x \in {a} : \A y \in {a} : x <= y
      OBVIOUS
    <3>2. \E x \in {c} : \A y \in {c} : x <= y
      OBVIOUS
    <3>3. \E x \in {a, c} : \A y \in {a, c} : x <= y
      OBVIOUS
    <3> HIDE DEF K
    <3> QED
      BY <2>2, <3>1, <3>2, <3>3
  <2>4. K \subseteq {a, c}
    BY DEF Known
  <2> HIDE DEF K
  <2>5. m \in K
    BY <2>1, <2>3 DEF Min
  <2> QED
    BY <1>1, <2>4, <2>5
<1> QED
  BY <1>2, <1>3

\* The rows rebuilt from bs: each tells what is held, and has all later days.
Replayed(rows, bs, today) ==
    /\ \A r \in rows : /\ r.stay \in Nat /\ r.asOf \in Int /\ r.asOf <= r.stay /\ r.asOf <= today
                       /\ r.rooms = SumBy({b \in bs : Stands(b, r.stay, r.asOf)}, LAMBDA b : b.rooms)
    /\ \A r \in rows, d \in Int :
           r.asOf <= d /\ d <= r.stay /\ d <= today => \E q \in rows : q.stay = r.stay /\ q.asOf = d

\* The rows of a night, one for each day that knows of a booking.
LEMMA RowsTold ==
    ASSUME NEW bs, IsFile(bs), \A b \in bs : {b.arrival, b.departure} \subseteq Nat, NEW today \in Nat
    PROVE  Replayed(RebuildSnapshots(bs, today, None), bs, today)
<1> DEFINE eventsOf(n) == UNION {Deltas(b) : b \in {x \in bs : n \in x.arrival..(x.departure - 1)}}
           nights == UNION {b.arrival..(b.departure - 1) : b \in bs}
           upTo(n, day) == {e \in eventsOf(n) : e.day <= day}
           last(n) == LeastOf({n, today})
           low(n) == LeastOf({n - MaxLead, last(n)})
           days(n) == low(n)..last(n)
           sum(n, day) == SumBy(upTo(n, day), LAMBDA e : e.rooms)
           gone(n, day) == SumBy(upTo(n, day), LAMBDA e : e.cancelled)
           row(n, day) == [asOf |-> day, stay |-> n, rooms |-> Max({0, sum(n, day)}),
                           cancelled |-> gone(n, day),
                           group |-> LET g == SumBy(upTo(n, day), LAMBDA e : e.group) IN IF g > 0 THEN g ELSE None,
                           capacity |-> None]
           toldOn(n, day) == sum(n, day) # 0 \/ row(n, day).cancelled # 0
           rows == RebuildSnapshots(bs, today, None)
           held(n, day) == SumBy({b \in bs : Stands(b, n, day)}, LAMBDA b : b.rooms)
<1>1. rows = UNION {{row(n, day) : day \in {d \in days(n) : toldOn(n, d)}} : n \in nights}
  BY Zenon DEF RebuildSnapshots
<1>2. \A n \in nights : n \in Nat
  OBVIOUS
<1>3. ASSUME NEW n \in Nat
      PROVE  last(n) \in Nat /\ last(n) <= n /\ last(n) <= today /\ (last(n) = n \/ last(n) = today)
  <2>1. None \notin {n, today} /\ Known({n, today}) = {n, today} /\ {n, today} # {}
    BY DEF None, Known
  <2>2. last(n) = Min({n, today})
    BY <2>1 DEF LeastOf
  <2>3. \E x \in {n, today} : \A y \in {n, today} : x <= y
    OBVIOUS
  <2>4. PICK m : m = Min({n, today})
    OBVIOUS
  <2>5. m \in {n, today} /\ \A y \in {n, today} : m <= y
    BY <2>3, <2>4 DEF Min
  <2> HIDE DEF last
  <2> QED
    BY <2>2, <2>4, <2>5
<1>4. ASSUME NEW n \in Int, NEW d \in Int
      PROVE  /\ sum(n, d) = held(n, d) /\ sum(n, d) \in Nat
             /\ sum(n, d) # 0 \/ gone(n, d) # 0 <=> \E b \in On(bs, n) : b.booked <= d
  <2>1. upTo(n, d) = UpTo(bs, n, d)
    BY Zenon DEF UpTo, On
  <2>2. sum(n, d) = SumOf(RoomsOf(bs, n, d)) /\ gone(n, d) = SumOf(CancelledOf(bs, n, d))
    BY <2>1, Zenon DEF SumBy, RoomsOf, CancelledOf
  <2>3. held(n, d) = SumOf([b \in {x \in bs : Stands(x, n, d)} |-> b.rooms])
    BY Zenon DEF SumBy
  <2> HIDE DEF sum, gone, held
  <2> QED
    BY <2>2, <2>3, DaySums
<1>5. \A n \in Int, d \in Int : Max({0, sum(n, d)}) = sum(n, d)
  <2> SUFFICES ASSUME NEW n \in Int, NEW d \in Int PROVE Max({0, sum(n, d)}) = sum(n, d)
    OBVIOUS
  <2>1. PICK s \in Nat : s = sum(n, d)
    BY <1>4
  <2>2. PICK m : m = Max({0, s})
    OBVIOUS
  <2>3. s \in {0, s} /\ \A y \in {0, s} : s >= y
    OBVIOUS
  <2>4. m \in {0, s} /\ \A y \in {0, s} : m >= y
    BY <2>2, <2>3 DEF Max
  <2>5. m = s
    BY <2>4
  <2> HIDE DEF sum
  <2> QED
    BY <2>1, <2>2, <2>5
<1>6. \A n \in Int, d \in Int : row(n, d).stay = n /\ row(n, d).asOf = d /\ row(n, d).rooms = Max({0, sum(n, d)})
                /\ row(n, d).cancelled = gone(n, d)
  <2> HIDE DEF sum, gone
  <2> QED
    OBVIOUS
<1>7. \A n \in Int, d \in Int : toldOn(n, d) <=> sum(n, d) # 0 \/ gone(n, d) # 0
  <2> HIDE DEF sum, gone
  <2> QED
    OBVIOUS
<1>8. ASSUME NEW r \in rows
      PROVE  /\ r.stay \in nights /\ r.asOf \in days(r.stay) /\ toldOn(r.stay, r.asOf)
             /\ r.rooms = Max({0, sum(r.stay, r.asOf)})
  <2> HIDE DEF rows, nights, days, toldOn, row, sum
  <2>1. PICK n \in nights : \E d \in days(n) : toldOn(n, d) /\ r = row(n, d)
    BY <1>1
  <2>2. PICK d \in days(n) : toldOn(n, d) /\ r = row(n, d)
    BY <2>1
  <2>3. row(n, d).stay = n /\ row(n, d).asOf = d /\ row(n, d).rooms = Max({0, sum(n, d)})
    BY DEF row
  <2>4. r.stay = n /\ r.asOf = d /\ r.rooms = Max({0, sum(n, d)})
    BY <2>2, <2>3
  <2> QED
    BY <2>2, <2>4
<1>9. ASSUME NEW n \in nights, NEW d \in days(n), toldOn(n, d) PROVE row(n, d) \in rows
  <2> HIDE DEF rows, nights, days, toldOn, row
  <2> QED
    BY <1>1, <1>9
<1>10. ASSUME NEW r \in rows
       PROVE  /\ r.stay \in Nat /\ r.asOf \in Int /\ r.asOf <= r.stay /\ r.asOf <= today
              /\ r.rooms = held(r.stay, r.asOf)
              /\ \E b \in On(bs, r.stay) : b.booked <= r.asOf
  <2>1. r.stay \in Nat /\ r.stay \in Int
    <3> HIDE DEF nights, rows, days, toldOn, sum
    <3>1. r.stay \in nights
      BY <1>8
    <3>2. r.stay \in Nat
      BY <1>2, <3>1
    <3> QED
      BY <3>2
  <2>2. r.asOf \in Int /\ r.asOf <= last(r.stay)
    <3> HIDE DEF last, low, rows, nights, toldOn, sum, days
    <3>0. r.asOf \in days(r.stay)
      BY <1>8
    <3>1. r.asOf \in low(r.stay)..last(r.stay)
      BY <3>0 DEF days
    <3> QED
      BY <1>3, <2>1, <3>1
  <2>3. r.asOf <= r.stay /\ r.asOf <= today
    <3> HIDE DEF last
    <3> QED
      BY <1>3, <2>1, <2>2
  <2> HIDE DEF sum, gone, held, toldOn, rows
  <2> QED
    BY <1>4, <1>5, <1>7, <1>8, <2>1, <2>2, <2>3
<1>11. ASSUME NEW r \in rows, NEW d \in Int, r.asOf <= d, d <= r.stay, d <= today
       PROVE  \E q \in rows : q.stay = r.stay /\ q.asOf = d
  <2>1. r.stay \in Nat /\ r.asOf \in Int /\ r.stay \in nights
    BY <1>8, <1>10
  <2>2. d \in days(r.stay)
    <3>1. d <= last(r.stay)
      <4> HIDE DEF last
      <4> QED
        BY <1>3, <1>11, <2>1
    <3> HIDE DEF last, low, rows, nights, toldOn, sum, days
    <3>5. r.asOf \in days(r.stay)
      BY <1>8
    <3>2. r.asOf \in low(r.stay)..last(r.stay)
      BY <3>5 DEF days
    <3>3. low(r.stay) \in Int /\ low(r.stay) <= r.asOf
      <4>1. low(r.stay) \in Int
        <5>1. {r.stay - MaxLead, last(r.stay)} \subseteq Int
          BY <1>3, <2>1, OtbBounds
        <5>2. PICK a, c \in Int : a = r.stay - MaxLead /\ c = last(r.stay)
          BY <5>1
        <5>3. LeastOf({a, c}) \in Int
          BY LeastOfTwo
        <5> QED
          BY <5>2, <5>3 DEF low
      <4> QED
        BY <2>1, <3>2, <4>1
    <3>4. last(r.stay) \in Int
      BY <1>3, <2>1
    <3> QED
      BY <1>11, <2>1, <3>1, <3>3, <3>4 DEF days
  <2>3. \E b \in On(bs, r.stay) : b.booked <= d
    <3>1. PICK b \in On(bs, r.stay) : b.booked <= r.asOf
      BY <1>10
    <3>2. b.booked \in Int
      BY DEF IsFile, On, Counts
    <3> QED
      BY <1>11, <2>1, <3>1, <3>2
  <2>4. toldOn(r.stay, d)
    <3> HIDE DEF sum, gone, rows, nights
    <3>1. r.stay \in Int
      BY <2>1
    <3>2. sum(r.stay, d) # 0 \/ gone(r.stay, d) # 0
      BY <1>4, <2>3, <3>1
    <3> QED
      BY <1>7, <3>1, <3>2
  <2>5. row(r.stay, d) \in rows
    <3> HIDE DEF toldOn, rows, nights, days, row
    <3> QED
      BY <1>9, <2>1, <2>2, <2>4
  <2>6. row(r.stay, d).stay = r.stay /\ row(r.stay, d).asOf = d
    <3> HIDE DEF sum, gone, rows
    <3> QED
      OBVIOUS
  <2> HIDE DEF row, rows
  <2> QED
    BY <2>5, <2>6
<1> SUFFICES /\ \A r \in rows : /\ r.stay \in Nat /\ r.asOf \in Int /\ r.asOf <= r.stay /\ r.asOf <= today
                                /\ r.rooms = held(r.stay, r.asOf)
             /\ \A r \in rows, d \in Int :
                    r.asOf <= d /\ d <= r.stay /\ d <= today => \E q \in rows : q.stay = r.stay /\ q.asOf = d
  BY Zenon DEF Replayed
<1> HIDE DEF rows, held
<1> QED
  BY <1>10, <1>11

\* The bookings read from a file count: finitely many, with rooms and dates.
LEMMA ParsedCounts ==
    ASSUME NEW x, IsBooks(x), \A b \in ParseBookings(x.table) : (b.cancel = None \/ b.cancel >= b.booked) /\ b.rooms > 0
    PROVE  /\ IsFile(ParseBookings(x.table))
           /\ \A b \in ParseBookings(x.table) : {b.arrival, b.departure} \subseteq Nat
<1> DEFINE good == {i \in DOMAIN x.table : ~Refused(x.table[i])}
           read == [i \in good |-> ReadBooking(x.table[i], i)]
<1>0. DOMAIN x.table = 1..Len(x.table) /\ Len(x.table) \in Nat
  BY DEF IsBooks
<1>1. IsFiniteSet(good)
  <2>1. IsFiniteSet(1..Len(x.table))
    BY <1>0, FS_Interval
  <2> QED
    BY <1>0, <2>1, FS_Subset
<1>2. ParseBookings(x.table) = {read[i] : i \in good}
  <2> HIDE DEF ReadBooking, Refused
  <2> QED
    BY DEF ParseBookings
<1>3. IsFiniteSet(ParseBookings(x.table))
  <2> HIDE DEF read
  <2>1. DOMAIN read = good
    BY DEF read
  <2> HIDE DEF good
  <2> QED
    BY <1>1, <1>2, <2>1, FiniteImage
<1>4. ASSUME NEW b \in ParseBookings(x.table)
      PROVE  /\ b.booked \in Nat /\ b.arrival \in Nat /\ b.departure \in Nat
             /\ b.cancel \in Nat \cup {None} /\ b.rooms \in Int
  <2>1. PICK i \in DOMAIN x.table : b = ReadBooking(x.table[i], i)
    BY DEF ParseBookings
  <2>2. x.table[i] \in BookingLine
    BY DEF IsBooks
  <2>3. PICK raw \in BookingLine : raw = x.table[i]
    BY <2>2
  <2>4. raw.booked \in Nat /\ raw.arrival \in Nat /\ raw.departure \in Nat /\ raw.cancel \in Nat \cup {None} /\ raw.rooms \in Int
    BY DEF BookingLine
  <2>5. b = ReadBooking(raw, i)
    BY <2>1, <2>3
  <2> QED
    BY <2>4, <2>5 DEF ReadBooking
<1> QED
  BY <1>3, <1>4 DEF IsFile, Counts

\* The curve of the rows m of a night.
CurveOfNight(m, n) ==
    [d \in {n - r.asOf : r \in {x \in m : x.stay = n /\ n >= x.asOf}} |->
        (CHOOSE r \in m : r.stay = n /\ r.asOf = n - d).rooms]

\* The curve of a night is built of the rows of that night.
LEMMA NightCurve ==
    ASSUME NEW m, NEW n, \E q \in m : q.stay = n /\ q.stay >= q.asOf
    PROVE  n \in DOMAIN BuildCurves(m) /\ BuildCurves(m)[n] = CurveOfNight(m, n)
<1> DEFINE S == {r.stay : r \in {x \in m : x.stay >= x.asOf}}
<1>1. BuildCurves(m) = [s \in S |-> CurveOfNight(m, s)]
  BY Zenon DEF BuildCurves, CurveOfNight
<1>2. n \in S
  OBVIOUS
<1> HIDE DEF S
<1> QED
  BY <1>1, <1>2

\* The pickup of a day is what the curve gained on it.
LEMMA PickupIs ==
    ASSUME NEW curves, NEW stay, NEW today, stay - today >= 0
    PROVE  OtbNight(curves, stay, today, None).pickup1d =
             Minus(OtbAt(CurveAt(curves, stay), stay - today), OtbAt(CurveAt(curves, stay), (stay - today) + 1))
<1> DEFINE lead == stay - today
           curve == CurveAt(curves, stay)
           ahead(c) == IF lead < 0 THEN None ELSE OtbAt(c, lead)
           now == IF lead >= 0 THEN OtbAt(curve, lead) ELSE IF 0 \in DOMAIN curve THEN curve[0] ELSE None
           gain == ForecastPickup(curves, stay, lead)
           forecast == IF now = None \/ lead <= 0 THEN now
                       ELSE IF gain = None THEN None
                       ELSE LET f == Max({now, now + gain}) IN IF None \in {None, 0} THEN f ELSE Min({f, None})
           a == Minus(now, OtbAt(curve, lead + 1))
           b == Minus(now, OtbAt(curve, lead + 7))
           d == Minus(now, ahead(CurveAt(curves, stay - 28)))
           e == ahead(CurveAt(curves, stay - 364))
           g == Minus(now, ahead(CurveAt(curves, stay - 364)))
<1>1. OtbNight(curves, stay, today, None) =
        [now |-> now, pickup1d |-> a, pickup7d |-> b, pace4w |-> d, stly |-> e, paceStly |-> g, forecast |-> forecast]
  BY Zenon DEF OtbNight
<1>2. now = OtbAt(curve, lead)
  <2> HIDE DEF curve
  <2> QED
    OBVIOUS
<1>3. OtbNight(curves, stay, today, None).pickup1d = a
  <2> HIDE DEF now, a, b, d, e, g, forecast
  <2> QED
    BY <1>1
<1> HIDE DEF now
<1> QED
  BY <1>2, <1>3, Zenon

\* Rows, curve and pickup of a night agree with the bookings held on each day.
LEMMA ReplayIsTrue ==
    ASSUME NEW x, IsBooks(x) PROVE RebuildIsReplay(x.table, x.today)
<1> DEFINE bs == ParseBookings(x.table)
           today == x.today
           rows == RebuildSnapshots(bs, today, None)
           held(n, day) == SumBy({b \in bs : Stands(b, n, day)}, LAMBDA b : b.rooms)
           mine(n) == {r \in rows : r.stay = n}
           curves(n) == BuildCurves(mine(n))
           gained(n) == OtbNight(curves(n), n, today, None).pickup1d
<1> SUFFICES ASSUME \A b \in bs : (b.cancel = None \/ b.cancel >= b.booked) /\ b.rooms > 0
             PROVE  /\ \A r \in rows : r.rooms = held(r.stay, r.asOf)
                    /\ \A n \in {r.stay : r \in {y \in rows : y.asOf = today}} :
                           gained(n) \in {None, held(n, today) - held(n, today - 1)}
  BY Zenon DEF RebuildIsReplay
<1>1. IsFile(bs) /\ (\A b \in bs : {b.arrival, b.departure} \subseteq Nat) /\ today \in Nat
  BY ParsedCounts DEF IsBooks
<1>2. /\ \A r \in rows : /\ r.stay \in Nat /\ r.asOf \in Int /\ r.asOf <= r.stay /\ r.asOf <= today
                         /\ r.rooms = held(r.stay, r.asOf)
      /\ \A r \in rows, d \in Int :
             r.asOf <= d /\ d <= r.stay /\ d <= today => \E q \in rows : q.stay = r.stay /\ q.asOf = d
  <2>1. Replayed(rows, bs, today)
    <3> HIDE DEF bs, today
    <3> QED
      BY <1>1, RowsTold
  <2> HIDE DEF rows, bs, today
  <2> QED
    BY <2>1, Zenon DEF Replayed
<1>0. \A n \in Nat, d \in Int : held(n, d) \in Nat
  <2> HIDE DEF bs
  <2> SUFFICES ASSUME NEW n \in Nat, NEW d \in Int PROVE held(n, d) \in Nat
    OBVIOUS
  <2>1. held(n, d) = SumOf([b \in {y \in bs : Stands(y, n, d)} |-> b.rooms])
    BY Zenon DEF SumBy
  <2> HIDE DEF held
  <2> QED
    BY <1>1, <2>1, DaySums
<1> HIDE DEF bs, rows, held, today
<1>3. ASSUME NEW r \in rows, r.asOf = today
      PROVE  gained(r.stay) \in {None, held(r.stay, today) - held(r.stay, today - 1)}
  <2> DEFINE n == r.stay
             lead == n - today
             m == mine(n)
             cs == curves(n)
             c == cs[n]
             days == {n - q.asOf : q \in {y \in m : y.stay = n /\ n >= y.asOf}}
  <2>1. n \in Nat /\ lead \in Nat /\ r \in m /\ today \in Nat
    BY <1>1, <1>2, <1>3
  <2>2. \E q \in m : q.stay = n /\ q.stay >= q.asOf
    BY <1>2, <2>1
  <2>3. c = [d \in days |-> (CHOOSE q \in m : q.stay = n /\ q.asOf = n - d).rooms] /\ n \in DOMAIN cs
    <3>1. cs = BuildCurves(m)
      OBVIOUS
    <3> HIDE DEF m, n, cs
    <3>2. n \in DOMAIN BuildCurves(m) /\ BuildCurves(m)[n] = CurveOfNight(m, n)
      BY <2>2, NightCurve
    <3> QED
      BY <3>1, <3>2, Zenon DEF CurveOfNight, days
  <2>4. ASSUME NEW d \in Int, \E q \in m : q.asOf = n - d
        PROVE  d \in days /\ d \in DOMAIN c /\ c[d] = held(n, n - d)
    <3>1. PICK q \in m : q.asOf = n - d
      BY <2>4
    <3>2. q.stay = n /\ n >= q.asOf /\ d = n - q.asOf
      BY <1>2, <2>1, <3>1
    <3>3. d \in days
      BY <3>2
    <3>4. PICK p : p = CHOOSE y \in m : y.stay = n /\ y.asOf = n - d
      OBVIOUS
    <3>5. p \in m /\ p.stay = n /\ p.asOf = n - d
      BY <3>1, <3>2, <3>4
    <3>6. p.rooms = held(n, n - d)
      BY <1>2, <3>5
    <3> HIDE DEF c, days, m
    <3> QED
      BY <2>3, <3>3, <3>4, <3>6
  <2>5. ASSUME NEW d \in DOMAIN c PROVE d \in Int /\ \E q \in m : q.asOf = n - d
    <3>1. d \in days
      BY <2>3
    <3>2. PICK q \in m : d = n - q.asOf
      BY <3>1
    <3> QED
      BY <1>2, <2>1, <3>2
  <2>6. lead \in DOMAIN c /\ c[lead] = held(n, today)
    <3>1. n - lead = today /\ lead \in Int /\ r \in m /\ r.asOf = n - lead
      BY <1>3, <2>1
    <3> HIDE DEF n, lead, m, c
    <3> QED
      BY <2>4, <3>1
  <2>7. lead + 1 \in DOMAIN c => c[lead + 1] = held(n, today - 1)
    <3> SUFFICES ASSUME lead + 1 \in DOMAIN c PROVE c[lead + 1] = held(n, today - 1)
      OBVIOUS
    <3>1. n - (lead + 1) = today - 1 /\ lead + 1 \in Int
      BY <2>1
    <3>2. \E q \in m : q.asOf = n - (lead + 1)
      BY <2>5
    <3> HIDE DEF n, lead, m, c
    <3> QED
      BY <2>4, <3>1, <3>2
  <2>8. (lead + 1) + 1 \in DOMAIN c => lead + 1 \in DOMAIN c
    <3> SUFFICES ASSUME (lead + 1) + 1 \in DOMAIN c PROVE lead + 1 \in DOMAIN c
      OBVIOUS
    <3>1. PICK q \in m : q.asOf = n - ((lead + 1) + 1)
      BY <2>5
    <3>2. q \in rows /\ q.stay = n /\ q.asOf = today - 2
      BY <2>1, <3>1
    <3>3. \E p \in rows : p.stay = n /\ p.asOf = today - 1
      BY <1>2, <2>1, <3>2
    <3>4. \E p \in m : p.asOf = n - (lead + 1)
      BY <2>1, <3>3
    <3>5. lead + 1 \in Int
      BY <2>1
    <3> HIDE DEF n, lead, m, c
    <3> QED
      BY <2>4, <3>4, <3>5
  <2>9. gained(n) = Minus(OtbAt(c, lead), OtbAt(c, lead + 1))
    <3>1. CurveAt(cs, n) = c
      BY <2>3 DEF CurveAt
    <3>2. lead >= 0
      BY <2>1
    <3>3. gained(n) = Minus(OtbAt(CurveAt(cs, n), n - today), OtbAt(CurveAt(cs, n), (n - today) + 1))
      BY <3>2, PickupIs
    <3> HIDE DEF cs, c, gained
    <3> QED
      BY <3>1, <3>3
  <2>10. held(n, today) \in Nat /\ held(n, today - 1) \in Nat
    <3>1. today \in Int /\ today - 1 \in Int
      BY <2>1
    <3> HIDE DEF n
    <3> QED
      BY <1>0, <2>1, <3>1
  <2>11. OtbAt(c, lead) = held(n, today)
    BY <2>6 DEF OtbAt
  <2>12. OtbAt(c, lead + 1) \in {None, held(n, today - 1)}
    <3> HIDE DEF c, lead
    <3> QED
      BY <2>7, <2>8 DEF OtbAt
  <2>13. Minus(held(n, today), None) = None
    BY DEF Minus
  <2>14. Minus(held(n, today), held(n, today - 1)) = held(n, today) - held(n, today - 1)
    BY <2>10 DEF Minus, None
  <2> HIDE DEF gained, n, lead, c
  <2>15. gained(n) \in {None, held(n, today) - held(n, today - 1)}
    BY <2>9, <2>11, <2>12, <2>13, <2>14
  <2> QED
    BY <2>15 DEF n
<1> HIDE DEF gained
<1> QED
  BY <1>2, <1>3

\* Rebuilt from any booking file, lines alike counted each time, the books of
\* every past day are what the hotel held that day, and the pickup read off
\* them is what was booked and cancelled between (pms/otb.py rebuild_snapshots, otb_night).
THEOREM BooksAreTrue == FiguresSpec => []BooksAreReplayed
<1>1. FiguresInit => BooksAreReplayed
  BY AnalysisInputs, ReplayIsTrue DEF FiguresInit, BooksAreReplayed
<1>2. BooksAreReplayed /\ [FiguresNext]_<<kind, input>> => BooksAreReplayed'
  BY DEF FiguresNext, BooksAreReplayed
<1> QED
  BY <1>1, <1>2, PTL DEF FiguresSpec

\* What is told of the nights booked is so, from the file to the pace (pms/otb.py
\* rebuild_snapshots, market/pace_report.py).
THEOREM BookedStaysTrue == FiguresSpec => []BookedIsTrue
<1>1. BooksAreReplayed /\ PaceIsFair => BookedIsTrue
  BY DEF BookedIsTrue
<1> QED
  BY <1>1, BooksAreTrue, PaceIsTrue, PTL

-----------------------------------------------------------------------------
(* The price suggested for a night.                                          *)

\* Quotients: what is left over, and greater figures have greater ones.
LEMMA DivIs ==
    ASSUME NEW a \in Int, NEW d \in Nat \ {0}
    PROVE  \E q, r \in Int : q = a \div d /\ r = a % d /\ a = d * q + r /\ 0 <= r /\ r < d
<1>1. a \div d \in Int /\ a % d \in Int
  OBVIOUS
<1>2. 0 <= a % d /\ a % d < d
  OBVIOUS
<1>3. PICK q, r \in Int : q = a \div d /\ r = a % d
  BY <1>1
<1>4. d \in Int /\ d > 0
  OBVIOUS
<1>5. a = d * q + r
  BY <1>3, <1>4, Z3
<1> QED
  BY <1>2, <1>3, <1>5

\* To multiply by a count keeps an order, ...
LEMMA ProductGrows ==
    ASSUME NEW a \in Int, NEW b \in Int, NEW d \in Nat, a <= b
    PROVE  d * a <= d * b
OBVIOUS

\* ... so does a division by one; ...
LEMMA DivGrows ==
    ASSUME NEW a \in Int, NEW b \in Int, NEW d \in Nat \ {0}, a <= b
    PROVE  a \div d <= b \div d
<1>1. PICK p, r \in Int : p = a \div d /\ r = a % d /\ a = d * p + r /\ 0 <= r /\ r < d
  BY DivIs
<1>2. PICK q, s \in Int : q = b \div d /\ s = b % d /\ b = d * q + s /\ 0 <= s /\ s < d
  BY DivIs
<1>3. a = d * p + r /\ 0 <= r /\ r < d /\ b = d * q + s /\ 0 <= s /\ s < d
  BY <1>1, <1>2
<1>4. CASE q + 1 <= p
  <2>1. d * (q + 1) <= d * p
    BY <1>4, ProductGrows
  <2>2. d * (q + 1) = d * q + d
    OBVIOUS
  <2>3. d * q \in Int /\ d * p \in Int
    OBVIOUS
  <2> QED
    BY <1>3, <2>1, <2>2, <2>3
<1> QED
  BY <1>1, <1>2, <1>4

\* ... and a quotient is no less than what the divisor goes in.
LEMMA DivOf ==
    ASSUME NEW k \in Int, NEW a \in Int, NEW d \in Nat \ {0}, d * k <= a
    PROVE  k <= a \div d
<1>1. PICK q, r \in Int : q = a \div d /\ r = a % d /\ a = d * q + r /\ 0 <= r /\ r < d
  BY DivIs
<1>2. a = d * q + r /\ 0 <= r /\ r < d
  BY <1>1
<1>3. CASE q + 1 <= k
  <2>1. d * (q + 1) <= d * k
    BY <1>3, ProductGrows
  <2>2. d * (q + 1) = d * q + d
    OBVIOUS
  <2>3. d * q \in Int /\ d * k \in Int
    OBVIOUS
  <2> QED
    BY <1>2, <2>1, <2>2, <2>3
<1> QED
  BY <1>1, <1>3

\* Rounding keeps the order.
LEMMA HalfUpGrows ==
    ASSUME NEW a \in Int, NEW b \in Int, NEW d \in Nat \ {0}, a <= b
    PROVE  HalfUp(a, d) \in Int /\ HalfUp(b, d) \in Int /\ HalfUp(a, d) <= HalfUp(b, d)
<1> DEFINE e == 2 * d
<1>1. e \in Nat \ {0}
  OBVIOUS
<1>2. \A x \in Int : x \div e \in Int /\ (0 <= x => 0 <= x \div e)
  <2> SUFFICES ASSUME NEW x \in Int PROVE x \div e \in Int /\ (0 <= x => 0 <= x \div e)
    OBVIOUS
  <2> HIDE DEF e
  <2>1. x \div e \in Int
    BY <1>1, DivIs
  <2>2. ASSUME 0 <= x PROVE 0 <= x \div e
    <3>1. e * 0 <= x
      BY <1>1, <2>2
    <3> QED
      BY <1>1, <3>1, DivOf
  <2> QED
    BY <2>1, <2>2
<1>3. CASE a >= 0
  <2>1. 2 * a + d \in Int /\ 2 * b + d \in Int /\ 2 * a + d <= 2 * b + d /\ b >= 0
    BY <1>3
  <2>2. HalfUp(a, d) = (2 * a + d) \div e /\ HalfUp(b, d) = (2 * b + d) \div e
    BY <1>3, <2>1 DEF HalfUp
  <2> HIDE DEF e
  <2> QED
    BY <1>1, <1>2, <2>1, <2>2, DivGrows
<1>4. CASE a < 0 /\ b >= 0
  <2>1. d - 2 * a \in Int /\ 0 <= d - 2 * a /\ 2 * b + d \in Int /\ 0 <= 2 * b + d
    BY <1>4
  <2>2. HalfUp(a, d) = -((d - 2 * a) \div e) /\ HalfUp(b, d) = (2 * b + d) \div e
    BY <1>4 DEF HalfUp
  <2>3. PICK p, q \in Int : p = (d - 2 * a) \div e /\ q = (2 * b + d) \div e /\ 0 <= p /\ 0 <= q
    BY <1>2, <2>1
  <2> QED
    BY <2>2, <2>3
<1>5. CASE b < 0
  <2>1. d - 2 * a \in Int /\ d - 2 * b \in Int /\ d - 2 * b <= d - 2 * a /\ a < 0
    BY <1>5
  <2>2. HalfUp(a, d) = -((d - 2 * a) \div e) /\ HalfUp(b, d) = -((d - 2 * b) \div e)
    BY <1>5, <2>1 DEF HalfUp
  <2>3. PICK p, q \in Int : p = (d - 2 * a) \div e /\ q = (d - 2 * b) \div e
    BY <1>2, <2>1
  <2>4. q <= p
    <3> HIDE DEF e
    <3> QED
      BY <1>1, <2>1, <2>3, DivGrows
  <2> QED
    BY <2>2, <2>3, <2>4
<1> QED
  BY <1>3, <1>4, <1>5

\* To round half to even keeps the order.
LEMMA HalfEvenGrows ==
    ASSUME NEW a \in Int, NEW b \in Int, NEW d \in Nat \ {0}, a <= b
    PROVE  HalfEven(a, d) \in Int /\ HalfEven(b, d) \in Int /\ HalfEven(a, d) <= HalfEven(b, d)
<1>1. PICK p, r \in Int : p = a \div d /\ r = a % d /\ a = d * p + r /\ 0 <= r /\ r < d
  BY DivIs
<1>2. PICK q, s \in Int : q = b \div d /\ s = b % d /\ b = d * q + s /\ 0 <= s /\ s < d
  BY DivIs
<1>3. a = d * p + r /\ 0 <= r /\ r < d /\ b = d * q + s /\ 0 <= s /\ s < d
  BY <1>1, <1>2
<1>4. /\ HalfEven(a, d) = IF 2 * r > d \/ (2 * r = d /\ p % 2 = 1) THEN p + 1 ELSE p
      /\ HalfEven(b, d) = IF 2 * s > d \/ (2 * s = d /\ q % 2 = 1) THEN q + 1 ELSE q
  BY <1>1, <1>2 DEF HalfEven
<1>5. p <= q
  BY <1>1, <1>2, DivGrows
<1>6. CASE p = q
  <2>1. r <= s
    <3>1. d * p \in Int
      OBVIOUS
    <3> QED
      BY <1>3, <1>6, <3>1
  <2> QED
    BY <1>4, <1>6, <2>1
<1>7. CASE p + 1 <= q
  BY <1>4, <1>7
<1> QED
  BY <1>5, <1>6, <1>7

\* A multiple of the step that is not above a figure stays so when the figure
\* is rounded.
LEMMA HalfUpAbove ==
    ASSUME NEW k \in Nat, NEW a \in Int, NEW d \in Nat \ {0}, d * k <= a
    PROVE  HalfUp(a, d) \in Int /\ k <= HalfUp(a, d)
<1> DEFINE e == 2 * d
<1>1. e \in Nat \ {0} /\ d * k \in Nat
  OBVIOUS
<1>2. a >= 0 /\ 2 * a + d \in Int
  BY <1>1
<1>3. e * k <= 2 * a + d
  <2>1. e * k = 2 * (d * k)
    OBVIOUS
  <2> QED
    BY <1>1, <2>1
<1>4. HalfUp(a, d) = (2 * a + d) \div e
  BY <1>2 DEF HalfUp
<1> HIDE DEF e
<1> QED
  BY <1>1, <1>2, <1>3, <1>4, DivOf, DivIs

\* The limits a target goes through, one after the other.
Kept1(t, n) == IF (Tight(n) \/ OwnFull(n)) /\ t < n.ownPrice * Unit THEN n.ownPrice * Unit ELSE t
Kept2(t, n, st) == Clamp(t, n.ownPrice * (100 - st.maxChange) * 100, n.ownPrice * (100 + st.maxChange) * 100)
Kept3(t, st) == IF st.floor # None /\ t < st.floor * Unit THEN st.floor * Unit ELSE t
Kept4(t, st) == IF st.ceiling # None /\ t > st.ceiling * Unit THEN st.ceiling * Unit ELSE t
RawOf(n, st) == (Reference(n, st) * (100 + Total(n, st))) \div 100
TargetOf(n, st) == Kept4(Kept3(Kept2(Kept1(RawOf(n, st), n), n, st), st), st)
ChangeOf(n, st) == Change(Rounded(TargetOf(n, st), st.roundTo), n.ownPrice)
Suggests(n, st) == ~(n.status # "available" \/ n.ownPrice \in {None, 0} \/ Reference(n, st) = None)

\* A step of the price has the target it was made of.
LEMMA StepFields == \A t, c : Step(t, c).t = t
BY DEF Step

\* The kind of a suggestion, and its target.
LEMMA SuggestedKind ==
    ASSUME NEW n, NEW st
    PROVE  /\ Suggest(n, st).kind = IF ~Suggests(n, st) THEN "none"
                                    ELSE IF Kind(ChangeOf(n, st)) = "lower" /\ ~Evidence(n, st) THEN "hold"
                                    ELSE Kind(ChangeOf(n, st))
           /\ Suggests(n, st) => Suggest(n, st).target =
                 IF Kind(ChangeOf(n, st)) = "lower" /\ ~Evidence(n, st) THEN n.ownPrice
                 ELSE Rounded(TargetOf(n, st), st.roundTo)
<1> DEFINE ref == Reference(n, st)
           raw == Step((ref * (100 + Total(n, st))) \div 100, "")
           s1 == NoLower(raw, n)
           s2 == MaxChange(s1, n, st)
           s3 == AtFloor(s2, st)
           end == AtCeiling(s3, st)
           price == Rounded(end.t, st.roundTo)
           change == Change(price, n.ownPrice)
           kept == Kind(change) = "lower" /\ ~Evidence(n, st)
           what == IF kept THEN "hold" ELSE Kind(change)
           aim == IF kept THEN n.ownPrice ELSE price
           new == [kind |-> what, change |-> IF kept THEN 0 ELSE change, target |-> IF kept THEN n.ownPrice ELSE price,
                   reference |-> Rounded(ref, st.roundTo),
                   clamped |-> IF kept THEN "no_lower_without_demand" ELSE end.clamped,
                   confidence |-> Confidence(n), restrict |-> Restrictions(n, st, what)]
<1>1. Suggest(n, st) = IF ~Suggests(n, st) THEN NoSuggestion ELSE new
  BY Zenon DEF Suggest, Suggests
<1>2. NoSuggestion.kind = "none"
  BY DEF NoSuggestion
<1>3. new.kind = what /\ new.target = aim
  <2> DEFINE c == IF kept THEN 0 ELSE change
             r == Rounded(ref, st.roundTo)
             k == IF kept THEN "no_lower_without_demand" ELSE end.clamped
             f == Confidence(n)
             x == Restrictions(n, st, what)
  <2>1. new = [kind |-> what, change |-> c, target |-> aim, reference |-> r, clamped |-> k, confidence |-> f, restrict |-> x]
    BY Zenon
  <2> HIDE DEF new, what, aim, c, r, k, f, x
  <2> QED
    BY <2>1
<1>4. raw.t = RawOf(n, st)
  BY Zenon, StepFields DEF RawOf
<1> HIDE DEF raw
<1>5. s1.t = Kept1(raw.t, n)
  BY StepFields DEF NoLower, Kept1
<1> HIDE DEF s1
<1>6. s2.t = Kept2(s1.t, n, st)
  BY StepFields DEF MaxChange, Kept2, Clamp
<1> HIDE DEF s2
<1>7. s3.t = Kept3(s2.t, st)
  BY StepFields DEF AtFloor, Kept3
<1> HIDE DEF s3
<1>8. end.t = Kept4(s3.t, st)
  BY StepFields DEF AtCeiling, Kept4
<1> HIDE DEF end
<1>9. change = ChangeOf(n, st) /\ price = Rounded(TargetOf(n, st), st.roundTo)
  <2>1. end.t = TargetOf(n, st)
    BY <1>4, <1>5, <1>6, <1>7, <1>8, Zenon DEF TargetOf
  <2> QED
    BY <2>1, Zenon DEF ChangeOf
<1> HIDE DEF new, change, price
<1>10. CASE Suggests(n, st)
  BY <1>1, <1>3, <1>9, <1>10
<1>11. CASE ~Suggests(n, st)
  BY <1>1, <1>2, <1>11
<1> QED
  BY <1>10, <1>11

\* A price in the unit targets are kept in.
LEMMA InUnits ==
    ASSUME NEW p \in Nat, NEW m \in Nat
    PROVE  /\ p * Unit \in Nat
           /\ p * (100 - m) * 100 \in Int /\ p * (100 + m) * 100 \in Int
           /\ p * (100 - m) * 100 <= p * Unit /\ p * Unit <= p * (100 + m) * 100
<1>1. PICK a \in Nat : a = p * m
  OBVIOUS
<1>2. p * (100 - m) = 100 * p - a /\ p * (100 + m) = 100 * p + a
  BY <1>1
<1> QED
  BY <1>1, <1>2 DEF Unit

\* A tight night's target is below neither the price of today nor, if that is
\* lower, the ceiling.
LEMMA TargetHeld ==
    ASSUME NEW n, IsNight(n), NEW st, IsStrategy(st), NEW t \in Int, n.ownPrice \in Nat,
           Tight(n) \/ OwnFull(n)
    PROVE  LET x == Kept4(Kept3(Kept2(Kept1(t, n), n, st), st), st) IN
           /\ x \in Int
           /\ x >= n.ownPrice * Unit \/ (st.ceiling # None /\ x >= st.ceiling * Unit)
<1>1. st.maxChange \in Nat /\ st.floor \in Nat \cup {None} /\ st.ceiling \in Nat \cup {None}
  BY DEF IsStrategy
<1>2. PICK p \in Nat : p = n.ownPrice * Unit
  BY InUnits, <1>1
<1>3. PICK low, high \in Int : /\ low = n.ownPrice * (100 - st.maxChange) * 100
                               /\ high = n.ownPrice * (100 + st.maxChange) * 100
                               /\ low <= p /\ p <= high
  <2>1. PICK o, m \in Nat : o = n.ownPrice /\ m = st.maxChange
    BY <1>1
  <2>2. /\ o * (100 - m) * 100 \in Int /\ o * (100 + m) * 100 \in Int
        /\ o * (100 - m) * 100 <= o * Unit /\ o * Unit <= o * (100 + m) * 100
    BY InUnits
  <2> QED
    BY <1>2, <2>1, <2>2
<1>4. PICK t1 : t1 = Kept1(t, n)
  OBVIOUS
<1>5. t1 \in Int /\ t1 >= p
  BY <1>2, <1>4 DEF Kept1
<1>6. PICK t2 : t2 = Kept2(t1, n, st)
  OBVIOUS
<1>7. t2 = Clamp(t1, low, high)
  BY <1>3, <1>6 DEF Kept2
<1>8. t2 \in Int /\ t2 >= p
  BY <1>3, <1>5, <1>7 DEF Clamp
<1>9. PICK t3 : t3 = Kept3(t2, st)
  OBVIOUS
<1>10. t3 \in Int /\ t3 >= p
  <2>1. st.floor # None => st.floor * Unit \in Int
    BY <1>1 DEF Unit
  <2> QED
    BY <1>8, <1>9, <2>1 DEF Kept3
<1>11. st.ceiling # None => st.ceiling * Unit \in Int
  BY <1>1 DEF Unit
<1>12. Kept4(t3, st) \in Int /\ (Kept4(t3, st) >= p \/ (st.ceiling # None /\ Kept4(t3, st) >= st.ceiling * Unit))
  BY <1>10, <1>11 DEF Kept4
<1> QED
  BY <1>2, <1>4, <1>6, <1>9, <1>12

\* The reference is a price, or there is none.
LEMMA ReferenceIs ==
    ASSUME NEW n, IsNight(n), NEW st, IsStrategy(st)
    PROVE  Reference(n, st) \in Nat \cup {None}
<1>1. n.compMedian \in Nat \cup {None} /\ st.target \in Nat /\ st.base \in Nat \cup {None}
  BY DEF IsNight, IsStrategy
<1>2. CASE SampleOk(n)
  <2>1. n.compMedian \in Nat
    BY <1>1, <1>2 DEF SampleOk
  <2>2. PICK a \in Nat : a = n.compMedian * st.target
    BY <1>1, <2>1
  <2>3. a * 100 \in Nat
    OBVIOUS
  <2> QED
    BY <1>2, <2>2, <2>3 DEF Reference
<1>3. CASE ~SampleOk(n)
  BY <1>1, <1>3 DEF Reference, Unit
<1> QED
  BY <1>2, <1>3

\* One more competitor that is sold out.
More(n) == [n EXCEPT !.soldOut = @ + 1]

\* One more competitor sold out changes nothing else of the night.
LEMMA MoreIs ==
    ASSUME NEW n, IsNight(n)
    PROVE  /\ IsNight(More(n)) /\ More(n).soldOut = n.soldOut + 1
           /\ More(n).status = n.status /\ More(n).ownPrice = n.ownPrice /\ More(n).roomsLeft = n.roomsLeft
           /\ More(n).ownOcc = n.ownOcc /\ More(n).occSource = n.occSource /\ More(n).observed = n.observed
           /\ More(n).low = n.low /\ More(n).compMedian = n.compMedian /\ More(n).compPriced = n.compPriced
           /\ More(n).compOcc = n.compOcc /\ More(n).compPace = n.compPace /\ More(n).pace4w = n.pace4w
           /\ More(n).capacity = n.capacity /\ More(n).holiday = n.holiday /\ More(n).uplift = n.uplift
           /\ More(n).days = n.days
<1>1. PICK a, b, c, d, e, f, g, h, i, j, k, l, m, o, p, q, r, s, u :
        n = [status |-> a, ownPrice |-> b, roomsLeft |-> c, ownOcc |-> d,
             occSource |-> e, observed |-> f, soldOut |-> g, low |-> h,
             compMedian |-> i, compPriced |-> j, compOcc |-> k,
             compPace |-> l, pace4w |-> m, capacity |-> o, holiday |-> p,
             uplift |-> q, days |-> r, peak |-> s, ownIndex |-> u]
  BY DEF IsNight
<1>2. More(n) =
        [status |-> a, ownPrice |-> b, roomsLeft |-> c, ownOcc |-> d,
         occSource |-> e, observed |-> f, soldOut |-> g + 1, low |-> h,
         compMedian |-> i, compPriced |-> j, compOcc |-> k,
         compPace |-> l, pace4w |-> m, capacity |-> o, holiday |-> p,
         uplift |-> q, days |-> r, peak |-> s, ownIndex |-> u]
  BY <1>1 DEF More
<1>3. n.soldOut \in Nat
  BY DEF IsNight
<1> QED
  BY <1>1, <1>2, <1>3 DEF IsNight

\* A night that is tight stays tight with one more sold out, and none turns soft.
LEMMA MoreIsTight ==
    ASSUME NEW n, IsNight(n)
    PROVE  /\ \A p \in {50, 75} : Share(n, p) => Share(More(n), p)
           /\ Tight(n) => Tight(More(n))
           /\ OwnFull(More(n)) <=> OwnFull(n)
           /\ Soft(More(n)) => Soft(n)
<1>1. n.soldOut \in Nat /\ n.low \in Nat /\ n.observed \in Nat
  BY DEF IsNight
<1>2. PICK m : m = More(n)
  OBVIOUS
<1>3. m.soldOut = n.soldOut + 1 /\ m.low = n.low /\ m.observed = n.observed /\ m.compOcc = n.compOcc /\ m.ownOcc = n.ownOcc
  BY <1>2, MoreIs
<1>4. \A p \in {50, 75} : Share(n, p) => Share(m, p)
  BY <1>1, <1>3 DEF Share, TightCount
<1>5. Tight(n) => Tight(m)
  BY <1>3, <1>4 DEF Tight
<1>6. OwnFull(m) <=> OwnFull(n)
  BY <1>3 DEF OwnFull
<1>7. Soft(m) => Soft(n)
  BY <1>3, <1>5 DEF Soft
<1> QED
  BY <1>2, <1>4, <1>5, <1>6, <1>7

\* The adjustments: those of the market's share, the late one, and the rest.
ShareAdj(n) == IF Share(n, 75) THEN {Adj("comp_tight", 10)} ELSE IF Share(n, 50) THEN {Adj("comp_tight", 5)} ELSE {}
LateAdj(n, st) ==
    IF n.days \in 0..st.lastDays /\ Soft(n) /\ st.lastAdj # 0 THEN {Adj("last_minute", st.lastAdj)} ELSE {}
OccAdj(n) == IF n.compOcc # None /\ n.compOcc >= 8500 THEN {Adj("comp_occ", 5)} ELSE {}
PaceAdj(n) == IF n.compPace # None /\ n.compPace >= 1500 THEN {Adj("comp_pace", 5)} ELSE {}
OwnAdj(n) == IF n.ownOcc # None
             THEN IF n.ownOcc >= 9000 THEN {Adj("own_occ_high", 10)}
                  ELSE IF n.ownOcc >= 8000 THEN {Adj("own_occ_high", 5)} ELSE {}
             ELSE IF n.roomsLeft # None /\ n.roomsLeft <= 3 THEN {Adj("own_rooms_few", 5)} ELSE {}
AheadAdj(n) == IF n.pace4w = None \/ n.capacity \in {None, 0} THEN {}
               ELSE IF n.pace4w * 100 >= 10 * n.capacity THEN {Adj("own_pace_ahead", 5)}
               ELSE IF n.pace4w * 100 <= -10 * n.capacity /\ n.days <= 21 THEN {Adj("own_pace_behind", -5)} ELSE {}
WeekdayAdj(st) == IF st.weekday # 0 THEN {Adj("weekday", st.weekday)} ELSE {}
HolidayAdj(n, st) == IF n.holiday THEN {Adj("holiday", st.holidayUplift)} ELSE {}
EventAdj(n) == IF n.uplift \notin {None, 0} THEN {Adj("event", Clamp(n.uplift \div 2, -20, 20))} ELSE {}
OtherAdj(n, st) == OccAdj(n) \cup PaceAdj(n) \cup OwnAdj(n) \cup AheadAdj(n) \cup WeekdayAdj(st)
                   \cup HolidayAdj(n, st) \cup EventAdj(n)

\* The adjustments: those that rest on the share sold out, the last-minute one,
\* and the others.
LEMMA AdjParts ==
    \A n, st : Adjustments(n, st) = (ShareAdj(n) \cup OtherAdj(n, st)) \cup LateAdj(n, st)
<1> SUFFICES ASSUME NEW n, NEW st
             PROVE  Adjustments(n, st) = (ShareAdj(n) \cup OtherAdj(n, st)) \cup LateAdj(n, st)
  OBVIOUS
<1>1. Adjustments(n, st) =
        ShareAdj(n) \cup OccAdj(n) \cup PaceAdj(n) \cup OwnAdj(n) \cup AheadAdj(n) \cup WeekdayAdj(st)
        \cup HolidayAdj(n, st) \cup EventAdj(n) \cup LateAdj(n, st)
  BY DEF Adjustments, ShareAdj, LateAdj, OccAdj, PaceAdj, OwnAdj, AheadAdj, WeekdayAdj, HolidayAdj, EventAdj
<1> QED
  BY <1>1 DEF OtherAdj

\* The others are finitely many percentages, and do not depend on the share.
LEMMA OtherAdjIs ==
    ASSUME NEW n, IsNight(n), NEW st, IsStrategy(st)
    PROVE  /\ IsFiniteSet(OtherAdj(n, st))
           /\ \A a \in OtherAdj(n, st) : a.key \notin {"comp_tight", "last_minute"} /\ a.pct \in Int
           /\ OtherAdj(More(n), st) = OtherAdj(n, st)
<1> DEFINE Few(S) == IsFiniteSet(S) /\ \A a \in S : a.key \notin {"comp_tight", "last_minute"} /\ a.pct \in Int
<1>2. \A k, p : k \notin {"comp_tight", "last_minute"} /\ p \in Int => Few({Adj(k, p)})
  <2> SUFFICES ASSUME NEW k, NEW p \in Int, k \notin {"comp_tight", "last_minute"}
               PROVE  Few({Adj(k, p)})
    BY Zenon
  <2>1. IsFiniteSet({Adj(k, p)})
    BY FS_Singleton
  <2>2. Adj(k, p).key = k /\ Adj(k, p).pct = p
    BY DEF Adj
  <2> QED
    BY <2>1, <2>2
<1>3. Few({})
  <2>1. IsFiniteSet({})
    BY FS_EmptySet
  <2> QED
    BY <2>1
<1>4. \A S, T : Few(S) /\ Few(T) => Few(S \cup T)
  BY FS_Union
<1> HIDE DEF Few
<1>5. Few(OccAdj(n)) /\ Few(PaceAdj(n)) /\ Few(OwnAdj(n))
  BY <1>2, <1>3 DEF OccAdj, PaceAdj, OwnAdj
<1>6. Few(AheadAdj(n))
  BY <1>2, <1>3 DEF AheadAdj
<1>7. Few(WeekdayAdj(st)) /\ Few(HolidayAdj(n, st))
  BY <1>2, <1>3 DEF IsStrategy, WeekdayAdj, HolidayAdj
<1>8. Few(EventAdj(n))
  <2>1. n.uplift \div 2 \in Int
    BY DEF IsNight
  <2>2. Clamp(n.uplift \div 2, -20, 20) \in Int
    BY <2>1 DEF Clamp
  <2> QED
    BY <1>2, <1>3, <2>2 DEF EventAdj
<1>9. Few(OtherAdj(n, st))
  <2> DEFINE c == OccAdj(n) \cup PaceAdj(n)
             d == c \cup OwnAdj(n)
             e == d \cup AheadAdj(n)
             f == e \cup WeekdayAdj(st)
             g == f \cup HolidayAdj(n, st)
  <2>1. Few(c)
    BY <1>4, <1>5
  <2>2. Few(d)
    BY <1>4, <1>5, <2>1
  <2>3. Few(e)
    BY <1>4, <1>6, <2>2
  <2>4. Few(f)
    BY <1>4, <1>7, <2>3
  <2>5. Few(g)
    BY <1>4, <1>7, <2>4
  <2>6. OtherAdj(n, st) = g \cup EventAdj(n)
    BY DEF OtherAdj
  <2> HIDE DEF g
  <2> QED
    BY <1>4, <1>8, <2>5, <2>6
<1>10. OtherAdj(More(n), st) = OtherAdj(n, st)
  <2>1. PICK m : m = More(n)
    OBVIOUS
  <2>2. /\ m.compOcc = n.compOcc /\ m.compPace = n.compPace /\ m.ownOcc = n.ownOcc /\ m.roomsLeft = n.roomsLeft
        /\ m.pace4w = n.pace4w /\ m.capacity = n.capacity /\ m.days = n.days /\ m.holiday = n.holiday /\ m.uplift = n.uplift
    BY <2>1, MoreIs
  <2>3. OtherAdj(m, st) = OtherAdj(n, st)
    BY <2>2 DEF OtherAdj, OccAdj, PaceAdj, OwnAdj, AheadAdj, WeekdayAdj, HolidayAdj, EventAdj
  <2> QED
    BY <2>1, <2>3
<1> QED
  BY <1>9, <1>10 DEF Few

ShareUp(n) == IF Share(n, 75) THEN 10 ELSE IF Share(n, 50) THEN 5 ELSE 0
LateUp(n, st) == IF n.days \in 0..st.lastDays /\ Soft(n) /\ st.lastAdj # 0 THEN st.lastAdj ELSE 0
PctsOf(n, st) == SumBy(Adjustments(n, st), LAMBDA a : a.pct)
OtherUp(n, st) == SumBy(OtherAdj(n, st), LAMBDA a : a.pct)

\* What the adjustments add up to.
LEMMA AdjustmentsAddUp ==
    ASSUME NEW n, IsNight(n), NEW st, IsStrategy(st)
    PROVE  /\ OtherUp(n, st) \in Int /\ LateUp(n, st) \in Int
           /\ PctsOf(n, st) = (ShareUp(n) + OtherUp(n, st)) + LateUp(n, st)
<1> DEFINE A == ShareAdj(n)  B == OtherAdj(n, st)  C == LateAdj(n, st)
           D == (A \cup B) \cup C
           g == [a \in D |-> a.pct]
           s == Sums(g)
<1>1. Adjustments(n, st) = D
  BY AdjParts
<1>2. IsFiniteSet(B) /\ \A a \in B : a.key \notin {"comp_tight", "last_minute"} /\ a.pct \in Int
  BY OtherAdjIs
<1>0. \A k, p : Adj(k, p).key = k /\ Adj(k, p).pct = p
  BY DEF Adj
<1>3. st.lastAdj \in Int
  BY DEF IsStrategy
<1>4. /\ (A = {} /\ ShareUp(n) = 0) \/ (\E a : A = {a} /\ a.key = "comp_tight" /\ a.pct = ShareUp(n))
      /\ ShareUp(n) \in Int
  BY <1>0 DEF ShareAdj, ShareUp
<1>5. /\ (C = {} /\ LateUp(n, st) = 0) \/ (\E a : C = {a} /\ a.key = "last_minute" /\ a.pct = LateUp(n, st))
      /\ LateUp(n, st) \in Int
  BY <1>0, <1>3 DEF LateAdj, LateUp
<1> HIDE DEF A, B, C
<1>6. IsFiniteSet(A) /\ IsFiniteSet(C)
  <2>1. \A a : IsFiniteSet({a})
    BY FS_Singleton
  <2>2. IsFiniteSet({})
    BY FS_EmptySet
  <2>3. (A = {} \/ \E a : A = {a}) /\ (C = {} \/ \E a : C = {a})
    BY <1>4, <1>5
  <2> QED
    BY <2>1, <2>2, <2>3
<1>7. IsFiniteSet(D)
  BY <1>2, <1>6, FS_Union
<1>8. g \in [D -> Int] /\ \A a \in D : g[a] = a.pct
  BY <1>2, <1>4, <1>5
<1>9. A \in SUBSET D /\ B \in SUBSET D /\ C \in SUBSET D
  OBVIOUS
<1>10. A \cap B = {} /\ (A \cup B) \cap C = {}
  BY <1>2, <1>4, <1>5
<1>11. \A R, S \in SUBSET D : R \cap S = {} => s[R \cup S] = s[R] + s[S]
  <2> SUFFICES ASSUME NEW R \in SUBSET D, NEW S \in SUBSET D, R \cap S = {} PROVE s[R \cup S] = s[R] + s[S]
    OBVIOUS
  <2> HIDE DEF g, D
  <2> QED
    BY <1>7, <1>8, SumsUnion
<1>12. AddsFew(s, g, D) /\ Adds(s, g, D)
  <2> HIDE DEF g, D
  <2> QED
    BY <1>7, <1>8, SumsFew, SumsAny
<1>13. SumOf(g) = s[D]
  <2> HIDE DEF g, D
  <2> QED
    BY <1>7, <1>8, SumSplit
<1>14. OtherUp(n, st) = s[B]
  <2>1. OtherUp(n, st) = SumOf([a \in B |-> a.pct])
    BY Zenon DEF OtherUp, SumBy, B
  <2>2. [a \in B |-> a.pct] = [a \in B |-> g[a]]
    BY <1>8, <1>9
  <2>3. SumOf([a \in B |-> g[a]]) = s[B]
    <3> HIDE DEF g, D
    <3> QED
      BY <1>7, <1>8, <1>9, SumPart
  <2> HIDE DEF g
  <2> QED
    BY <2>1, <2>2, <2>3
<1>15. PctsOf(n, st) = SumOf(g)
  <2> HIDE DEF D
  <2> QED
    BY <1>1, Zenon DEF SumBy, PctsOf
<1> HIDE DEF g, s
<1>16. s[A] = ShareUp(n)
  BY <1>4, <1>8, <1>9, <1>12 DEF AddsFew
<1>17. s[C] = LateUp(n, st)
  BY <1>5, <1>8, <1>9, <1>12 DEF AddsFew
<1>18. s[A \cup B] = s[A] + s[B] /\ s[(A \cup B) \cup C] = s[A \cup B] + s[C]
  BY <1>9, <1>10, <1>11
<1>19. s[B] \in Int
  BY <1>9, <1>12 DEF Adds
<1> HIDE DEF D
<1>20. s[D] = (ShareUp(n) + s[B]) + LateUp(n, st)
  BY <1>16, <1>17, <1>18 DEF D
<1> QED
  BY <1>5, <1>13, <1>14, <1>15, <1>19, <1>20

\* What the adjustments come to lies within the limits, and one more sold out
\* does not lower it.
LEMMA TotalGrows ==
    ASSUME NEW n, IsNight(n), NEW st, IsStrategy(st)
    PROVE  /\ Total(n, st) \in MaxDown..MaxUp
           /\ st.lastAdj <= 0 => Total(n, st) <= Total(More(n), st)
<1>1. PICK m : m = More(n)
  OBVIOUS
<1>2. IsNight(m) /\ m.days = n.days
  BY <1>1, MoreIs
<1>3. PICK a \in Int : a = PctsOf(n, st) /\ a = (ShareUp(n) + OtherUp(n, st)) + LateUp(n, st)
  BY AdjustmentsAddUp DEF ShareUp
<1>4. PICK b \in Int : b = PctsOf(m, st) /\ b = (ShareUp(m) + OtherUp(m, st)) + LateUp(m, st)
  BY <1>2, AdjustmentsAddUp DEF ShareUp
<1>5. Total(n, st) = Clamp(a, MaxDown, MaxUp) /\ Total(m, st) = Clamp(b, MaxDown, MaxUp)
  BY <1>3, <1>4, Zenon DEF Total, PctsOf
<1>6. Total(n, st) \in MaxDown..MaxUp
  BY <1>5 DEF Clamp, MaxDown, MaxUp
<1>7. ASSUME st.lastAdj <= 0 PROVE a <= b
  <2>1. OtherUp(m, st) = OtherUp(n, st) /\ OtherUp(n, st) \in Int /\ LateUp(n, st) \in Int /\ LateUp(m, st) \in Int
    <3>1. OtherAdj(m, st) = OtherAdj(n, st)
      BY <1>1, OtherAdjIs
    <3>2. OtherUp(m, st) = OtherUp(n, st)
      BY <3>1, Zenon DEF OtherUp
    <3> QED
      BY <1>2, <3>2, AdjustmentsAddUp
  <2>2. ShareUp(n) <= ShareUp(m) /\ ShareUp(n) \in Int /\ ShareUp(m) \in Int
    <3>1. (Share(n, 50) => Share(m, 50)) /\ (Share(n, 75) => Share(m, 75))
      BY <1>1, MoreIsTight
    <3> QED
      BY <3>1 DEF ShareUp
  <2>3. LateUp(n, st) <= LateUp(m, st)
    <3>1. Soft(m) => Soft(n)
      BY <1>1, MoreIsTight
    <3>2. st.lastAdj \in Int
      BY DEF IsStrategy
    <3> QED
      BY <1>2, <1>7, <3>1, <3>2 DEF LateUp
  <2> QED
    BY <1>3, <1>4, <2>1, <2>2, <2>3
<1>8. ASSUME st.lastAdj <= 0 PROVE Total(n, st) <= Total(m, st)
  <2>1. a <= b
    BY <1>7, <1>8
  <2> QED
    BY <1>5, <2>1 DEF Clamp, MaxDown, MaxUp
<1> QED
  BY <1>1, <1>6, <1>8

\* A higher target stays the higher one through the limits and the rounding.
LEMMA LimitsGrow ==
    ASSUME NEW n, IsNight(n), NEW st, IsStrategy(st), n.ownPrice \in Nat \ {0}, NEW t \in Int, NEW u \in Int, t <= u
    PROVE  LET x == Kept4(Kept3(Kept2(Kept1(t, n), n, st), st), st)
               y == Kept4(Kept3(Kept2(Kept1(u, More(n)), More(n), st), st), st)
           IN  x \in Int /\ y \in Int /\ x <= y
<1>1. PICK m : m = More(n)
  OBVIOUS
<1>2. PICK own \in Nat \ {0} : own = n.ownPrice /\ own = m.ownPrice
  BY <1>1, MoreIs
<1>3. st.maxChange \in Nat /\ st.floor \in Nat \cup {None} /\ st.ceiling \in Nat \cup {None}
  BY DEF IsStrategy
<1>4. PICK mc \in Nat : mc = st.maxChange
  BY <1>3
<1>5. PICK p \in Int : p = own * Unit
  BY DEF Unit
<1>6. PICK low, high \in Int : low = own * (100 - mc) * 100 /\ high = own * (100 + mc) * 100 /\ low <= high
  <2>1. /\ own * (100 - mc) * 100 \in Int /\ own * (100 + mc) * 100 \in Int
        /\ own * (100 - mc) * 100 <= own * Unit /\ own * Unit <= own * (100 + mc) * 100
    BY InUnits
  <2>2. own * Unit \in Int
    BY <1>5
  <2> QED
    BY <2>1, <2>2
<1>7. Tight(n) \/ OwnFull(n) => Tight(m) \/ OwnFull(m)
  BY <1>1, MoreIsTight
<1>8. PICK t1, u1 \in Int : t1 = Kept1(t, n) /\ u1 = Kept1(u, m) /\ t1 <= u1
  BY <1>2, <1>5, <1>7 DEF Kept1
<1>9. PICK t2, u2 \in Int : t2 = Kept2(t1, n, st) /\ u2 = Kept2(u1, m, st) /\ t2 <= u2
  <2>1. Kept2(t1, n, st) = Clamp(t1, low, high) /\ Kept2(u1, m, st) = Clamp(u1, low, high)
    BY <1>2, <1>4, <1>6 DEF Kept2
  <2>2. Clamp(t1, low, high) \in Int /\ Clamp(u1, low, high) \in Int /\ Clamp(t1, low, high) <= Clamp(u1, low, high)
    BY <1>6, <1>8 DEF Clamp
  <2> QED
    BY <2>1, <2>2
<1>10. PICK t3, u3 \in Int : t3 = Kept3(t2, st) /\ u3 = Kept3(u2, st) /\ t3 <= u3
  <2>1. st.floor # None => st.floor * Unit \in Int
    BY <1>3 DEF Unit
  <2> QED
    BY <1>9, <2>1 DEF Kept3
<1>11. PICK t4, u4 \in Int : t4 = Kept4(t3, st) /\ u4 = Kept4(u3, st) /\ t4 <= u4
  <2>1. st.ceiling # None => st.ceiling * Unit \in Int
    BY <1>3 DEF Unit
  <2> QED
    BY <1>10, <2>1 DEF Kept4
<1> QED
  BY <1>1, <1>8, <1>9, <1>10, <1>11

\* To round to a step keeps the order.
LEMMA RoundedGrows ==
    ASSUME NEW t \in Int, NEW u \in Int, t <= u, NEW s \in Nat
    PROVE  Rounded(t, s) \in Int /\ Rounded(u, s) \in Int /\ Rounded(t, s) <= Rounded(u, s)
<1>1. CASE s = 0
  <2>1. Rounded(t, s) = HalfEven(t, Unit) /\ Rounded(u, s) = HalfEven(u, Unit) /\ Unit \in Nat \ {0}
    BY <1>1 DEF Rounded, Unit
  <2> QED
    BY <2>1, HalfEvenGrows
<1>2. CASE s # 0
  <2>1. PICK d \in Nat \ {0} : d = s * Unit
    BY <1>2 DEF Unit
  <2>2. PICK a, b \in Int : a = HalfUp(t, d) /\ b = HalfUp(u, d) /\ a <= b
    BY HalfUpGrows
  <2>3. s * a <= s * b
    BY <2>2, ProductGrows
  <2>4. a * s = s * a /\ b * s = s * b /\ a * s \in Int /\ b * s \in Int
    OBVIOUS
  <2>5. Rounded(t, s) = a * s /\ Rounded(u, s) = b * s
    BY <1>2, <2>1, <2>2 DEF Rounded
  <2> QED
    BY <2>3, <2>4, <2>5
<1> QED
  BY <1>1, <1>2

\* The lesser of a price and a ceiling, if there is one.
LEMMA PriceOrCeiling ==
    ASSUME NEW p \in Nat, NEW c \in Nat \cup {None}
    PROVE  /\ LeastOf({p, c}) \in Nat /\ LeastOf({p, c}) <= p
           /\ c # None => LeastOf({p, c}) <= c
<1>1. p # None /\ p \in Int
  BY DEF None
<1>2. PICK m : m = LeastOf({p, c})
  OBVIOUS
<1>3. CASE c = None
  <2>1. Known({p, c}) = {p}
    BY <1>1, <1>3 DEF Known
  <2>2. m = Min({p})
    BY <1>2, <2>1 DEF LeastOf
  <2>3. \E x \in {p} : \A y \in {p} : x <= y
    BY <1>1
  <2>4. m \in {p}
    BY <2>2, <2>3 DEF Min
  <2> QED
    BY <1>2, <1>3, <2>4
<1>4. CASE c # None
  <2>1. Known({p, c}) = {p, c} /\ c \in Nat
    BY <1>1, <1>4 DEF Known
  <2>2. m = Min({p, c})
    BY <1>2, <2>1 DEF LeastOf
  <2>3. \E x \in {p, c} : \A y \in {p, c} : x <= y
    BY <2>1
  <2>4. m \in {p, c} /\ \A y \in {p, c} : m <= y
    BY <2>2, <2>3 DEF Min
  <2> QED
    BY <1>2, <2>1, <2>4
<1> QED
  BY <1>3, <1>4

\* Of a night with a tight market or a full house.
LEMMA TightHeld ==
    ASSUME NEW n, IsNight(n), NEW st, IsStrategy(st), Total(n, st) \in Int
    PROVE  TightIsHeld(n, st)
<1> DEFINE base == LeastOf({n.ownPrice, st.ceiling})
<1> SUFFICES ASSUME Tight(n) \/ OwnFull(n), Suggest(n, st).kind # "none"
             PROVE  Suggest(n, st).target >= Rounded(base * Unit, st.roundTo)
  BY DEF TightIsHeld
<1>1. Suggests(n, st)
  BY SuggestedKind
<1>2. n.ownPrice \in Nat \ {0} /\ Reference(n, st) \in Nat
  BY <1>1, ReferenceIs DEF Suggests, IsNight
<1>3. RawOf(n, st) \in Int
  <2>1. PICK a, b \in Int : a = Reference(n, st) /\ b = 100 + Total(n, st)
    BY <1>2
  <2>2. a * b \in Int
    OBVIOUS
  <2>3. (a * b) \div 100 \in Int
    BY <2>2, DivIs
  <2> QED
    BY <2>1, <2>3 DEF RawOf
<1>4. PICK own \in Nat \ {0} : own = n.ownPrice
  BY <1>2
<1>5. st.ceiling \in Nat \cup {None} /\ st.roundTo \in Nat
  BY DEF IsStrategy
<1>6. PICK b \in Nat : b = base /\ b <= own /\ (st.ceiling # None => b <= st.ceiling)
  <2>1. LET m == LeastOf({own, st.ceiling}) IN m \in Nat /\ m <= own /\ (st.ceiling # None => m <= st.ceiling)
    BY <1>5, PriceOrCeiling
  <2> QED
    BY <1>4, <2>1
<1>7. PICK t \in Int : t = TargetOf(n, st) /\ b * Unit <= t
  <2>1. PICK r \in Int : r = RawOf(n, st)
    BY <1>3
  <2>2. LET x == Kept4(Kept3(Kept2(Kept1(r, n), n, st), st), st) IN
        x \in Int /\ (x >= n.ownPrice * Unit \/ (st.ceiling # None /\ x >= st.ceiling * Unit))
    BY <1>2, TargetHeld
  <2>3. PICK x \in Int : /\ x = TargetOf(n, st)
                         /\ x >= own * Unit \/ (st.ceiling # None /\ x >= st.ceiling * Unit)
    BY <1>4, <2>1, <2>2 DEF TargetOf
  <2>4. b * Unit <= own * Unit /\ own * Unit \in Int /\ b * Unit \in Int
    BY <1>6 DEF Unit
  <2>5. st.ceiling # None => b * Unit <= st.ceiling * Unit /\ st.ceiling * Unit \in Int
    BY <1>5, <1>6 DEF Unit
  <2> QED
    BY <2>3, <2>4, <2>5
<1>8. PICK low, price \in Int : low = Rounded(b * Unit, st.roundTo) /\ price = Rounded(t, st.roundTo) /\ low <= price
  <2>1. b * Unit \in Int
    BY DEF Unit
  <2> QED
    BY <1>5, <1>7, <2>1, RoundedGrows
<1>9. CASE ~(Kind(ChangeOf(n, st)) = "lower" /\ ~Evidence(n, st))
  <2>1. Suggest(n, st).target = price
    BY <1>1, <1>7, <1>8, <1>9, SuggestedKind
  <2> QED
    BY <1>6, <1>8, <2>1
<1>10. CASE Kind(ChangeOf(n, st)) = "lower" /\ ~Evidence(n, st)
  <2>1. Suggest(n, st).target = own
    BY <1>1, <1>4, <1>10, SuggestedKind
  <2>2. price < own
    <3> SUFFICES ASSUME price >= own PROVE FALSE
      OBVIOUS
    <3>1. own * 0 <= (price - own) * 100 /\ (price - own) * 100 \in Int
      OBVIOUS
    <3>2. HalfUp((price - own) * 100, own) \in Int /\ 0 <= HalfUp((price - own) * 100, own)
      BY <3>1, HalfUpAbove
    <3>3. ChangeOf(n, st) = HalfUp((price - own) * 100, own)
      BY <1>4, <1>7, <1>8 DEF ChangeOf, Change
    <3>4. Kind(ChangeOf(n, st)) # "lower"
      BY <3>2, <3>3 DEF Kind, HoldBand
    <3> QED
      BY <1>10, <3>4
  <2> QED
    BY <1>6, <1>8, <2>1, <2>2
<1> QED
  BY <1>9, <1>10

\* The advice follows the change: a higher target is never worse advice.
LEMMA KindGrows ==
    ASSUME NEW a \in Int, NEW b \in Int, a <= b
    PROVE  /\ Kind(a) \in {"raise", "hold", "lower"}
           /\ Kind(b) = "lower" => Kind(a) = "lower"
           /\ Kind(a) = "raise" => Kind(b) = "raise"
BY DEF Kind, HoldBand

\* One more competitor sold out never turns the advice towards a lower price.
LEMMA DemandHelps ==
    ASSUME NEW n, IsNight(n), NEW st, IsStrategy(st)
    PROVE  DemandRaises(n, st)
<1> SUFFICES ASSUME st.lastAdj <= 0
             PROVE  Order(Suggest(n, st).kind) <= Order(Suggest(More(n), st).kind)
  BY DEF DemandRaises, More
<1>1. PICK m : m = More(n)
  OBVIOUS
<1>2. /\ m.status = n.status /\ m.ownPrice = n.ownPrice /\ m.occSource = n.occSource /\ m.pace4w = n.pace4w
      /\ m.compMedian = n.compMedian /\ m.compPriced = n.compPriced /\ IsNight(m)
  BY <1>1, MoreIs
<1>3. Reference(m, st) = Reference(n, st)
  BY <1>2 DEF Reference, SampleOk
<1>4. (Suggests(m, st) <=> Suggests(n, st)) /\ (Evidence(m, st) <=> Evidence(n, st))
  BY <1>2, <1>3 DEF Suggests, Evidence, HasOtb
<1>5. Order("lower") = 0 /\ Order("hold") = 1 /\ Order("none") = 1 /\ Order("raise") = 2
  BY DEF Order
<1>6. CASE ~Suggests(n, st)
  <2>1. Suggest(n, st).kind = "none" /\ Suggest(m, st).kind = "none"
    BY <1>4, <1>6, SuggestedKind
  <2> QED
    BY <1>1, <1>5, <2>1
<1>7. CASE Suggests(n, st)
  <2>1. n.ownPrice \in Nat \ {0} /\ Reference(n, st) \in Nat
    BY <1>7, ReferenceIs DEF Suggests, IsNight
  <2>2. PICK own \in Nat \ {0} : own = n.ownPrice /\ own = m.ownPrice
    BY <1>2, <2>1
  <2>3. PICK a, b \in Int : a = Total(n, st) /\ b = Total(m, st) /\ a <= b
    <3>1. Total(n, st) \in Int /\ Total(m, st) \in Int
      BY <1>2, TotalGrows DEF MaxDown, MaxUp
    <3>2. Total(n, st) <= Total(m, st)
      BY <1>1, TotalGrows
    <3> QED
      BY <3>1, <3>2
  <2>4. PICK ref \in Nat : ref = Reference(n, st)
    BY <2>1
  <2>5. PICK t, u \in Int : t = RawOf(n, st) /\ u = RawOf(m, st) /\ t <= u
    <3>1. ref * (100 + a) <= ref * (100 + b)
      BY <2>3, ProductGrows
    <3>2. PICK v, w \in Int : v = ref * (100 + a) /\ w = ref * (100 + b) /\ v <= w
      BY <3>1
    <3>3. v \div 100 \in Int /\ w \div 100 \in Int /\ v \div 100 <= w \div 100
      BY <3>2, DivGrows, DivIs
    <3>4. RawOf(n, st) = v \div 100 /\ RawOf(m, st) = w \div 100
      BY <1>3, <2>3, <2>4, <3>2 DEF RawOf
    <3> QED
      BY <3>3, <3>4
  <2>6. PICK x, y \in Int : x = TargetOf(n, st) /\ y = TargetOf(m, st) /\ x <= y
    <3>1. LET c == Kept4(Kept3(Kept2(Kept1(t, n), n, st), st), st)
              d == Kept4(Kept3(Kept2(Kept1(u, m), m, st), st), st)
          IN  c \in Int /\ d \in Int /\ c <= d
      BY <1>1, <2>1, <2>5, LimitsGrow
    <3> QED
      BY <2>5, <3>1 DEF TargetOf
  <2>7. st.roundTo \in Nat
    BY DEF IsStrategy
  <2>8. PICK p, q \in Int : p = Rounded(x, st.roundTo) /\ q = Rounded(y, st.roundTo) /\ p <= q
    BY <2>6, <2>7, RoundedGrows
  <2>9. PICK c, d \in Int : c = ChangeOf(n, st) /\ d = ChangeOf(m, st) /\ c <= d
    <3>1. PICK e, f \in Int : e = (p - own) * 100 /\ f = (q - own) * 100 /\ e <= f
      BY <2>8
    <3>2. HalfUp(e, own) \in Int /\ HalfUp(f, own) \in Int /\ HalfUp(e, own) <= HalfUp(f, own)
      BY <3>1, HalfUpGrows
    <3>3. ChangeOf(n, st) = HalfUp(e, own) /\ ChangeOf(m, st) = HalfUp(f, own)
      BY <2>2, <2>6, <2>8, <3>1 DEF ChangeOf, Change
    <3> QED
      BY <3>2, <3>3
  <2>10. /\ Kind(c) \in {"raise", "hold", "lower"} /\ Kind(d) \in {"raise", "hold", "lower"}
         /\ (Kind(d) = "lower" => Kind(c) = "lower") /\ (Kind(c) = "raise" => Kind(d) = "raise")
    BY <2>9, KindGrows
  <2>11. /\ Suggest(n, st).kind = IF Kind(c) = "lower" /\ ~Evidence(n, st) THEN "hold" ELSE Kind(c)
         /\ Suggest(m, st).kind = IF Kind(d) = "lower" /\ ~Evidence(n, st) THEN "hold" ELSE Kind(d)
    BY <1>4, <1>7, <2>9, SuggestedKind
  <2>12. PICK i, j \in {"raise", "hold", "lower"} : /\ i = Suggest(n, st).kind /\ j = Suggest(m, st).kind
                                                    /\ (j = "lower" => i = "lower") /\ (i = "raise" => j = "raise")
    BY <2>10, <2>11
  <2>13. Order(i) <= Order(j)
    BY <1>5, <2>12
  <2> QED
    BY <1>1, <2>12, <2>13
<1> QED
  BY <1>6, <1>7

\* Of any night and strategy, a night that is tight, or of a house nearly full,
\* is priced below today's price by the ceiling and the rounding alone, never
\* below the lesser of that price and the ceiling as they round; and one more
\* competitor sold out never turns the suggestion towards a lower price, unless
\* the strategy raises prices at the last minute (price_suggest.py suggest).
THEOREM PricesAreTrue == FiguresSpec => []PricesAreHeld
<1>1. ASSUME NEW n, IsNight(n), NEW st, IsStrategy(st)
      PROVE  TightIsHeld(n, st) /\ DemandRaises(n, st)
  <2>1. Total(n, st) \in Int
    BY <1>1, TotalGrows DEF MaxDown, MaxUp
  <2> QED
    BY <1>1, <2>1, TightHeld, DemandHelps
<1>2. FiguresInit => PricesAreHeld
  BY <1>1, AnalysisInputs DEF FiguresInit, PricesAreHeld
<1>3. PricesAreHeld /\ [FiguresNext]_<<kind, input>> => PricesAreHeld'
  BY DEF FiguresNext, PricesAreHeld
<1> QED
  BY <1>2, <1>3, PTL DEF FiguresSpec

-----------------------------------------------------------------------------
(* Occupancy.                                                                *)

\* Of finitely many figures, not none, one is the greatest and one the least.
LEMMA FiniteExtremes ==
    ASSUME NEW D, IsFiniteSet(D), NEW f \in [D -> Int], D # {}
    PROVE  \E a, b \in D : \A x \in D : f[a] <= f[x] /\ f[x] <= f[b]
<1> DEFINE Has(S) == \E a, b \in S : \A x \in S : f[a] <= f[x] /\ f[x] <= f[b]
           G == {S \in SUBSET D : S = {} \/ Has(S)}
<1>1. ASSUME NEW S \in SUBSET D, \A x \in S : S \ {x} \in G
      PROVE  S \in G
  <2> SUFFICES ASSUME S # {} PROVE Has(S)
    OBVIOUS
  <2>1. PICK y \in S : TRUE
    OBVIOUS
  <2>2. f[y] \in Int
    BY <2>1
  <2>3. CASE S \ {y} = {}
    <3>1. \A x \in S : x = y
      BY <2>3
    <3> QED
      BY <2>1, <2>2, <3>1
  <2>4. CASE S \ {y} # {}
    <3>1. Has(S \ {y})
      BY <1>1, <2>1, <2>4
    <3>2. PICK a, b \in S \ {y} : \A x \in S \ {y} : f[a] <= f[x] /\ f[x] <= f[b]
      BY <3>1
    <3>3. f[a] \in Int /\ f[b] \in Int
      BY <3>2
    <3>4. \E c \in S : f[c] <= f[a] /\ f[c] <= f[y]
      BY <2>1, <2>2, <3>2, <3>3
    <3>5. \E d \in S : f[b] <= f[d] /\ f[y] <= f[d]
      BY <2>1, <2>2, <3>2, <3>3
    <3>6. PICK c, d \in S : f[c] <= f[a] /\ f[c] <= f[y] /\ f[b] <= f[d] /\ f[y] <= f[d]
      BY <3>4, <3>5
    <3>7. ASSUME NEW x \in S PROVE f[c] <= f[x] /\ f[x] <= f[d]
      <4>1. f[c] \in Int /\ f[d] \in Int /\ f[x] \in Int
        OBVIOUS
      <4>2. x = y \/ (f[a] <= f[x] /\ f[x] <= f[b])
        BY <3>2
      <4> QED
        BY <3>3, <3>6, <4>1, <4>2
    <3> QED
      BY <3>7
  <2> QED
    BY <2>3, <2>4
<1>2. \A S \in SUBSET D : (\A x \in S : S \ {x} \in G) => S \in G
  BY <1>1
<1> HIDE DEF G
<1>3. D \in G
  BY <1>2, FiniteOneByOne
<1> QED
  BY <1>3 DEF G

\* The least and the greatest of figures that are not negative.
LEMMA ExtremesAre ==
    ASSUME NEW S \in SUBSET Nat, NEW a \in S, NEW b \in S, \A x \in S : a <= x /\ x <= b
    PROVE  LeastOf(S) = a /\ GreatestOf(S) = b
<1>1. Known(S) = S /\ S # {}
  BY DEF Known, None
<1>2. \A x \in S : (\A y \in S : x <= y) => x = a
  OBVIOUS
<1>3. \A x \in S : (\A y \in S : x >= y) => x = b
  OBVIOUS
<1>4. \A y \in S : a <= y /\ b >= y
  OBVIOUS
<1>5. Min(S) = a
  BY <1>2, <1>4 DEF Min
<1>6. Max(S) = b
  BY <1>3, <1>4 DEF Max
<1> QED
  BY <1>1, <1>5, <1>6 DEF LeastOf, GreatestOf

\* Of finitely many figures that may be missing the greatest is one of them.
LEMMA GreatestIs ==
    ASSUME NEW D, IsFiniteSet(D), NEW f, DOMAIN f = D, \A x \in D : f[x] \in Nat \cup {None}
    PROVE  LET g == GreatestOf({f[x] : x \in D})
           IN  g \in Nat \cup {None} /\ \A x \in D : f[x] <= g
<1> DEFINE S == {f[x] : x \in D}
           E == {x \in D : f[x] # None}
           h == [x \in E |-> f[x]]
<1>1. Known(S) = {h[x] : x \in E}
  BY DEF Known
<1>2. CASE E = {}
  <2>1. GreatestOf(S) = None /\ \A x \in D : f[x] = None
    BY <1>1, <1>2 DEF GreatestOf
  <2> QED
    BY <2>1 DEF None
<1>3. CASE E # {}
  <2>1. IsFiniteSet(E) /\ h \in [E -> Int] /\ \A x \in E : h[x] \in Nat
    BY FS_Subset
  <2> HIDE DEF E, h
  <2>2. PICK b \in E : \A x \in E : h[x] <= h[b]
    BY <1>3, <2>1, FiniteExtremes
  <2>3. \A z \in Known(S) : z \in Int /\ z <= h[b]
    BY <1>1, <2>1, <2>2
  <2>4. h[b] \in Known(S) /\ h[b] \in Nat
    BY <1>1, <2>1
  <2>5. Known(S) # {} /\ Max(Known(S)) = h[b]
    <3> HIDE DEF S, Known
    <3>1. \A x \in Known(S) : (\A y \in Known(S) : x >= y) => x = h[b]
      BY <2>3, <2>4
    <3>2. \A y \in Known(S) : h[b] >= y
      BY <2>3, <2>4
    <3> QED
      BY <2>4, <3>1, <3>2 DEF Max
  <2>6. GreatestOf(S) = h[b]
    BY <2>5 DEF GreatestOf
  <2>7. ASSUME NEW x \in D PROVE f[x] <= h[b]
    <3>1. CASE f[x] = None
      BY <2>4, <3>1 DEF None
    <3>2. CASE f[x] # None
      BY <2>2, <3>2 DEF E, h
    <3> QED
      BY <3>1, <3>2
  <2> QED
    BY <2>4, <2>6, <2>7
<1> QED
  BY <1>2, <1>3

\* What may be seen of a room whose stock counts for its type.
LEMMA RoomIs ==
    ASSUME NEW r, IsRoom(r), r.scope = "room_type"
    PROVE  /\ r.confidence \in {"sold_out", "exact", "capped", "hidden"}
           /\ r.confidence \in {"exact", "capped"} => r.left \in Nat \ {0} /\ FloorOf(r) = r.left
           /\ r.confidence \notin {"exact", "capped"} => FloorOf(r) = None
<1>1. PICK badge \in Nat \cup {None} : /\ r.confidence = DeriveStock(badge, r.dropdown, r.scope).confidence
                                       /\ r.left = DeriveStock(badge, r.dropdown, r.scope).left
  BY DEF IsRoom
<1>2. \A l, c : Stock(l, c).left = l /\ Stock(l, c).confidence = c
  BY DEF Stock
<1>3. PICK d \in Nat \cup {None} : d = r.dropdown
  BY DEF IsRoom
<1>4. PageCap \in Nat \ {0}
  BY OccupancyBounds
<1>5. \/ r.confidence = "sold_out"
      \/ r.confidence = "exact" /\ r.left \in Nat \ {0}
      \/ r.confidence = "capped" /\ r.left \in Nat \ {0}
      \/ r.confidence = "hidden"
  <2>1. DeriveStock(badge, d, r.scope) =
          IF badge = 0 THEN Stock(0, "sold_out")
          ELSE IF badge # None THEN Stock(badge, "exact")
          ELSE IF d = 0 THEN Stock(0, "sold_out")
          ELSE IF d # None /\ d >= PageCap THEN Stock(d, "capped")
          ELSE Stock(None, "hidden")
    BY DEF DeriveStock
  <2> QED
    BY <1>1, <1>2, <1>3, <1>4, <2>1
<1>6. \A l \in Nat : l # None
  BY DEF None
<1> QED
  BY <1>5, <1>6 DEF FloorOf

\* The inventory of a type is of a room at least, and has what was seen of it.
StockOf(x) == Inventory({[at |-> 0, rooms |-> x.before], [at |-> 1, rooms |-> x.rooms]}, 1)
SeenIn(x) == {r \in x.rooms : r.scope = "room_type"}
\* The inventory of a type is of a room at least, and has what was seen of it.
LEMMA InventoryIs ==
    ASSUME NEW x, IsStock(x)
    PROVE  /\ IsFiniteSet(DOMAIN StockOf(x))
           /\ \A t \in DOMAIN StockOf(x) : StockOf(x)[t] \in Nat \ {0}
           /\ \A r \in SeenIn(x) : r.type \in DOMAIN StockOf(x) => FloorOf(r) <= StockOf(x)[r.type]
<1> DEFINE scans == {[at |-> 0, rooms |-> x.before], [at |-> 1, rooms |-> x.rooms]}
           all == UNION {s.rooms : s \in InWindow(scans, 1)}
           known(t) == {r \in {q \in all : q.type = t /\ q.scope = "room_type"} : TRUE}
           floor(t) == GreatestOf({FloorOf(r) : r \in {q \in all : q.type = t /\ q.scope = "room_type"}})
           types == {t \in {r.type : r \in all} : floor(t) > 0}
<1>1. StockOf(x) = [t \in types |-> floor(t)]
  BY Zenon DEF StockOf, Inventory
<1>2. x.rooms \subseteq all /\ all \subseteq x.rooms \cup x.before
  <2>1. [at |-> 1, rooms |-> x.rooms] \in InWindow(scans, 1)
    <3>1. 1 >= 1 - Window
      BY OccupancyBounds
    <3> QED
      BY <3>1 DEF InWindow
  <2>2. InWindow(scans, 1) \subseteq scans
    BY DEF InWindow
  <2> QED
    BY <2>1, <2>2
<1> HIDE DEF all
<1>3. IsFiniteSet(all)
  BY <1>2, FS_Subset DEF IsStock
<1>4. ASSUME NEW t
      PROVE  /\ floor(t) \in Nat \cup {None}
             /\ \A r \in all : r.type = t /\ r.scope = "room_type" => FloorOf(r) <= floor(t)
  <2> DEFINE D == {q \in all : q.type = t /\ q.scope = "room_type"}
             f == [r \in D |-> FloorOf(r)]
  <2>1. IsFiniteSet(D)
    BY <1>3, FS_Subset
  <2>2. \A r \in D : f[r] \in Nat \cup {None}
    <3> TAKE r \in D
    <3>1. IsRoom(r) /\ r.scope = "room_type"
      BY <1>2 DEF IsStock
    <3>2. r.confidence \in {"exact", "capped"} \/ r.confidence \notin {"exact", "capped"}
      OBVIOUS
    <3>3. FloorOf(r) \in Nat \cup {None}
      BY <3>1, <3>2, RoomIs
    <3> QED
      BY <3>3
  <2>3. DOMAIN f = D /\ floor(t) = GreatestOf({f[r] : r \in D})
    OBVIOUS
  <2>4. \A r \in all : r.type = t /\ r.scope = "room_type" => r \in D /\ FloorOf(r) = f[r]
    OBVIOUS
  <2> HIDE DEF D, f, floor
  <2>5. GreatestOf({f[r] : r \in D}) \in Nat \cup {None} /\ \A r \in D : f[r] <= GreatestOf({f[q] : q \in D})
    BY <2>1, <2>2, <2>3, GreatestIs
  <2> QED
    BY <2>3, <2>4, <2>5
<1>5. IsFiniteSet({r.type : r \in all})
  <2> DEFINE f == [r \in all |-> r.type]
  <2>1. DOMAIN f = all /\ {r.type : r \in all} = {f[r] : r \in all}
    OBVIOUS
  <2> HIDE DEF f
  <2> QED
    BY <1>3, <2>1, FiniteImage
<1>6. DOMAIN StockOf(x) = types /\ \A t \in types : StockOf(x)[t] = floor(t) /\ floor(t) > 0
  BY <1>1
<1>7. IsFiniteSet(types)
  BY <1>5, FS_Subset
<1>8. \A t \in types : StockOf(x)[t] \in Nat \ {0}
  <2> TAKE t \in types
  <2>1. StockOf(x)[t] = floor(t) /\ floor(t) > 0 /\ floor(t) \in Nat \cup {None}
    BY <1>4, <1>6
  <2> HIDE DEF floor, types
  <2> QED
    BY <2>1 DEF None
<1>9. ASSUME NEW r \in SeenIn(x), r.type \in types PROVE FloorOf(r) <= StockOf(x)[r.type]
  <2>1. r \in all /\ r.scope = "room_type"
    BY <1>2 DEF SeenIn
  <2> HIDE DEF floor, types
  <2> QED
    BY <1>4, <1>6, <1>9, <2>1
<1> QED
  BY <1>6, <1>7, <1>8, <1>9

\* What one room that was seen says of the rooms left.
LEMMA AgreesWith ==
    ASSUME NEW left, NEW k, NEW r
    PROVE  /\ r.confidence = "sold_out" => (Agrees(left, k, {r}) <=> left = 0)
           /\ r.confidence = "exact" => (Agrees(left, k, {r}) <=> left = r.left)
           /\ r.confidence = "capped" => (Agrees(left, k, {r}) <=> left >= FloorOf(r))
           /\ r.confidence = "hidden" => (Agrees(left, k, {r}) <=> left >= 1)
<1>1. CASE r.confidence = "sold_out"
  BY <1>1 DEF Agrees
<1>2. CASE r.confidence = "exact"
  BY <1>2 DEF Agrees
<1>3. CASE r.confidence = "capped"
  BY <1>3 DEF Agrees
<1>4. CASE r.confidence = "hidden"
  BY <1>4 DEF Agrees
<1> QED
  BY <1>1, <1>2, <1>3, <1>4

\* The two bounds of a type's rooms are those of the numbers that agree with it.
BoundsHold(k, S) ==
    \E a, b \in Nat : /\ a <= b /\ b <= k /\ Bounds(k, S)[1] = a /\ Bounds(k, S)[2] = b
                      /\ \A left \in 0..k : (Agrees(left, k, S) /\ (S = {} => left = 0)) <=> (a <= left /\ left <= b)

\* What agrees with what was seen of a type lies between its bounds.
LEMMA BoundsAre ==
    ASSUME NEW k \in Nat \ {0}, NEW S, S = {} \/ \E r : S = {r},
           \A r \in S : IsRoom(r) /\ r.scope = "room_type" /\ FloorOf(r) <= k
    PROVE  BoundsHold(k, S)
<1> USE DEF BoundsHold
<1>1. CASE S = {}
  <2>1. Bounds(k, S)[1] = 0 /\ Bounds(k, S)[2] = 0
    BY <1>1 DEF Bounds
  <2>2. \A left \in 0..k : (Agrees(left, k, S) /\ (S = {} => left = 0)) <=> (0 <= left /\ left <= 0)
    BY <1>1 DEF Agrees
  <2> QED
    BY <2>1, <2>2
<1>2. CASE S # {}
  <2>1. PICK r : S = {r}
    BY <1>2
  <2>2. IsRoom(r) /\ r.scope = "room_type" /\ FloorOf(r) <= k
    BY <2>1
  <2>3. (CHOOSE y \in S : TRUE) = r
    BY <2>1
  <2>4. /\ r.confidence \in {"sold_out", "exact", "capped", "hidden"}
        /\ r.confidence \in {"exact", "capped"} => r.left \in Nat \ {0} /\ FloorOf(r) = r.left
    BY <2>2, RoomIs
  <2>5. Bounds(k, S) =
         IF r.confidence = "sold_out" THEN <<0, 0, k>>
         ELSE IF r.confidence = "exact" /\ r.left # None
              THEN <<LeastOf({r.left, k}), LeastOf({r.left, k}), k>>
         ELSE IF r.confidence = "capped" /\ FloorOf(r) # None
              THEN <<LeastOf({FloorOf(r), k}), k, 0>>
         ELSE <<1, k, 0>>
    BY <1>2, <2>3 DEF Bounds, HiddenLeft
  <2>6. \A left : /\ r.confidence = "sold_out" => (Agrees(left, k, S) <=> left = 0)
                  /\ r.confidence = "exact" => (Agrees(left, k, S) <=> left = r.left)
                  /\ r.confidence = "capped" => (Agrees(left, k, S) <=> left >= FloorOf(r))
                  /\ r.confidence = "hidden" => (Agrees(left, k, S) <=> left >= 1)
    BY <2>1, AgreesWith
  <2>7. CASE r.confidence = "sold_out"
    <3>1. Bounds(k, S)[1] = 0 /\ Bounds(k, S)[2] = 0
      BY <2>5, <2>7
    <3>2. \A left \in 0..k : Agrees(left, k, S) <=> (0 <= left /\ left <= 0)
      BY <2>6, <2>7
    <3> QED
      BY <1>2, <3>1, <3>2
  <2>8. ASSUME r.confidence \in {"exact", "capped"}
        PROVE  \E a \in Nat : a = r.left /\ a = FloorOf(r) /\ a # None /\ a <= k /\ LeastOf({a, k}) = a
    <3>1. PICK a \in Nat : a = r.left /\ a = FloorOf(r) /\ a # None /\ a <= k
      BY <2>2, <2>4, <2>8 DEF None
    <3>2. {a, k} \in SUBSET Nat /\ \A y \in {a, k} : a <= y /\ y <= k
      BY <3>1
    <3>3. LeastOf({a, k}) = a
      BY <3>2, ExtremesAre
    <3> QED
      BY <3>1, <3>3
  <2>9. CASE r.confidence = "exact"
    <3>1. PICK a \in Nat : a = r.left /\ a # None /\ a <= k /\ LeastOf({a, k}) = a
      BY <2>8, <2>9
    <3>2. Bounds(k, S)[1] = a /\ Bounds(k, S)[2] = a
      BY <2>5, <2>9, <3>1
    <3>3. \A left \in 0..k : Agrees(left, k, S) <=> (a <= left /\ left <= a)
      BY <2>6, <2>9, <3>1
    <3> QED
      BY <1>2, <3>1, <3>2, <3>3
  <2>10. CASE r.confidence = "capped"
    <3>1. PICK a \in Nat : a = FloorOf(r) /\ a # None /\ a <= k /\ LeastOf({a, k}) = a
      BY <2>8, <2>10
    <3>2. Bounds(k, S)[1] = a /\ Bounds(k, S)[2] = k
      BY <2>5, <2>10, <3>1
    <3>3. \A left \in 0..k : Agrees(left, k, S) <=> (a <= left /\ left <= k)
      BY <2>6, <2>10, <3>1
    <3> QED
      BY <1>2, <3>1, <3>2, <3>3
  <2>11. CASE r.confidence = "hidden"
    <3>1. Bounds(k, S)[1] = 1 /\ Bounds(k, S)[2] = k
      BY <2>5, <2>11
    <3>2. \A left \in 0..k : Agrees(left, k, S) <=> (1 <= left /\ left <= k)
      BY <2>6, <2>11
    <3> QED
      BY <1>2, <3>1, <3>2
  <2> QED
    BY <2>4, <2>7, <2>9, <2>10, <2>11
<1> QED
  BY <1>1, <1>2

\* The bounds of all types.
LowOf(x) == [t \in DOMAIN StockOf(x) |-> Bounds(StockOf(x)[t], {r \in SeenIn(x) : r.type = t})[1]]
HighOf(x) == [t \in DOMAIN StockOf(x) |-> Bounds(StockOf(x)[t], {r \in SeenIn(x) : r.type = t})[2]]

\* The stocks that agree with a page are those between the bounds of each type.
LEMMA PossibleAre ==
    ASSUME NEW x, IsStock(x)
    PROVE  /\ LowOf(x) \in [DOMAIN StockOf(x) -> Nat] /\ HighOf(x) \in [DOMAIN StockOf(x) -> Nat]
           /\ \A t \in DOMAIN StockOf(x) : LowOf(x)[t] <= HighOf(x)[t]
           /\ PossibleStocks(SeenIn(x), StockOf(x)) =
                {f \in [DOMAIN StockOf(x) -> Nat] :
                    \A t \in DOMAIN StockOf(x) : LowOf(x)[t] <= f[t] /\ f[t] <= HighOf(x)[t]}
<1>1. PICK inv : inv = StockOf(x)
  OBVIOUS
<1>2. PICK seen : seen = SeenIn(x)
  OBVIOUS
<1> DEFINE T == DOMAIN inv
           L == LowOf(x)  H == HighOf(x)
           of(t) == {r \in seen : r.type = t}
           M == GreatestOf({inv[t] : t \in T})
<1>3. /\ IsFiniteSet(T) /\ \A t \in T : inv[t] \in Nat \ {0}
      /\ \A r \in seen : r.type \in T => FloorOf(r) <= inv[r.type]
  BY <1>1, <1>2, InventoryIs
<1>4. ASSUME NEW t \in T
      PROVE  /\ of(t) = {} \/ \E r : of(t) = {r}
             /\ \A r \in of(t) : IsRoom(r) /\ r.scope = "room_type" /\ FloorOf(r) <= inv[t]
  <2>1. \A r, s \in of(t) : r = s
    BY <1>2 DEF SeenIn, IsStock
  <2>2. \A r \in of(t) : IsRoom(r) /\ r.scope = "room_type" /\ FloorOf(r) <= inv[t]
    BY <1>2, <1>3 DEF SeenIn, IsStock
  <2> QED
    BY <2>1, <2>2
<1> HIDE DEF of
<1>5. \A t \in T : /\ L[t] = Bounds(inv[t], of(t))[1] /\ H[t] = Bounds(inv[t], of(t))[2]
  BY <1>1, <1>2 DEF LowOf, HighOf, of
<1>6. DOMAIN L = T /\ DOMAIN H = T
  BY <1>1 DEF LowOf, HighOf
<1>7. ASSUME NEW t \in T
      PROVE  /\ L[t] \in Nat /\ H[t] \in Nat /\ L[t] <= H[t] /\ H[t] <= inv[t]
             /\ \A left \in 0..inv[t] : (Agrees(left, inv[t], of(t)) /\ (of(t) = {} => left = 0))
                                          <=> (L[t] <= left /\ left <= H[t])
  <2>1. PICK k \in Nat \ {0} : k = inv[t]
    BY <1>3
  <2>2. PICK S : S = of(t)
    OBVIOUS
  <2>3. /\ S = {} \/ \E r : S = {r}
        /\ \A r \in S : IsRoom(r) /\ r.scope = "room_type" /\ FloorOf(r) <= k
    BY <1>4, <2>1, <2>2
  <2>4. PICK a, b \in Nat :
              /\ a <= b /\ b <= k /\ Bounds(k, S)[1] = a /\ Bounds(k, S)[2] = b
              /\ \A left \in 0..k : (Agrees(left, k, S) /\ (S = {} => left = 0)) <=> (a <= left /\ left <= b)
    <3>1. BoundsHold(k, S)
      BY <2>3, BoundsAre
    <3> QED
      BY <3>1, Zenon DEF BoundsHold
  <2>5. L[t] = a /\ H[t] = b
    BY <1>5, <2>1, <2>2, <2>4
  <2> HIDE DEF L, H, T, M
  <2>6. L[t] \in Nat /\ H[t] \in Nat /\ L[t] <= H[t] /\ H[t] <= inv[t]
    BY <2>1, <2>4, <2>5
  <2>7. \A left \in 0..inv[t] : (Agrees(left, inv[t], of(t)) /\ (of(t) = {} => left = 0))
                                   <=> (L[t] <= left /\ left <= H[t])
    BY <2>1, <2>2, <2>4, <2>5, Zenon
  <2> QED
    BY <2>6, <2>7
<1>8. L \in [T -> Nat] /\ H \in [T -> Nat]
  <2>1. L = [t \in T |-> L[t]] /\ H = [t \in T |-> H[t]]
    BY <1>1 DEF LowOf, HighOf
  <2> QED
    BY <2>1, <1>7
<1>9. M \in Nat \cup {None} /\ \A t \in T : inv[t] <= M
  <2>1. \A t \in T : inv[t] \in Nat \cup {None}
    BY <1>3
  <2> QED
    BY <2>1, <1>3, GreatestIs
<1>10. PossibleStocks(seen, inv) =
         {f \in [T -> 0..M] : \A t \in T : f[t] <= inv[t] /\ Agrees(f[t], inv[t], of(t)) /\ (of(t) = {} => f[t] = 0)}
  BY DEF PossibleStocks, of
<1> HIDE DEF L, H, M, T
<1>11. ASSUME NEW f
       PROVE  (f \in [T -> 0..M] /\ \A t \in T : f[t] <= inv[t] /\ Agrees(f[t], inv[t], of(t)) /\ (of(t) = {} => f[t] = 0))
                <=> (f \in [T -> Nat] /\ \A t \in T : L[t] <= f[t] /\ f[t] <= H[t])
  <2>1. ASSUME f \in [T -> 0..M], \A t \in T : f[t] <= inv[t] /\ Agrees(f[t], inv[t], of(t)) /\ (of(t) = {} => f[t] = 0)
        PROVE  f \in [T -> Nat] /\ \A t \in T : L[t] <= f[t] /\ f[t] <= H[t]
    <3>1. \A t \in T : f[t] \in Nat
      BY <1>9, <2>1
    <3>2. \A t \in T : f[t] \in 0..inv[t]
      BY <1>3, <2>1, <3>1
    <3>3. \A t \in T : L[t] <= f[t] /\ f[t] <= H[t]
      BY <1>7, <2>1, <3>2
    <3> QED
      BY <2>1, <3>1, <3>3
  <2>2. ASSUME f \in [T -> Nat], \A t \in T : L[t] <= f[t] /\ f[t] <= H[t]
        PROVE  f \in [T -> 0..M] /\ \A t \in T : f[t] <= inv[t] /\ Agrees(f[t], inv[t], of(t)) /\ (of(t) = {} => f[t] = 0)
    <3>1. ASSUME NEW t \in T PROVE f[t] \in 0..inv[t] /\ f[t] \in 0..M
      <4>1. f[t] \in Nat /\ f[t] <= H[t] /\ H[t] \in Nat /\ H[t] <= inv[t] /\ inv[t] \in Nat /\ inv[t] <= M
        BY <1>3, <1>7, <1>9, <2>2
      <4>2. M \in Int
        BY <1>9 DEF None
      <4> QED
        BY <4>1, <4>2
    <3>2. \A t \in T : f[t] <= inv[t] /\ Agrees(f[t], inv[t], of(t)) /\ (of(t) = {} => f[t] = 0)
      BY <1>3, <1>7, <2>2, <3>1
    <3> QED
      BY <2>2, <3>1, <3>2
  <2> QED
    BY <2>1, <2>2
<1>12. PossibleStocks(seen, inv) = {f \in [T -> Nat] : \A t \in T : L[t] <= f[t] /\ f[t] <= H[t]}
  BY <1>10, <1>11
<1>13. \A t \in T : L[t] <= H[t]
  BY <1>7
<1> QED
  BY <1>1, <1>2, <1>8, <1>12, <1>13 DEF L, H, T

\* The sums of the bounds are the least and the greatest sum of such stocks.
LEMMA EstimateHolds ==
    ASSUME NEW x, IsStock(x)
    PROVE  EstimateIsTight(x.rooms, x.before)
<1>1. PICK inv : inv = StockOf(x)
  OBVIOUS
<1>2. PICK seen : seen = SeenIn(x)
  OBVIOUS
<1> DEFINE T == DOMAIN inv
           e == Estimate("available", seen, inv, None)
           L == LowOf(x)  H == HighOf(x)
           all == PossibleStocks(seen, inv)
           sums == {SumBy(DOMAIN f, LAMBDA t : f[t]) : f \in all}
<1> SUFFICES ASSUME e # NoEstimate PROVE e.low = LeastOf(sums) /\ e.high = GreatestOf(sums)
  BY <1>1, <1>2 DEF EstimateIsTight, StockOf, SeenIn
<1>3. IsFiniteSet(T)
  BY <1>1, InventoryIs
<1>4. /\ L \in [T -> Nat] /\ H \in [T -> Nat] /\ \A t \in T : L[t] <= H[t]
      /\ all = {f \in [T -> Nat] : \A t \in T : L[t] <= f[t] /\ f[t] <= H[t]}
  BY <1>1, <1>2, PossibleAre
<1>5. e.low = SumOf(L) /\ e.high = SumOf(H)
  <2> DEFINE total == SumBy(T, LAMBDA t : inv[t])
             sum(k) == SumBy(T, LAMBDA t : Bounds(inv[t], {r \in seen : r.type = t})[k])
             found == [inventory |-> GreatestOf({total, None}), low |-> sum(1), high |-> sum(2),
                       coverage |-> HalfEven(sum(3) * 10000, total)]
  <2>1. e = NoEstimate \/ e = found
    BY DEF Estimate
  <2>2. SumOf(L) = sum(1) /\ SumOf(H) = sum(2)
    BY <1>1, <1>2 DEF SumBy, LowOf, HighOf
  <2> HIDE DEF sum, total, e
  <2> QED
    BY <2>1, <2>2
<1> HIDE DEF e, L, H, T
<1>6. ASSUME NEW f \in [T -> Nat]
      PROVE  /\ [t \in DOMAIN f |-> f[t]] = f
             /\ SumOf(f) = Sums(f)[T] /\ SumOf(f) \in Nat
  <2>1. DOMAIN f = T /\ f = [t \in T |-> f[t]]
    OBVIOUS
  <2>2. f \in [T -> Int] /\ \A t \in T : f[t] >= 0
    OBVIOUS
  <2>3. SumOf(f) = Sums(f)[T] /\ SumOf(f) \in Int
    BY <1>3, <2>2, SumSplit
  <2>4. Sums(f)[T] >= 0
    BY <1>3, <2>2, SumsZero
  <2> QED
    BY <2>1, <2>3, <2>4
<1>7. ASSUME NEW f \in [T -> Nat], NEW h \in [T -> Nat], \A t \in T : f[t] <= h[t]
      PROVE  SumOf(f) <= SumOf(h)
  <2>1. f \in [T -> Int] /\ h \in [T -> Int]
    OBVIOUS
  <2>2. Sums(f)[T] <= Sums(h)[T]
    BY <1>3, <1>7, <2>1, SumsGrow
  <2> QED
    BY <1>6, <2>2
<1>8. sums = {SumOf(f) : f \in all}
  <2>1. sums = {SumOf([t \in DOMAIN f |-> f[t]]) : f \in all}
    BY DEF SumBy
  <2>2. \A f \in all : [t \in DOMAIN f |-> f[t]] = f
    <3> HIDE DEF all
    <3>1. \A f \in all : f \in [T -> Nat]
      BY <1>4
    <3> QED
      BY <3>1, <1>6
  <2> HIDE DEF sums, all
  <2> QED
    BY <2>1, <2>2, Zenon
<1>9. L \in all /\ H \in all
  BY <1>4
<1>10. SumOf(L) \in sums /\ SumOf(H) \in sums
  BY <1>8, <1>9
<1>11. \A v \in sums : v \in Nat /\ SumOf(L) <= v /\ v <= SumOf(H)
  <2>1. \A f \in all : SumOf(f) \in Nat /\ SumOf(L) <= SumOf(f) /\ SumOf(f) <= SumOf(H)
    BY <1>4, <1>6, <1>7
  <2> QED
    BY <1>8, <2>1
<1> HIDE DEF sums, all
<1>12. LeastOf(sums) = SumOf(L) /\ GreatestOf(sums) = SumOf(H)
  BY <1>10, <1>11, ExtremesAre
<1> QED
  BY <1>5, <1>12

\* Of any rooms that two scans may show, the bounds of the rooms left are the
\* fewest and the most that agree with the page and the inventory
\* (market/occupancy.py estimate).
THEOREM EstimatesAreTrue == FiguresSpec => []EstimatesAreTight
<1>1. FiguresInit => EstimatesAreTight
  BY AnalysisInputs, EstimateHolds DEF FiguresInit, EstimatesAreTight
<1>2. EstimatesAreTight /\ [FiguresNext]_<<kind, input>> => EstimatesAreTight'
  BY DEF FiguresNext, EstimatesAreTight
<1> QED
  BY <1>1, <1>2, PTL DEF FiguresSpec

-----------------------------------------------------------------------------
(* Prices.                                                                   *)

\* There is an order of finitely many figures.
LEMMA OrderExists ==
    ASSUME NEW n \in Nat, NEW f \in [1..n -> Int]
    PROVE  \E p \in Surjection(1..n, 1..n) : \A i, j \in 1..n : i <= j => f[p[i]] <= f[p[j]]
<1> DEFINE D == 1..n
           InOrder(q, k, S) == q \in Surjection(1..k, S) /\ \A i, j \in 1..k : i <= j => f[q[i]] <= f[q[j]]
           G == {S \in SUBSET D : \E q : InOrder(q, Cardinality(S), S)}
<1>1. IsFiniteSet(D) /\ Cardinality(D) = n
  BY FS_Interval
<1>2. ASSUME NEW S \in SUBSET D, \A x \in S : S \ {x} \in G
      PROVE  \E q : InOrder(q, Cardinality(S), S)
  <2>1. IsFiniteSet(S) /\ Cardinality(S) \in Nat
    BY <1>1, FS_Subset, FS_CardinalityType
  <2>2. CASE S = {}
    <3>1. Cardinality(S) = 0
      BY <2>2, FS_EmptySet
    <3>2. InOrder([i \in 1..0 |-> i], 0, {})
      BY DEF Surjection
    <3> QED
      BY <2>2, <3>1, <3>2
  <2>3. CASE S # {}
    <3> DEFINE h == [x \in S |-> f[x]]
    <3>1. h \in [S -> Int]
      OBVIOUS
    <3>2. PICK b \in S : \A x \in S : h[x] <= h[b]
      <4> HIDE DEF h
      <4> QED
        BY <2>1, <2>3, <3>1, FiniteExtremes
    <3>3. \A x \in S : f[x] <= f[b]
      BY <3>2
    <3>4. PICK k \in Nat : k = Cardinality(S)
      BY <2>1
    <3>5. Cardinality(S \ {b}) = k - 1 /\ Cardinality(S \ {b}) \in Nat
      BY <2>1, <3>4, FS_RemoveElement, FS_CardinalityType
    <3>6. PICK q : InOrder(q, k - 1, S \ {b})
      BY <1>2, <3>2, <3>5
    <3> DEFINE r == [i \in 1..k |-> IF i = k THEN b ELSE q[i]]
    <3>7. /\ k - 1 \in Nat
          /\ q \in [1..(k - 1) -> S \ {b}] /\ \A x \in S \ {b} : \E i \in 1..(k - 1) : q[i] = x
          /\ \A i, j \in 1..(k - 1) : i <= j => f[q[i]] <= f[q[j]]
      BY <3>5, <3>6 DEF Surjection
    <3>8. k \in 1..k /\ \A i \in 1..k : i = k \/ i \in 1..(k - 1)
      BY <3>7
    <3>9. \A i \in 1..(k - 1) : i \in 1..k /\ i # k /\ r[i] = q[i]
      BY <3>7
    <3>10. r[k] = b
      BY <3>8
    <3>11. r \in [1..k -> S]
      BY <3>7, <3>8
    <3> HIDE DEF r
    <3>12. \A x \in S : \E i \in 1..k : r[i] = x
      BY <3>7, <3>8, <3>9, <3>10
    <3>13. ASSUME NEW i \in 1..k, NEW j \in 1..k, i <= j PROVE f[r[i]] <= f[r[j]]
      <4>1. CASE j = k
        BY <3>3, <3>10, <3>11, <4>1
      <4>2. CASE j # k
        <5>1. i \in 1..(k - 1) /\ j \in 1..(k - 1)
          BY <3>8, <3>13, <4>2
        <5> QED
          BY <3>7, <3>9, <3>13, <5>1
      <4> QED
        BY <4>1, <4>2
    <3>14. InOrder(r, k, S)
      BY <3>11, <3>12, <3>13 DEF Surjection
    <3> QED
      BY <3>4, <3>14
  <2> QED
    BY <2>2, <2>3
<1>3. \A S \in SUBSET D : (\A x \in S : S \ {x} \in G) => S \in G
  BY <1>2
<1>0. D \in SUBSET D
  OBVIOUS
<1> HIDE DEF G, D
<1>4. D \in G
  BY <1>0, <1>1, <1>3, FiniteOneByOne
<1>5. PICK q : InOrder(q, Cardinality(D), D)
  BY <1>4 DEF G
<1>6. InOrder(q, n, D)
  BY <1>1, <1>5
<1> QED
  BY <1>6 DEF D

\* The values in order are numbers that grow.
Growing(xs, n) ==
    /\ xs \in [1..n -> Nat] /\ Len(xs) = n
    /\ \A i, j \in 1..n : i <= j => xs[i] <= xs[j]

\* Sorted prices are the prices, in growing order.
LEMMA SortedIs ==
    ASSUME NEW values \in Seq(Nat)
    PROVE  Len(values) \in Nat /\ Growing(Sorted(values), Len(values))
<1> DEFINE n == Len(values)
           InOrder(p) == \A i, j \in 1..n : i <= j => values[p[i]] <= values[p[j]]
           order == CHOOSE p \in Surjection(1..n, 1..n) : InOrder(p)
           xs == [i \in 1..n |-> values[order[i]]]
<1>1. n \in Nat /\ DOMAIN values = 1..n /\ values \in [1..n -> Nat]
  OBVIOUS
<1>2. Sorted(values) = xs
  BY <1>1 DEF Sorted
<1> HIDE DEF n
<1>3. \E p \in Surjection(1..n, 1..n) : InOrder(p)
  <2>1. values \in [1..n -> Int]
    BY <1>1
  <2> QED
    BY <1>1, <2>1, OrderExists
<1>4. order \in Surjection(1..n, 1..n) /\ InOrder(order)
  <2> HIDE DEF InOrder
  <2> QED
    BY <1>3
<1> HIDE DEF order
<1>5. order \in [1..n -> 1..n]
  BY <1>4 DEF Surjection
<1>6. xs \in [1..n -> Nat] /\ \A i \in 1..n : xs[i] = values[order[i]]
  BY <1>1, <1>5
<1>7. \A i, j \in 1..n : i <= j => xs[i] <= xs[j]
  BY <1>4, <1>6
<1>8. Len(xs) = n
  BY <1>1
<1> QED
  BY <1>1, <1>2, <1>6, <1>7, <1>8 DEF Growing, n

\* A whole figure is not rounded.
LEMMA HalfUpWhole ==
    ASSUME NEW n \in Nat \ {0}, NEW c \in Nat
    PROVE  HalfUp(n * c, n) = c
<1>1. PICK p, e \in Nat : p = n * c /\ e = 2 * n
  OBVIOUS
<1>2. PICK q, r \in Int : q = (2 * p + n) \div e /\ 2 * p + n = e * q + r /\ 0 <= r /\ r < e
  <2>1. 2 * p + n \in Int /\ e \in Nat \ {0}
    BY <1>1
  <2> QED
    BY <2>1, DivIs
<1>3. e * c = 2 * p
  BY <1>1
<1>4. ASSUME q >= c + 1 PROVE FALSE
  <2>1. e * (c + 1) <= e * q
    BY <1>1, <1>4, ProductGrows
  <2>2. e * (c + 1) = e * c + e /\ e * q \in Int
    BY <1>1
  <2> QED
    BY <1>1, <1>2, <1>3, <2>1, <2>2
<1>5. ASSUME q <= c - 1 PROVE FALSE
  <2>1. e * q <= e * (c - 1)
    BY <1>1, <1>5, ProductGrows
  <2>2. e * (c - 1) = e * c - e /\ e * q \in Int
    BY <1>1
  <2> QED
    BY <1>1, <1>2, <1>3, <2>1, <2>2
<1>6. q = c
  BY <1>2, <1>4, <1>5
<1>7. p >= 0
  BY <1>1
<1>8. HalfUp(p, n) = (2 * p + n) \div e
  <2>1. HalfUp(p, n) = (2 * p + n) \div (2 * n)
    BY <1>7, Zenon DEF HalfUp
  <2>2. 2 * n = e
    BY <1>1
  <2> QED
    BY <2>1, <2>2, Zenon
<1>9. HalfUp(p, n) = c
  BY <1>2, <1>6, <1>8, Zenon
<1> QED
  BY <1>1, <1>9, Zenon

\* Where a quartile lies: r quarters of the way from low to high, the values
\* at place q and the next one.
QuartileAt(xs, n, k, q, r, low, high) ==
    /\ (n - 1) * k = 4 * q + r
    /\ low = xs[q + 1] /\ low <= high
    /\ xs[1] <= low /\ high <= xs[n]
    /\ \A j \in 1..n : j > q + 1 => high <= xs[j]
    /\ high = xs[IF q + 2 <= n THEN q + 2 ELSE n]

\* The lesser of two figures.
LEMMA LesserOfTwo == ASSUME NEW a \in Int, NEW b \in Int PROVE Min({a, b}) = IF a <= b THEN a ELSE b
<1>1. CASE a <= b
  <2>1. \A x \in {a, b} : (\A y \in {a, b} : x <= y) => x = a
    BY <1>1
  <2>2. \A y \in {a, b} : a <= y
    BY <1>1
  <2> QED
    BY <1>1, <2>1, <2>2 DEF Min
<1>2. CASE ~(a <= b)
  <2>1. \A x \in {a, b} : (\A y \in {a, b} : x <= y) => x = b
    BY <1>2
  <2>2. \A y \in {a, b} : b <= y
    BY <1>2
  <2> QED
    BY <1>2, <2>1, <2>2 DEF Min
<1> QED
  BY <1>1, <1>2

\* A quartile lies part of the way between two neighbours.
LEMMA QuartileIs ==
    ASSUME NEW n \in Nat \ {0}, NEW xs, Growing(xs, n), NEW k \in {1, 2, 3}
    PROVE  \E q \in 0..(n - 1), r \in 0..3, low, high \in Nat :
              QuartileAt(xs, n, k, q, r, low, high) /\ Percentile(xs, k) = HalfUp(4 * low + (high - low) * r, 4)
<1>1. PICK pos \in Nat : pos = (n - 1) * k /\ pos <= 3 * (n - 1)
  OBVIOUS
<1>2. PICK q, r \in Int : q = pos \div 4 /\ r = pos % 4 /\ pos = 4 * q + r /\ 0 <= r /\ r < 4
  BY DivIs
<1>3. q \in 0..(n - 1) /\ r \in 0..3 /\ q + 1 \in 1..n
  BY <1>1, <1>2
<1>4. xs \in [1..n -> Nat] /\ Len(xs) = n /\ \A i, j \in 1..n : i <= j => xs[i] <= xs[j]
  BY DEF Growing
<1>5. PICK m \in 1..n : m = IF q + 2 <= n THEN q + 2 ELSE n
  BY <1>3
<1>6. m = Min({q + 2, n}) /\ q + 1 <= m
  BY <1>3, <1>5, LesserOfTwo
<1>7. PICK low, high \in Nat : low = xs[q + 1] /\ high = xs[m]
  BY <1>3, <1>4
<1>8. low <= high /\ xs[1] <= low /\ high <= xs[n]
  <2>1. 1 \in 1..n /\ n \in 1..n /\ 1 <= q + 1 /\ m <= n
    BY <1>3
  <2> QED
    BY <1>3, <1>4, <1>6, <1>7, <2>1
<1>9. ASSUME NEW j \in 1..n, j > q + 1 PROVE high <= xs[j]
  <2>1. m <= j
    BY <1>3, <1>5, <1>9
  <2> QED
    BY <1>4, <1>7, <2>1
<1>10. Percentile(xs, k) = HalfUp(4 * low + (high - low) * r, 4)
  BY <1>1, <1>2, <1>4, <1>6, <1>7 DEF Percentile
<1>11. QuartileAt(xs, n, k, q, r, low, high)
  BY <1>1, <1>2, <1>5, <1>7, <1>8, <1>9 DEF QuartileAt
<1> QED
  BY <1>3, <1>10, <1>11

\* Between low and high.
LEMMA PartWay ==
    ASSUME NEW low \in Nat, NEW high \in Nat, low <= high, NEW r \in 0..3
    PROVE  /\ 4 * low + (high - low) * r \in Nat
           /\ 4 * low <= 4 * low + (high - low) * r /\ 4 * low + (high - low) * r <= 4 * high
           /\ \A s \in 0..3 : r <= s => 4 * low + (high - low) * r <= 4 * low + (high - low) * s
<1>1. PICK d \in Nat : d = high - low
  OBVIOUS
<1>2. r = 0 \/ r = 1 \/ r = 2 \/ r = 3
  OBVIOUS
<1>3. \A s \in 0..3 : s = 0 \/ s = 1 \/ s = 2 \/ s = 3
  OBVIOUS
<1>4. d * 0 = 0 /\ d * 1 = d /\ d * 2 = 2 * d /\ d * 3 = 3 * d
  OBVIOUS
<1>5. d * r \in 0..(3 * d) /\ \A s \in 0..3 : r <= s => d * r <= d * s
  BY <1>2, <1>3, <1>4
<1>6. 3 * d <= 4 * d /\ high = low + d
  BY <1>1
<1>7. 4 * high = 4 * low + 4 * d
  BY <1>6
<1>8. \A s \in 0..3 : (high - low) * s = d * s /\ d * s \in Int
  BY <1>1
<1> QED
  BY <1>5, <1>6, <1>7, <1>8

\* The quartiles come in order, between the least and the greatest value.
LEMMA QuartilesGrow ==
    ASSUME NEW n \in Nat \ {0}, NEW xs, Growing(xs, n), NEW k \in {1, 2, 3}
    PROVE  /\ xs[1] <= Percentile(xs, k) /\ Percentile(xs, k) <= xs[n] /\ Percentile(xs, k) \in Int
           /\ \A l \in {1, 2, 3} : k <= l => Percentile(xs, k) <= Percentile(xs, l)
<1>1. PICK q \in 0..(n - 1), r \in 0..3, low, high \in Nat :
        QuartileAt(xs, n, k, q, r, low, high) /\ Percentile(xs, k) = HalfUp(4 * low + (high - low) * r, 4)
  BY QuartileIs
<1>2. xs[1] \in Nat /\ xs[n] \in Nat
  <2>1. 1 \in 1..n /\ n \in 1..n
    OBVIOUS
  <2> QED
    BY <2>1 DEF Growing
<1>3. PICK v \in Nat : v = 4 * low + (high - low) * r /\ 4 * low <= v /\ v <= 4 * high
  BY <1>1, PartWay DEF QuartileAt
<1>0. PICK a, b \in Nat : a = xs[1] /\ b = xs[n]
  BY <1>2
<1>4. 4 * a <= v /\ v <= 4 * b /\ low <= high
  <2>1. a <= low /\ low <= high /\ high <= b
    BY <1>0, <1>1 DEF QuartileAt
  <2> QED
    BY <1>3, <2>1
<1>5. HalfUp(4 * a, 4) = a /\ HalfUp(4 * b, 4) = b
  <2>1. 4 \in Nat \ {0}
    OBVIOUS
  <2> QED
    BY <2>1, HalfUpWhole, Zenon
<1>6. a <= HalfUp(v, 4) /\ HalfUp(v, 4) <= b /\ HalfUp(v, 4) \in Int
  <2>1. PICK a4, b4 \in Int : a4 = 4 * a /\ b4 = 4 * b
    OBVIOUS
  <2>2. 4 \in Nat \ {0} /\ v \in Int /\ a4 <= v /\ v <= b4
    BY <1>4, <2>1
  <2>3. HalfUp(a4, 4) <= HalfUp(v, 4) /\ HalfUp(v, 4) <= HalfUp(b4, 4) /\ HalfUp(v, 4) \in Int
    BY <2>2, HalfUpGrows
  <2> QED
    BY <1>5, <2>1, <2>3
<1>7. ASSUME NEW l \in {1, 2, 3}, k <= l PROVE Percentile(xs, k) <= Percentile(xs, l)
  <2>1. PICK q2 \in 0..(n - 1), r2 \in 0..3, low2, high2 \in Nat :
          QuartileAt(xs, n, l, q2, r2, low2, high2) /\ Percentile(xs, l) = HalfUp(4 * low2 + (high2 - low2) * r2, 4)
    BY QuartileIs
  <2>2. PICK v2 \in Nat : v2 = 4 * low2 + (high2 - low2) * r2 /\ 4 * low2 <= v2 /\ v2 <= 4 * high2
    BY <2>1, PartWay DEF QuartileAt
  <2>3. 4 * q + r <= 4 * q2 + r2
    <3>1. (n - 1) * k <= (n - 1) * l
      BY <1>7
    <3> QED
      BY <1>1, <2>1, <3>1 DEF QuartileAt
  <2>4. CASE q = q2
    <3>1. low = low2 /\ high = high2 /\ r <= r2
      BY <1>1, <2>1, <2>3, <2>4 DEF QuartileAt
    <3>2. v <= v2
      BY <1>3, <1>4, <2>2, <3>1, PartWay
    <3> QED
      BY <1>1, <1>3, <2>1, <2>2, <3>2, HalfUpGrows
  <2>5. CASE q # q2
    <3>1. q2 + 1 > q + 1 /\ q2 + 1 \in 1..n
      BY <2>3, <2>5
    <3>2. high <= low2
      BY <1>1, <2>1, <3>1 DEF QuartileAt
    <3>3. v <= v2
      BY <1>3, <2>2, <3>2
    <3> QED
      BY <1>1, <1>3, <2>1, <2>2, <3>3, HalfUpGrows
  <2> QED
    BY <2>4, <2>5
<1> QED
  BY <1>0, <1>1, <1>3, <1>6, <1>7

\* The sum of equal figures.
LEMMA SumsSame ==
    ASSUME NEW D, IsFiniteSet(D), NEW c \in Int, NEW g \in [D -> Int], \A x \in D : g[x] = c
    PROVE  \A S \in SUBSET D : Sums(g)[S] = Cardinality(S) * c
<1> DEFINE s == Sums(g)
           G == {S \in SUBSET D : s[S] = Cardinality(S) * c}
<1>1. Adds(s, g, D)
  BY SumsAny
<1> HIDE DEF s
<1>2. ASSUME NEW S \in SUBSET D, \A x \in S : S \ {x} \in G
      PROVE  s[S] = Cardinality(S) * c
  <2>1. CASE S = {}
    <3>1. Cardinality({}) = 0 /\ s[{}] = 0
      BY <1>1, FS_EmptySet DEF Adds
    <3> QED
      BY <2>1, <3>1
  <2>2. CASE S # {}
    <3>1. PICK x \in S : TRUE
      BY <2>2
    <3>2. s[S] = g[x] + s[S \ {x}] /\ g[x] = c
      BY <1>1, <3>1 DEF Adds
    <3>3. IsFiniteSet(S)
      BY FS_Subset
    <3>4. PICK k, l \in Nat : k = Cardinality(S) /\ l = Cardinality(S \ {x}) /\ l = k - 1
      <4>1. IsFiniteSet(S \ {x}) /\ Cardinality(S \ {x}) = Cardinality(S) - 1
        BY <3>1, <3>3, FS_RemoveElement
      <4>2. Cardinality(S) \in Nat /\ Cardinality(S \ {x}) \in Nat
        BY <3>3, <4>1, FS_CardinalityType
      <4> QED
        BY <4>1, <4>2
    <3>5. s[S \ {x}] = l * c
      BY <1>2, <3>1, <3>4
    <3>6. (k - 1) * c = k * c - c /\ k * c \in Int
      OBVIOUS
    <3> QED
      BY <3>2, <3>4, <3>5, <3>6
  <2> QED
    BY <2>1, <2>2
<1>3. \A S \in SUBSET D : (\A x \in S : S \ {x} \in G) => S \in G
  BY <1>2
<1> HIDE DEF G
<1>4. \A S \in SUBSET D : S \in G
  BY <1>3, FiniteOneByOne
<1> QED
  BY <1>4 DEF G, s

\* The bucket of a price is one of the eight.
LEMMA BucketIs == ASSUME NEW v \in Nat PROVE BucketOf(v) \in 1..8 /\ DOMAIN BucketEdges = 1..8
<1> DEFINE S == {i \in DOMAIN BucketEdges : v >= BucketEdges[i]} \cup {1}
<1>1. DOMAIN BucketEdges = 1..8
  BY DEF BucketEdges
<1>2. S \in SUBSET (1..8) /\ S # {}
  BY <1>1
<1> HIDE DEF S
<1>3. Max(S) \in S
  BY <1>2, GreatestElement
<1>4. BucketOf(v) = Max(S)
  BY DEF BucketOf, S
<1> QED
  BY <1>1, <1>2, <1>3, <1>4

\* The average lies between the least and the greatest value.
LEMMA AverageIs ==
    ASSUME NEW n \in Nat \ {0}, NEW xs, Growing(xs, n)
    PROVE  LET avg == HalfUp(SumOf([j \in 1..n |-> xs[j]]), n) IN xs[1] <= avg /\ avg <= xs[n]
<1> DEFINE D == 1..n
<1>1. IsFiniteSet(D) /\ Cardinality(D) = n /\ 1 \in D /\ n \in D /\ D \in SUBSET D
  BY FS_Interval
<1>2. xs \in [D -> Nat] /\ \A i, j \in D : i <= j => xs[i] <= xs[j]
  BY DEF Growing
<1>3. \A j \in D : j \in Int /\ 1 <= j /\ j <= n
  OBVIOUS
<1>4. [j \in 1..n |-> xs[j]] = xs
  BY <1>2
<1> HIDE DEF D
<1>5. PICK a, b \in Nat : a = xs[1] /\ b = xs[n]
  BY <1>1, <1>2
<1> DEFINE low == [j \in D |-> a]  high == [j \in D |-> b]
<1>6. xs \in [D -> Int] /\ low \in [D -> Int] /\ high \in [D -> Int]
  BY <1>2
<1>7. \A j \in D : low[j] = a /\ high[j] = b /\ a <= xs[j] /\ xs[j] <= b
  BY <1>1, <1>2, <1>3, <1>5
<1> HIDE DEF low, high
<1>8. SumOf(xs) = Sums(xs)[D] /\ SumOf(xs) \in Int
  BY <1>1, <1>6, SumSplit
<1>9. Sums(low)[D] = n * a /\ Sums(high)[D] = n * b
  <2>1. a \in Int /\ b \in Int
    OBVIOUS
  <2>2. Sums(low)[D] = Cardinality(D) * a
    <3>1. \A j \in D : low[j] = a
      BY <1>7
    <3>2. \A S \in SUBSET D : Sums(low)[S] = Cardinality(S) * a
      BY <1>1, <1>6, <2>1, <3>1, SumsSame
    <3> QED
      BY <1>1, <3>2
  <2>3. Sums(high)[D] = Cardinality(D) * b
    <3>1. \A j \in D : high[j] = b
      BY <1>7
    <3>2. \A S \in SUBSET D : Sums(high)[S] = Cardinality(S) * b
      BY <1>1, <1>6, <2>1, <3>1, SumsSame
    <3> QED
      BY <1>1, <3>2
  <2> QED
    BY <1>1, <2>2, <2>3
<1>10. Sums(low)[D] <= Sums(xs)[D] /\ Sums(xs)[D] <= Sums(high)[D]
  BY <1>1, <1>6, <1>7, SumsGrow
<1>11. PICK sum, na, nb \in Int : sum = SumOf(xs) /\ na = n * a /\ nb = n * b /\ na <= sum /\ sum <= nb
  BY <1>8, <1>9, <1>10
<1>12. HalfUp(na, n) = a /\ HalfUp(nb, n) = b
  BY <1>11, HalfUpWhole
<1>13. HalfUp(na, n) <= HalfUp(sum, n) /\ HalfUp(sum, n) <= HalfUp(nb, n)
  BY <1>11, HalfUpGrows
<1> QED
  BY <1>4, <1>5, <1>11, <1>12, <1>13

\* Every value is in one bucket.
LEMMA HistogramIs ==
    ASSUME NEW n \in Nat, NEW xs, Growing(xs, n)
    PROVE  SumOf([i \in 1..8 |-> Cardinality({j \in 1..n : BucketOf(xs[j]) = i})]) = n
<1> DEFINE D == 1..n  B == 1..8
           one == [j \in D |-> 1]
           to == [j \in D |-> BucketOf(xs[j])]
           of(i) == {j \in D : to[j] = i}
           h == [i \in B |-> Cardinality(of(i))]
<1>1. IsFiniteSet(D) /\ Cardinality(D) = n /\ D \in SUBSET D /\ IsFiniteSet(B)
  <2>1. IsFiniteSet(1..n) /\ Cardinality(1..n) = n
    BY FS_Interval
  <2>2. IsFiniteSet(1..8)
    <3>1. PICK m \in Nat : m = 8
      OBVIOUS
    <3>2. IsFiniteSet(1..m)
      BY FS_Interval
    <3> QED
      BY <3>1, <3>2
  <2> QED
    BY <2>1, <2>2
<1>2. to \in [D -> B]
  BY BucketIs DEF Growing
<1>3. \A i \in B : of(i) = {j \in 1..n : BucketOf(xs[j]) = i} /\ of(i) \in SUBSET D
  OBVIOUS
<1>4. one \in [D -> Int] /\ \A j \in D : one[j] = 1
  OBVIOUS
<1> HIDE DEF D, B, to, one
<1>5. \A S \in SUBSET D : Cardinality(S) \in Int /\ Sums(one)[S] = Cardinality(S)
  <2>1. 1 \in Int
    OBVIOUS
  <2>2. \A S \in SUBSET D : Sums(one)[S] = Cardinality(S) * 1
    BY <1>1, <1>4, <2>1, SumsSame
  <2>3. \A S \in SUBSET D : Cardinality(S) \in Int
    BY <1>1, FS_Subset, FS_CardinalityType
  <2> QED
    BY <2>2, <2>3
<1>6. h \in [B -> Int]
  BY <1>3, <1>5
<1>7. Fibred(h, one, to, D, B)
  <2>1. \A i \in B : h[i] = Sums(one)[of(i)]
    BY <1>3, <1>5
  <2> QED
    BY <2>1 DEF Fibred
<1>8. h = [i \in 1..8 |-> Cardinality({j \in 1..n : BucketOf(xs[j]) = i})]
  BY <1>3 DEF B
<1> HIDE DEF h
<1>9. Sums(one)[D] = Sums(h)[B]
  BY <1>1, <1>2, <1>4, <1>6, <1>7, SumsFibres
<1>10. SumOf(h) = Sums(h)[B]
  BY <1>1, <1>6, SumSplit
<1> QED
  BY <1>1, <1>5, <1>8, <1>9, <1>10

\* What the dashboard is told of any prices agrees with them.
LEMMA StatsHold == ASSUME NEW values \in Seq(Nat) PROVE StatsAgree(values)
<1> DEFINE n == Len(values)
           xs == Sorted(values)
           count == [i \in DOMAIN BucketEdges |-> Cardinality({j \in 1..n : BucketOf(xs[j]) = i})]
           avg == IF n = 0 THEN None ELSE HalfUp(SumOf([j \in 1..n |-> xs[j]]), n)
           part(k) == IF n = 0 THEN None ELSE Percentile(xs, k)
           least == IF n = 0 THEN None ELSE xs[1]
           most == IF n = 0 THEN None ELSE xs[n]
<1>1. n \in Nat /\ Growing(xs, n) /\ Len(xs) = n /\ (values # << >> => n # 0)
  BY SortedIs DEF Growing
<1>2. PriceStats(values) =
        [count |-> n, histogram |-> count, avg |-> avg, p25 |-> part(1), median |-> part(2), p75 |-> part(3),
         min |-> least, max |-> most]
  BY <1>1 DEF PriceStats, SumBy
<1>3. DOMAIN BucketEdges = 1..8
  BY BucketIs
<1>4. DOMAIN count = 1..8 /\ SumOf(count) = n
  BY <1>1, <1>3, HistogramIs
<1>5. SumBy(DOMAIN BucketEdges, LAMBDA i : count[i]) = SumOf(count)
  BY <1>3 DEF SumBy
<1>6. ASSUME values # << >>
      PROVE  /\ least <= part(1) /\ part(1) <= part(2) /\ part(2) <= part(3) /\ part(3) <= most
             /\ least <= avg /\ avg <= most
  <2>1. n \in Nat \ {0}
    BY <1>1, <1>6
  <2> HIDE DEF n, xs
  <2>2. \A k \in {1, 2, 3} : xs[1] <= Percentile(xs, k) /\ Percentile(xs, k) <= xs[n]
    BY <1>1, <2>1, QuartilesGrow
  <2>3. Percentile(xs, 1) <= Percentile(xs, 2) /\ Percentile(xs, 2) <= Percentile(xs, 3)
    BY <1>1, <2>1, QuartilesGrow
  <2>4. xs[1] <= HalfUp(SumOf([j \in 1..n |-> xs[j]]), n) /\ HalfUp(SumOf([j \in 1..n |-> xs[j]]), n) <= xs[n]
    BY <1>1, <2>1, AverageIs
  <2> QED
    BY <2>1, <2>2, <2>3, <2>4
<1> HIDE DEF n, xs, count, avg, part, least, most
<1>7. PICK st : st = PriceStats(values)
  OBVIOUS
<1>8. /\ st.histogram = count /\ st.avg = avg /\ st.p25 = part(1) /\ st.median = part(2) /\ st.p75 = part(3)
      /\ st.min = least /\ st.max = most
  BY <1>2, <1>7
<1>9. SumBy(DOMAIN BucketEdges, LAMBDA i : st.histogram[i]) = Len(values)
  BY <1>4, <1>5, <1>8 DEF n
<1> QED
  BY <1>6, <1>7, <1>8, <1>9 DEF StatsAgree

-----------------------------------------------------------------------------
(* The best rank of an area's hotel.                                         *)

AreaRow == [seen : Int, best : Int]
Areas == UNION {[D -> AreaRow] : D \in SUBSET Int}

\* What the pages of S told: hotel h was on the page, at rank c.
RankedOn(page, h, c) == \E r \in RowsOf(page.ranked) : r.hotel = h /\ r.rank = c
ShownOn(page, h) == \E r \in RowsOf(page.ranked) : r.hotel = h
RanksOf(pages, S, start, h) ==
    {c \in Nat : \E i \in S : pages[i].base /\ pages[i].now >= start /\ RankedOn(pages[i], h, c)}

\* The row of a hotel is of the last page it was on, ...
RowIsBest(row, pages, S, h) ==
    \E last \in S :
        /\ ShownOn(pages[last], h)
        /\ \A i \in S : ShownOn(pages[i], h) => i <= last
        /\ row.seen = pages[last].now
        /\ row.best = LeastOf(RanksOf(pages, S, pages[last].start, h))

\* ... and an area has a row of every hotel that was on one.
KeepsBest(area, pages, S) ==
    /\ area \in Areas
    /\ \A h : h \in DOMAIN area <=> \E i \in S : ShownOn(pages[i], h)
    /\ \A h \in DOMAIN area : RowIsBest(area[h], pages, S, h)

\* One card of a hotel counts.
LEMMA RowsOnce ==
    ASSUME NEW ranked \in Seq(Card)
    PROVE  /\ RowsOf(ranked) \subseteq Card
           /\ \A r, q \in RowsOf(ranked) : r.hotel = q.hotel => r = q
<1>1. DOMAIN ranked = 1..Len(ranked) /\ Len(ranked) \in Nat /\ \A i \in 1..Len(ranked) : ranked[i] \in Card
  OBVIOUS
<1>2. ASSUME NEW i \in DOMAIN ranked, NEW j \in DOMAIN ranked,
             \A k \in 1..(i - 1) : ranked[k].hotel # ranked[i].hotel,
             \A k \in 1..(j - 1) : ranked[k].hotel # ranked[j].hotel,
             ranked[i].hotel = ranked[j].hotel
      PROVE  i = j
  <2>1. i \in Nat /\ j \in Nat /\ i >= 1 /\ j >= 1
    BY <1>1
  <2>2. i < j => i \in 1..(j - 1)
    BY <2>1
  <2>3. j < i => j \in 1..(i - 1)
    BY <2>1
  <2> QED
    BY <1>2, <2>1, <2>2, <2>3
<1>3. RowsOf(ranked) = {ranked[i] : i \in {j \in DOMAIN ranked : \A k \in 1..(j - 1) : ranked[k].hotel # ranked[j].hotel}}
  BY DEF RowsOf
<1> QED
  BY <1>1, <1>2, <1>3

\* Of no ranks the least is none, of one it is that one; and the least of some
\* and of one more is the lesser of the least of them and of that one.
LEMMA LeastAdded ==
    ASSUME NEW S \in SUBSET Nat, NEW c \in Nat
    PROVE  /\ LeastOf({}) = None /\ LeastOf({c}) = c /\ LeastOf(S) \in Int
           /\ LeastOf(S \cup {c}) = LeastOf({LeastOf(S), c})
<1>1. ASSUME NEW T \in SUBSET Int, NEW m \in T, m # None, \A y \in T : y = None \/ m <= y
      PROVE  LeastOf(T) = m
  <2> DEFINE K == Known(T)
  <2>1. m \in K /\ K \subseteq Int /\ \A y \in K : m <= y
    BY <1>1 DEF Known
  <2> HIDE DEF K
  <2>2. \A x \in K : (\A y \in K : x <= y) => x = m
    BY <2>1
  <2>3. Min(K) = m
    BY <2>1, <2>2 DEF Min
  <2>4. K # {}
    BY <2>1
  <2> QED
    BY <2>3, <2>4 DEF LeastOf, K
<1>2. LeastOf({}) = None
  BY DEF LeastOf, Known
<1>3. \A d \in Nat : d # None
  BY DEF None
<1>4. None \in Int
  BY DEF None
<1>5. LeastOf({c}) = c
  BY <1>1, <1>3
<1>6. CASE S = {}
  <2>1. LeastOf(S \cup {c}) = c
    BY <1>5, <1>6
  <2>2. LeastOf({None, c}) = c
    BY <1>1, <1>3, <1>4
  <2> QED
    BY <1>2, <1>4, <1>5, <1>6, <2>1, <2>2
<1>7. CASE S # {}
  <2>1. PICK m \in S : \A y \in S : m <= y
    BY <1>7, LeastElement
  <2>2. m \in Nat /\ m # None
    BY <1>3
  <2>3. LeastOf(S) = m
    BY <1>1, <2>1, <2>2
  <2>4. PICK a \in Nat : a = (IF m <= c THEN m ELSE c)
    BY <2>2
  <2>5. a \in S \cup {c} /\ a \in {m, c} /\ a # None /\ a <= m /\ a <= c
    BY <1>3, <2>2, <2>4
  <2>6. \A y \in S \cup {c} : a <= y
    BY <2>1, <2>2, <2>5
  <2>7. LeastOf(S \cup {c}) = a
    BY <1>1, <2>5, <2>6
  <2>8. LeastOf({m, c}) = a
    BY <1>1, <2>2, <2>5
  <2> QED
    BY <1>2, <1>5, <2>2, <2>3, <2>7, <2>8
<1> QED
  BY <1>6, <1>7

RecordOne(area, p) == RecordPage(area, p.ranked, p.base, p.now, p.start)

\* The row of a hotel after a page that shows it at rank c.
RowAfter(area, p, h, c) ==
    IF h \in DOMAIN area THEN BestRank(area[h], c, p.base, p.now, p.start)
    ELSE [seen |-> p.now, best |-> IF p.base THEN c ELSE None]

\* A page leaves a row of the hotel.
LEMMA RowAfterIs ==
    ASSUME NEW area \in Areas, NEW p \in Page, NEW h, NEW c \in Nat
    PROVE  RowAfter(area, p, h, c) \in AreaRow
<1>1. p.now \in Int /\ p.start \in Int /\ p.base \in BOOLEAN
  BY DEF Page
<1>2. None \in Int /\ c \in Int
  BY DEF None
<1>3. CASE h \in DOMAIN area
  <2>1. PICK D \in SUBSET Int : area \in [D -> AreaRow]
    BY DEF Areas
  <2>2. PICK row \in AreaRow : row = area[h]
    BY <1>3, <2>1
  <2>3. PICK s \in Int, b \in Int : row = [seen |-> s, best |-> b]
    BY DEF AreaRow
  <2>4. LeastOf({b, c}) \in Int
    BY <1>2, LeastOfTwo
  <2>5. RowAfter(area, p, h, c) = BestRank(row, c, p.base, p.now, p.start)
    BY <1>3, <2>2 DEF RowAfter
  <2>6. BestRank(row, c, p.base, p.now, p.start) \in AreaRow
    BY <1>1, <1>2, <2>3, <2>4 DEF BestRank, AreaRow
  <2> QED
    BY <2>5, <2>6
<1>4. CASE h \notin DOMAIN area
  BY <1>1, <1>2, <1>4 DEF RowAfter, AreaRow
<1> QED
  BY <1>3, <1>4

\* A page leaves the rows of the hotels it does not show alone.
LEMMA RecordOneIs ==
    ASSUME NEW area \in Areas, NEW p \in Page
    PROVE  /\ RecordOne(area, p) \in Areas
           /\ \A h : h \in DOMAIN RecordOne(area, p) <=> h \in DOMAIN area \/ ShownOn(p, h)
           /\ \A h \in DOMAIN area : ~ ShownOn(p, h) => RecordOne(area, p)[h] = area[h]
           /\ \A h : ShownOn(p, h) =>
                \E c \in Nat : /\ \A d : RankedOn(p, h, d) <=> d = c
                               /\ RecordOne(area, p)[h] = RowAfter(area, p, h, c)
<1> DEFINE rows == RowsOf(p.ranked)
           hotels == {r.hotel : r \in rows}
           rankOf(h) == (CHOOSE r \in rows : r.hotel = h).rank
           after == RecordOne(area, p)
<1>1. p.ranked \in Seq(Card)
  BY DEF Page
<1>2. rows \subseteq Card /\ \A r, q \in rows : r.hotel = q.hotel => r = q
  BY <1>1, RowsOnce
<1>3. \A r \in rows : r.hotel \in Int /\ r.rank \in Nat
  BY <1>2 DEF Card
<1>4. \A h : ShownOn(p, h) <=> h \in hotels
  BY DEF ShownOn
<1>5. ASSUME NEW h \in hotels
      PROVE  rankOf(h) \in Nat /\ \A d : RankedOn(p, h, d) <=> d = rankOf(h)
  <2>1. PICK r \in rows : r.hotel = h
    OBVIOUS
  <2>2. (CHOOSE q \in rows : q.hotel = h) = r
    <3>1. (CHOOSE q \in rows : q.hotel = h) \in rows /\ (CHOOSE q \in rows : q.hotel = h).hotel = h
      BY <2>1
    <3> HIDE DEF rows
    <3> QED
      BY <1>2, <2>1, <3>1
  <2>3. rankOf(h) = r.rank /\ r.rank \in Nat
    BY <1>3, <2>2
  <2>4. \A q \in rows : q.hotel = h => q = r
    BY <1>2, <2>1
  <2>5. \A d : RankedOn(p, h, d) <=> d = r.rank
    BY <2>1, <2>4 DEF RankedOn
  <2> HIDE DEF rankOf
  <2> QED
    BY <2>3, <2>5
<1>6. after = [h \in DOMAIN area \cup hotels |->
                 IF h \notin hotels THEN area[h]
                 ELSE IF h \in DOMAIN area THEN BestRank(area[h], rankOf(h), p.base, p.now, p.start)
                 ELSE [seen |-> p.now, best |-> IF p.base THEN rankOf(h) ELSE None]]
  BY Zenon DEF RecordOne, RecordPage
<1> HIDE DEF rankOf, hotels, rows, after
<1>7. PICK D \in SUBSET Int : area \in [D -> AreaRow]
  BY DEF Areas
<1>8. hotels \subseteq Int
  BY <1>3 DEF hotels
<1>9. DOMAIN after = D \cup hotels /\ DOMAIN area = D
  BY <1>6, <1>7
<1>10. ASSUME NEW h \in D, h \notin hotels PROVE after[h] = area[h] /\ area[h] \in AreaRow
  BY <1>6, <1>7, <1>10
<1>11. ASSUME NEW h \in hotels PROVE after[h] = RowAfter(area, p, h, rankOf(h)) /\ after[h] \in AreaRow
  <2>1. after[h] = RowAfter(area, p, h, rankOf(h))
    BY <1>6, <1>9, <1>11 DEF RowAfter
  <2>2. rankOf(h) \in Nat
    BY <1>5, <1>11
  <2> QED
    BY <2>1, <2>2, RowAfterIs
<1>12. after \in [D \cup hotels -> AreaRow]
  <2>1. \A h \in D \cup hotels : after[h] \in AreaRow
    BY <1>10, <1>11
  <2>2. after = [h \in D \cup hotels |-> after[h]]
    BY <1>6, <1>9
  <2> QED
    BY <2>1, <2>2
<1>13. after \in Areas
  BY <1>8, <1>12 DEF Areas
<1>14. \A h \in hotels : rankOf(h) \in Nat /\ (\A d : RankedOn(p, h, d) <=> d = rankOf(h)) /\ after[h] = RowAfter(area, p, h, rankOf(h))
  BY <1>5, <1>11
<1> QED
  BY <1>4, <1>9, <1>10, <1>13, <1>14 DEF after

\* A page that does not show a hotel leaves its row the best one.
LEMMA RowStays ==
    ASSUME NEW pages, NEW S, NEW m \in S, NEW h, NEW row,
           RowIsBest(row, pages, S \ {m}, h), ~ ShownOn(pages[m], h)
    PROVE  RowIsBest(row, pages, S, h)
<1>1. PICK last \in S \ {m} :
           /\ ShownOn(pages[last], h)
           /\ \A i \in S \ {m} : ShownOn(pages[i], h) => i <= last
           /\ row.seen = pages[last].now
           /\ row.best = LeastOf(RanksOf(pages, S \ {m}, pages[last].start, h))
  BY DEF RowIsBest
<1>2. \A c : ~ RankedOn(pages[m], h, c)
  BY DEF RankedOn, ShownOn
<1>3. RanksOf(pages, S, pages[last].start, h) = RanksOf(pages, S \ {m}, pages[last].start, h)
  BY <1>2 DEF RanksOf
<1>4. \A i \in S : ShownOn(pages[i], h) => i <= last
  BY <1>1
<1> QED
  BY <1>1, <1>3, <1>4 DEF RowIsBest

\* One that shows it makes it so.
LEMMA RowRenewed ==
    ASSUME NEW pages, IsPages(pages), NEW S \in SUBSET DOMAIN pages, NEW m \in S, \A y \in S : y <= m,
           NEW area \in Areas, NEW h, NEW c \in Nat, \A d : RankedOn(pages[m], h, d) <=> d = c,
           h \in DOMAIN area <=> \E i \in S \ {m} : ShownOn(pages[i], h),
           h \in DOMAIN area => RowIsBest(area[h], pages, S \ {m}, h)
    PROVE  RowIsBest(RowAfter(area, pages[m], h, c), pages, S, h)
<1> DEFINE p == pages[m]
           row == RowAfter(area, p, h, c)
           before(start) == RanksOf(pages, S \ {m}, start, h)
           all == RanksOf(pages, S, p.start, h)
<1>1. /\ \A i \in S : i \in Int /\ pages[i] \in Page
      /\ p.start <= p.now /\ m \in Int
      /\ \A i \in S \ {m} : i < m
  BY DEF IsPages
<1>2. \A i \in S : pages[i].now \in Int /\ pages[i].start \in Int /\ pages[i].base \in BOOLEAN
  BY <1>1 DEF Page
<1>3. /\ \A i \in S \ {m} : pages[i].start = p.start \/ pages[i].now < p.start
      /\ \A i, j \in S : i <= j => pages[i].now <= pages[j].now
  BY <1>1, <1>2 DEF IsPages
<1>4. all = before(p.start) \cup (IF p.base THEN {c} ELSE {})
  BY <1>1, <1>2 DEF RanksOf
<1>5. ShownOn(p, h)
  BY DEF RankedOn, ShownOn
<1>6. \A t : before(t) \in SUBSET Nat
  BY DEF RanksOf
<1> SUFFICES RowIsBest(row, pages, S, h)
  OBVIOUS
<1>7. SUFFICES row.seen = p.now /\ row.best = LeastOf(all)
  <2> HIDE DEF row, all, p
  <2>1. \A i \in S : ShownOn(pages[i], h) => i <= m
    OBVIOUS
  <2> QED
    BY <1>5, <1>7, <2>1 DEF RowIsBest, p, all
<1>8. ASSUME \A i \in S \ {m} : ShownOn(pages[i], h) => pages[i].now < p.start
      PROVE  before(p.start) = {}
  <2>1. ASSUME NEW i \in S \ {m}, NEW d, RankedOn(pages[i], h, d), pages[i].now >= p.start PROVE FALSE
    <3>1. ShownOn(pages[i], h)
      BY <2>1 DEF RankedOn, ShownOn
    <3> QED
      BY <1>2, <1>8, <2>1, <3>1
  <2> QED
    BY <2>1 DEF RanksOf
<1>9. CASE h \notin DOMAIN area
  <2>1. before(p.start) = {}
    BY <1>8, <1>9
  <2>2. row = [seen |-> p.now, best |-> IF p.base THEN c ELSE None]
    BY <1>9 DEF RowAfter
  <2> HIDE DEF row, all, before, p
  <2> QED
    BY <1>4, <2>1, <2>2, LeastAdded
<1>10. CASE h \in DOMAIN area
  <2>1. PICK last \in S \ {m} :
             /\ ShownOn(pages[last], h)
             /\ \A i \in S \ {m} : ShownOn(pages[i], h) => i <= last
             /\ area[h].seen = pages[last].now
             /\ area[h].best = LeastOf(before(pages[last].start))
    BY <1>10 DEF RowIsBest
  <2>2. row = BestRank(area[h], c, p.base, p.now, p.start)
    BY <1>10 DEF RowAfter
  <2>3. row.seen = p.now
    BY <2>2 DEF BestRank
  <2>4. CASE area[h].seen < p.start
    <3>1. \A i \in S \ {m} : ShownOn(pages[i], h) => pages[i].now < p.start
      BY <1>1, <1>2, <1>3, <2>1, <2>4
    <3>2. before(p.start) = {}
      BY <1>8, <3>1
    <3>3. row.best = IF p.base THEN c ELSE None
      BY <2>2, <2>4 DEF BestRank
    <3> HIDE DEF row, all, before, p
    <3> QED
      BY <1>4, <2>3, <3>2, <3>3, LeastAdded
  <2>5. CASE ~ (area[h].seen < p.start)
    <3>1. pages[last].start = p.start
      BY <1>3, <2>1, <2>5
    <3>2. area[h].best = LeastOf(before(p.start))
      BY <2>1, <3>1
    <3>3. row.best = IF p.base THEN LeastOf({area[h].best, c}) ELSE area[h].best
      BY <2>2, <2>5 DEF BestRank
    <3> HIDE DEF row, all, before
    <3>4. LeastOf(before(p.start) \cup {c}) = LeastOf({LeastOf(before(p.start)), c})
      BY <1>6, LeastAdded
    <3>5. p.base => all = before(p.start) \cup {c}
      BY <1>4
    <3>6. ~ p.base => all = before(p.start)
      BY <1>4
    <3> HIDE DEF p
    <3> QED
      BY <2>3, <3>2, <3>3, <3>4, <3>5, <3>6
  <2> QED
    BY <2>4, <2>5
<1> QED
  BY <1>9, <1>10

\* Rows that were the best ones before a page are after it.
LEMMA RecordKeeps ==
    ASSUME NEW pages, IsPages(pages), NEW S \in SUBSET DOMAIN pages, NEW m \in S, \A y \in S : y <= m,
           NEW area, KeepsBest(area, pages, S \ {m})
    PROVE  KeepsBest(RecordOne(area, pages[m]), pages, S)
<1> DEFINE p == pages[m]  after == RecordOne(area, p)
<1>1. p \in Page /\ area \in Areas
  BY DEF IsPages, KeepsBest
<1>2. /\ after \in Areas
      /\ \A h : h \in DOMAIN after <=> h \in DOMAIN area \/ ShownOn(p, h)
      /\ \A h \in DOMAIN area : ~ ShownOn(p, h) => after[h] = area[h]
      /\ \A h : ShownOn(p, h) => \E c \in Nat : (\A d : RankedOn(p, h, d) <=> d = c) /\ after[h] = RowAfter(area, p, h, c)
  <2> HIDE DEF p
  <2> QED
    BY <1>1, RecordOneIs
<1>3. \A h : h \in DOMAIN area <=> \E i \in S \ {m} : ShownOn(pages[i], h)
  BY DEF KeepsBest
<1>4. \A h \in DOMAIN area : RowIsBest(area[h], pages, S \ {m}, h)
  BY DEF KeepsBest
<1> HIDE DEF after
<1>5. \A h : h \in DOMAIN after <=> \E i \in S : ShownOn(pages[i], h)
  BY <1>2, <1>3
<1>6. ASSUME NEW h \in DOMAIN after PROVE RowIsBest(after[h], pages, S, h)
  <2>1. CASE ShownOn(p, h)
    <3>1. PICK c \in Nat : (\A d : RankedOn(p, h, d) <=> d = c) /\ after[h] = RowAfter(area, p, h, c)
      BY <1>2, <2>1
    <3>2. RowIsBest(RowAfter(area, p, h, c), pages, S, h)
      BY <1>1, <1>3, <1>4, <3>1, RowRenewed
    <3> QED
      BY <3>1, <3>2
  <2>2. CASE ~ ShownOn(p, h)
    <3>1. h \in DOMAIN area /\ after[h] = area[h]
      BY <1>2, <1>6, <2>2
    <3>2. RowIsBest(area[h], pages, S, h)
      BY <1>4, <2>2, <3>1, RowStays
    <3> QED
      BY <3>1, <3>2
  <2> QED
    BY <2>1, <2>2
<1> QED
  BY <1>2, <1>5, <1>6 DEF KeepsBest, after

\* So they are after all pages, taken one at a time as by the fold.
LEMMA PagesRead ==
    ASSUME NEW pages, IsPages(pages)
    PROVE  KeepsBest(FoldLeft(RecordOne, << >>, pages), pages, 1..Len(pages))
<1> DEFINE n == Len(pages)
           none == << >>
           Body(it) == [S \in SUBSET (1..n) |-> IF S = {} THEN none ELSE RecordOne(it[S \ {Max(S)}], pages[Max(S)])]
           Fix == CHOOSE it : it = Body(it)
           step == [i \in 1..n |-> [v \in Areas |-> RecordOne(v, pages[i])]]
<1>1. n \in Nat /\ DOMAIN pages = 1..n /\ pages \in [1..n -> Page]
  BY DEF IsPages
<1>2. FoldLeft(RecordOne, none, pages) = Fix[1..n]
  BY <1>1, Zenon DEF FoldLeft, MapThenFoldSet
<1>0. none \in Areas /\ DOMAIN none = {}
  <2>1. none \in [{} -> AreaRow]
    OBVIOUS
  <2> QED
    BY <2>1 DEF Areas
<1> HIDE DEF n, none
<1>3. step \in [1..n -> [Areas -> Areas]]
  BY <1>1, RecordOneIs
<1>5. \E it : it = Body(it)
  <2> DEFINE Is(it, m, U, c, st) ==
               \A S \in SUBSET (1..m) : it[S] = IF S = {} THEN c ELSE st[Max(S)][it[S \ {Max(S)}]]
  <2>1. \A m \in Nat : \A U : \A c \in U : \A st \in [1..m -> [U -> U]] :
           \E it \in [SUBSET (1..m) -> U] : Is(it, m, U, c, st)
    BY FoldExists
  <2> HIDE DEF Is, step
  <2>2. PICK it \in [SUBSET (1..n) -> Areas] : Is(it, n, Areas, none, step)
    BY <1>0, <1>1, <1>3, <2>1
  <2>3. \A S \in SUBSET (1..n) : it[S] = IF S = {} THEN none ELSE step[Max(S)][it[S \ {Max(S)}]]
    BY <2>2 DEF Is
  <2> USE DEF step
  <2>4. ASSUME NEW S \in SUBSET (1..n), S # {}
        PROVE  step[Max(S)][it[S \ {Max(S)}]] = RecordOne(it[S \ {Max(S)}], pages[Max(S)])
    <3>1. Max(S) \in 1..n /\ S \ {Max(S)} \in SUBSET (1..n)
      BY <2>4, <1>1, GreatestElement
    <3>2. it[S \ {Max(S)}] \in Areas
      BY <2>2, <3>1
    <3> QED
      BY <3>1, <3>2
  <2> HIDE DEF step
  <2>5. it = Body(it)
    BY <2>2, <2>3, <2>4
  <2> QED
    BY <2>5
<1>6. Fix = Body(Fix)
  BY <1>5
<1> HIDE DEF Fix
<1> DEFINE G == {S \in SUBSET (1..n) : KeepsBest(Fix[S], pages, S)}
<1>7. {} \in G
  <2>1. Fix[{}] = none
    BY <1>6
  <2>2. KeepsBest(none, pages, {})
    BY <1>0 DEF KeepsBest
  <2> QED
    BY <2>1, <2>2
<1>8. ASSUME NEW S \in SUBSET (1..n), S # {}, S \ {Max(S)} \in G PROVE S \in G
  <2>1. PICK m : m = Max(S)
    OBVIOUS
  <2>2. m \in S /\ \A y \in S : y <= m
    BY <1>8, <1>1, <2>1, GreatestElement
  <2>3. Fix[S] = RecordOne(Fix[S \ {m}], pages[m])
    BY <1>6, <1>8, <2>1
  <2>4. KeepsBest(Fix[S \ {m}], pages, S \ {m})
    BY <1>8, <2>1
  <2>5. KeepsBest(RecordOne(Fix[S \ {m}], pages[m]), pages, S)
    BY <1>1, <2>2, <2>4, RecordKeeps
  <2> QED
    BY <2>3, <2>5
<1> HIDE DEF G
<1>9. 1..n \in G
  BY <1>1, <1>7, <1>8, OneByOne
<1> QED
  BY <1>2, <1>9 DEF G, n, none

\* The best rank of every hotel of an area is that of its last round.
LEMMA BestRankHolds == ASSUME NEW pages, IsPages(pages) PROVE BestRankIsBest(pages)
<1> DEFINE area == AreaAfter(pages)
           n == Len(pages)
           shows(h, i) == {r \in RowsOf(pages[i].ranked) : r.hotel = h}
           last(h) == Max({i \in DOMAIN pages : shows(h, i) # {}})
           round(h) == {i \in 1..last(h) : pages[i].base /\ pages[i].now >= pages[last(h)].start}
           ranks(h) == {r.rank : r \in UNION {shows(h, i) : i \in round(h)}}
<1>1. FoldLeft(RecordOne, << >>, pages) = area
  BY Zenon DEF AreaAfter, RecordOne
<1>2. KeepsBest(area, pages, 1..n)
  BY <1>1, PagesRead
<1>3. n \in Nat /\ DOMAIN pages = 1..n /\ pages \in [1..n -> Page]
  BY DEF IsPages
<1>4. \A h, i : ShownOn(pages[i], h) <=> shows(h, i) # {}
  BY DEF ShownOn
<1>5. \A h, i, c : RankedOn(pages[i], h, c) <=> \E r \in shows(h, i) : r.rank = c
  BY DEF RankedOn
<1>10. \A h : \A i \in 1..n : \A r \in shows(h, i) : r.rank \in Nat
  <2>1. \A i \in 1..n : pages[i].ranked \in Seq(Card)
    BY <1>3 DEF Page
  <2>2. \A i \in 1..n : \A r \in RowsOf(pages[i].ranked) : r \in Card
    BY <2>1, RowsOnce
  <2> QED
    BY <2>2 DEF Card
<1>6. ASSUME NEW h \in DOMAIN area PROVE area[h].best = LeastOf(ranks(h))
  <2>1. RowIsBest(area[h], pages, 1..n, h)
    BY <1>2 DEF KeepsBest
  <2>2. PICK l \in 1..n :
             /\ ShownOn(pages[l], h)
             /\ \A i \in 1..n : ShownOn(pages[i], h) => i <= l
             /\ area[h].best = LeastOf(RanksOf(pages, 1..n, pages[l].start, h))
    BY <2>1 DEF RowIsBest
  <2> HIDE DEF shows, n, area
  <2>3. last(h) = l
    <3> DEFINE on == {i \in DOMAIN pages : shows(h, i) # {}}
    <3>1. l \in on /\ \A i \in on : i <= l
      BY <1>3, <1>4, <2>2
    <3>2. on \in SUBSET Nat
      BY <1>3
    <3> HIDE DEF on
    <3>3. \A x \in on : (\A y \in on : x >= y) => x = l
      BY <3>1, <3>2
    <3>4. \A y \in on : l >= y
      BY <3>1, <3>2
    <3>5. Max(on) = l
      BY <3>1, <3>3, <3>4 DEF Max
    <3> QED
      BY <3>5 DEF on
  <2> HIDE DEF last
  <2>4. \A i : i \in round(h) <=> i \in 1..n /\ i <= l /\ pages[i].base /\ pages[i].now >= pages[l].start
    BY <1>3, <2>3
  <2> HIDE DEF round
  <2>5. \A c : c \in ranks(h) <=> \E i \in round(h) : RankedOn(pages[i], h, c)
    <3>1. \A c : c \in ranks(h) <=> \E i \in round(h) : \E r \in shows(h, i) : r.rank = c
      OBVIOUS
    <3>2. ASSUME NEW c
          PROVE  (\E i \in round(h) : \E r \in shows(h, i) : r.rank = c)
                     <=> \E i \in round(h) : RankedOn(pages[i], h, c)
      <4>1. ASSUME NEW i PROVE RankedOn(pages[i], h, c) <=> \E r \in shows(h, i) : r.rank = c
        BY DEF RankedOn, shows
      <4> QED
        BY <4>1, Zenon
    <3> HIDE DEF ranks
    <3> QED
      BY <3>1, <3>2, Zenon
  <2> HIDE DEF ranks
  <2>6. \A i \in 1..n : \A c : RankedOn(pages[i], h, c) => i <= l /\ c \in Nat
    <3>1. \A i \in 1..n : \A c : RankedOn(pages[i], h, c) => ShownOn(pages[i], h)
      BY DEF RankedOn, ShownOn
    <3>2. ASSUME NEW i \in 1..n, NEW c, RankedOn(pages[i], h, c) PROVE i <= l /\ c \in Nat
      <4>1. PICK r \in shows(h, i) : r.rank = c
        BY <3>2 DEF RankedOn, shows
      <4>2. i <= l
        <5>1. ShownOn(pages[i], h)
          BY <3>1, <3>2, Zenon
        <5> QED
          BY <2>2, <5>1, Zenon
      <4>3. c \in Nat
        BY <1>10, <4>1, Zenon
      <4> QED
        BY <4>2, <4>3
    <3> QED
      BY <3>2, Zenon
  <2>7. \A c : c \in RanksOf(pages, 1..n, pages[l].start, h) <=> c \in ranks(h)
    <3>1. \A c : c \in RanksOf(pages, 1..n, pages[l].start, h)
                  <=> c \in Nat /\ \E i \in 1..n : pages[i].base /\ pages[i].now >= pages[l].start /\ RankedOn(pages[i], h, c)
      BY Zenon DEF RanksOf
    <3>2. \A c : c \in ranks(h)
                  <=> \E i : i \in 1..n /\ i <= l /\ pages[i].base /\ pages[i].now >= pages[l].start /\ RankedOn(pages[i], h, c)
      BY <2>4, <2>5, Zenon
    <3> QED
      BY <2>6, <3>1, <3>2, Zenon
  <2>8. RanksOf(pages, 1..n, pages[l].start, h) = ranks(h)
    BY <2>7
  <2> QED
    BY <2>2, <2>8
<1> HIDE DEF area
<1> QED
  BY <1>6 DEF BestRankIsBest, area

\* After any pages of rounds and slices the rank of a hotel is the best its
\* last round had for it (marketscan/upsert.py record_page); and of any prices
\* the quartiles and the average lie between the extremes, and the histogram
\* counts each of them once (marketscan/stats.py).
THEOREM ListStaysTrue == FiguresSpec => []ListIsTrue
<1>1. FiguresInit => ListIsTrue
  BY AnalysisInputs, BestRankHolds, StatsHold DEF FiguresInit, ListIsTrue
<1>2. ListIsTrue /\ [FiguresNext]_<<kind, input>> => ListIsTrue'
  BY DEF FiguresNext, ListIsTrue
<1> QED
  BY <1>1, <1>2, PTL DEF FiguresSpec

\* What is told of a market is so of any pages, promotions and competitors
\* (marketscan/upsert.py, marketscan/stats.py, market/radar.py, analytics/compset.py).
THEOREM MarketIsToldTrue == FiguresSpec => []MarketIsTold
<1>1. ListIsTrue /\ PromotionsAgree /\ CompsetIsFresh => MarketIsTold
  BY DEF MarketIsTold
<1> QED
  BY <1>1, ListStaysTrue, PromotionsAreOne, StaleIsAside, PTL

-----------------------------------------------------------------------------
(* The hourly check.                                                         *)

\* Every key the throttle remembers stands for an alert that was told then.
Remembered ==
    /\ opsNow \in Int
    /\ \A k \in DOMAIN lastSent :
         /\ lastSent[k] \in Int /\ lastSent[k] <= opsNow
         /\ \E t \in told : t.channel = k[1] /\ t.about = k[2] /\ t.figure = k[3] /\ t.at = lastSent[k]

\* The key of an alert is its channel, what it is about and its figure.
LEMMA KeyIs ==
    ASSUME NEW a
    PROVE  AlertKey(a)[1] = a.channel /\ AlertKey(a)[2] = a.about /\ AlertKey(a)[3] = a.figure
BY DEF AlertKey

\* Nothing was sent at first.
LEMMA RememberedInit == OpsInit => Remembered
<1> SUFFICES ASSUME OpsInit PROVE Remembered
  OBVIOUS
<1>1. opsNow = 0 /\ DOMAIN lastSent = {}
  BY DEF OpsInit
<1> QED
  BY <1>1 DEF Remembered

\* A check sends what it may and remembers it; what it may not was sent less than
\* a gap ago, and is remembered.
LEMMA CheckRemembers ==
    ASSUME Remembered, OpsCheck
    PROVE  Remembered'
<1> DEFINE note(a) == [channel |-> a.channel, about |-> a.about, figure |-> a.figure, at |-> opsNow]
           keys == {AlertKey(a) : a \in SentNow}
<1>1. /\ DOMAIN lastSent' = DOMAIN lastSent \cup keys
      /\ \A k \in DOMAIN lastSent' : lastSent'[k] = IF \E a \in SentNow : AlertKey(a) = k THEN opsNow ELSE lastSent[k]
      /\ told' = told \cup {note(a) : a \in SentNow} /\ opsNow' = opsNow
  BY DEF OpsCheck
<1>2. ASSUME NEW k \in DOMAIN lastSent'
      PROVE  /\ lastSent'[k] \in Int /\ lastSent'[k] <= opsNow
             /\ \E t \in told' : t.channel = k[1] /\ t.about = k[2] /\ t.figure = k[3] /\ t.at = lastSent'[k]
  <2>1. CASE \E a \in SentNow : AlertKey(a) = k
    <3>1. PICK a \in SentNow : AlertKey(a) = k
      BY <2>1
    <3>2. /\ note(a) \in told' /\ note(a).channel = k[1] /\ note(a).about = k[2]
          /\ note(a).figure = k[3] /\ note(a).at = opsNow
      BY <1>1, <3>1, KeyIs
    <3>3. lastSent'[k] = opsNow /\ opsNow \in Int
      BY <1>1, <1>2, <2>1 DEF Remembered
    <3> HIDE DEF note
    <3> QED
      BY <3>2, <3>3
  <2>2. CASE ~ \E a \in SentNow : AlertKey(a) = k
    <3>1. k \in DOMAIN lastSent /\ lastSent'[k] = lastSent[k]
      BY <1>1, <1>2, <2>2
    <3> HIDE DEF note
    <3> QED
      BY <1>1, <3>1 DEF Remembered
  <2> QED
    BY <2>1, <2>2
<1> HIDE DEF note, keys
<1> QED
  BY <1>1, <1>2 DEF Remembered

\* No step forgets what was sent within the gap.
LEMMA RememberedStays == Remembered /\ [OpsNext]_opsVars => Remembered'
<1> SUFFICES ASSUME Remembered, [OpsNext]_opsVars PROVE Remembered'
  OBVIOUS
<1>1. CASE HourPasses
  BY <1>1 DEF HourPasses, Remembered
<1>2. CASE OpsCheck
  BY <1>2, CheckRemembers
<1>3. CASE OpsCheckFails
  BY <1>3 DEF OpsCheckFails, Remembered
<1>4. CASE OpsRestart
  BY <1>4 DEF OpsRestart, Remembered
<1>5. CASE UNCHANGED opsVars
  BY <1>5 DEF opsVars, Remembered
<1> QED
  BY <1>1, <1>2, <1>3, <1>4, <1>5 DEF OpsNext

\* After a check, of each of its alerts an operator was told within the gap.
LEMMA CheckTells ==
    ASSUME Remembered, OpsCheck, NEW a \in OpsAlerts
    PROVE  \E t \in told' : ToldOf(a, t) /\ opsNow - t.at < OpsGap
<1> DEFINE note == [channel |-> a.channel, about |-> a.about, figure |-> a.figure, at |-> opsNow]
<1>1. OpsGap \in Nat /\ OpsGap # 0 /\ opsNow \in Int
  BY OpsBounds DEF Remembered
<1>2. told \subseteq told' /\ (a \in SentNow => note \in told')
  BY DEF OpsCheck
<1>3. CASE a \in SentNow
  <2>1. note \in told' /\ ToldOf(a, note) /\ note.at = opsNow
    BY <1>2, <1>3 DEF ToldOf
  <2>2. opsNow - opsNow < OpsGap
    BY <1>1
  <2> HIDE DEF note
  <2> QED
    BY <2>1, <2>2
<1>4. CASE a \notin SentNow
  <2>1. AlertKey(a) \in DOMAIN lastSent /\ ~ (opsNow - lastSent[AlertKey(a)] >= OpsGap)
    BY <1>4, Zenon DEF SentNow, ShouldSend
  <2>2. PICK k : k = AlertKey(a)
    OBVIOUS
  <2>3. /\ k \in DOMAIN lastSent /\ ~ (opsNow - lastSent[k] >= OpsGap)
        /\ k[1] = a.channel /\ k[2] = a.about /\ k[3] = a.figure
    BY <2>1, <2>2, KeyIs, Zenon
  <2>4. PICK t \in told : t.channel = k[1] /\ t.about = k[2] /\ t.figure = k[3] /\ t.at = lastSent[k]
    BY <2>3 DEF Remembered
  <2>5. opsNow - t.at < OpsGap
    BY <1>1, <2>3, <2>4 DEF Remembered
  <2> QED
    BY <1>2, <2>3, <2>4, <2>5 DEF ToldOf
<1> QED
  BY <1>3, <1>4

\* Whatever goes wrong, however the checks are spaced and whenever the scheduler
\* starts anew, a trouble a check finds has been told with its figure within the
\* gap (ops/alerts.py, the throttle).
THEOREM LastingTroubleIsTold == OpsSpec => TroubleIsTold
<1>1. Remembered /\ [OpsNext]_opsVars
        => [OpsCheck => \A a \in OpsAlerts : \E t \in told' : ToldOf(a, t) /\ opsNow - t.at < OpsGap]_opsVars
  BY CheckTells
<1> QED
  BY <1>1, RememberedInit, RememberedStays, PTL DEF OpsSpec, TroubleIsTold

================================================================================

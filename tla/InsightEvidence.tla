-------------------------- MODULE InsightEvidence --------------------------
(***************************************************************************)
(* What an insight may refer to (insight/input_builder.py), what of it is  *)
(* found again in the stored input when the answer of a batch comes        *)
(* (insight/service.py _rebuild_from_stored), and which items of an answer *)
(* are kept (insight/validation.py).                                       *)
(*                                                                         *)
(* An event: [id, hotel, night, age, type], age in hours; a reference is   *)
(* <<kind, number, night>>.                                                *)
(***************************************************************************)
EXTENDS Integers, FiniteSets

EventLimit24h == 120
EventLimit7d == 200
InsightMaxDays == 30
PriorityEvents == {"sold_out", "restock", "low_stock_enter", "price_down", "price_up", "rooms_decrease"}

MetricRef(h, n) == <<"metric", h, n>>
EventRef(e) == <<"evt", e.id, 0>>
CompsetRef(n) == <<"compset", n, 0>>

(* _events: the newest of the hotels and nights in view, up to a limit.    *)
EventsOf(events, hotels, nights, since, limit) ==
    LET mine == {e \in events : e.hotel \in hotels /\ e.night \in nights /\ e.age <= since
                                /\ e.type \in PriorityEvents}
        newer(e) == {f \in mine : f.age < e.age \/ (f.age = e.age /\ f.id > e.id)}
    IN {e \in mine : Cardinality(newer(e)) < limit}

(* build_input: hotels are those active in the watchlist, compared those   *)
(* of them that are the tenant's first own hotel or its primary            *)
(* competitors (analytics/compset.py load_compset); without any there is   *)
(* no comparison.  status maps <<hotel, night>> to its metric's status.    *)
BuildInput(hotels, compared, horizon, status, events, limit24, limit7) ==
    LET nights == 0..((IF horizon < InsightMaxDays THEN horizon ELSE InsightMaxDays) - 1)
        observed == {x \in hotels \X nights : x \in DOMAIN status}
        day == EventsOf(events, hotels, nights, 24, limit24)
        week == EventsOf(events, hotels, nights, 7 * 24, limit7)
    IN [hotels |-> hotels, nights |-> nights,
        days |-> [x \in hotels \X nights |-> IF x \in observed THEN status[x] ELSE "no_data"],
        events24 |-> day, events7 |-> week, compset |-> IF compared = {} THEN {} ELSE nights,
        observed |-> Cardinality(observed),
        unknown |-> Cardinality({x \in observed : status[x] = "unknown"}),
        refs |-> {MetricRef(x[1], x[2]) : x \in observed} \cup {EventRef(e) : e \in day \cup week}
                 \cup (IF compared = {} THEN {} ELSE {CompsetRef(n) : n \in nights})]

(* _rebuild_from_stored.                                                   *)
RebuiltRefsAny(input) == \* Mutant: nights without data, too
    {MetricRef(x[1], x[2]) : x \in DOMAIN input.days}
    \cup {EventRef(e) : e \in input.events24 \cup input.events7} \cup {CompsetRef(n) : n \in input.compset}
RebuiltRefs(input) ==
    {MetricRef(x[1], x[2]) : x \in {y \in DOMAIN input.days : input.days[y] # "no_data"}}
    \cup {EventRef(e) : e \in input.events24 \cup input.events7} \cup {CompsetRef(n) : n \in input.compset}

(* validate_output: an item [section, refs, hotels, dates] is dropped for  *)
(* any of these reasons.                                                   *)
Evidenced == {"highlights", "pricing_opportunities", "risks"}
Dated == {"highlights", "pricing_opportunities", "demand_signals"}
Reasons(item, refs, hotels, nights) ==
    {r \in {"no evidence", "unknown refs", "unknown hotel_ids", "dates outside period"} :
       CASE r = "no evidence" -> item.section \in Evidenced /\ item.refs = {}
         [] r = "unknown refs" -> item.section \in Evidenced /\ ~(item.refs \subseteq refs)
         [] r = "unknown hotel_ids" -> item.section = "highlights" /\ ~(item.hotels \subseteq hotels)
         [] r = "dates outside period" -> item.section \in Dated /\ ~(item.dates \subseteq nights)}
Kept(items, refs, hotels, nights) == {i \in items : Reasons(i, refs, hotels, nights) = {}}

(* A result kept in the request store says no more of a batch than its     *)
(* rows: one without a result is failed, as is an answer that is no valid  *)
(* output (_apply_result, poll_batches).                                   *)
ResultStatus(result) ==
    IF result = "none" \/ result = "error" \/ result = "invalid" THEN "failed" ELSE "completed"

(* An answer that comes through a batch is judged by the same references   *)
(* as one that comes at once: what the stored input holds is enough.       *)
RebuiltInput(input) == RebuiltRefs(input) = input.refs

=============================================================================

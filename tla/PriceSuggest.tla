---------------------------- MODULE PriceSuggest ----------------------------
(***************************************************************************)
(* The price suggested for a night (market/price_suggest.py): a reference  *)
(* price, adjustments in percent, each with its reason, and the limits.    *)
(* Adjustments are in percent, occupancies in hundredths of a percent; a   *)
(* target is kept in ten thousandths of the price's unit, so that nothing  *)
(* is rounded before the code does.                                        *)
(* A strategy st and the signals n of a night are records.                 *)
(***************************************************************************)
EXTENDS Figures

MaxUp == 30
MaxDown == -20
HoldBand == 2
Unit == 10000

(* _round: to the step of the strategy.                                    *)
Rounded(t, step) ==
    IF step <= 0 THEN HalfEven(t, Unit) ELSE HalfUp(t, step * Unit) * step

(* _reference: the competitors' median, if three have a price, at the      *)
(* position aimed at; else the price the strategy names.                   *)
SampleOk(n) == n.compMedian # None /\ n.compPriced >= 3
Reference(n, st) ==
    IF SampleOk(n) THEN n.compMedian * st.target * 100
    ELSE IF st.base \notin {None, 0} THEN st.base * Unit ELSE None

(* The night is tight: half of the competitors are sold out or nearly so,  *)
(* or the estimate says so.                                                *)
TightCount(n) == n.soldOut + n.low
ShareBetween(n, pct) == \* Mutant: a bound too many
    n.observed >= 3 /\ TightCount(n) * 100 \in (pct * n.observed)..(pct * n.observed + 24 * n.observed)
Share(n, pct) == n.observed >= 3 /\ TightCount(n) * 100 >= pct * n.observed
Tight(n) == Share(n, 50) \/ (n.compOcc # None /\ n.compOcc >= 8500)
OwnFull(n) == n.ownOcc # None /\ n.ownOcc >= 8000
Soft(n) == ~Tight(n) /\ (n.ownOcc = None \/ n.ownOcc < 7000)

Adj(key, pct) == [key |-> key, pct |-> pct]
Adjustments(n, st) ==
    (IF Share(n, 75) THEN {Adj("comp_tight", 10)} ELSE IF Share(n, 50) THEN {Adj("comp_tight", 5)} ELSE {})
    \cup (IF n.compOcc # None /\ n.compOcc >= 8500 THEN {Adj("comp_occ", 5)} ELSE {})
    \cup (IF n.compPace # None /\ n.compPace >= 1500 THEN {Adj("comp_pace", 5)} ELSE {})
    \cup (IF n.ownOcc # None
          THEN IF n.ownOcc >= 9000 THEN {Adj("own_occ_high", 10)}
               ELSE IF n.ownOcc >= 8000 THEN {Adj("own_occ_high", 5)} ELSE {}
          ELSE IF n.roomsLeft # None /\ n.roomsLeft <= 3 THEN {Adj("own_rooms_few", 5)} ELSE {})
    \cup (IF n.pace4w = None \/ n.capacity \in {None, 0} THEN {}
          ELSE IF n.pace4w * 100 >= 10 * n.capacity THEN {Adj("own_pace_ahead", 5)}
          ELSE IF n.pace4w * 100 <= -10 * n.capacity /\ n.days <= 21 THEN {Adj("own_pace_behind", -5)} ELSE {})
    \cup (IF st.weekday # 0 THEN {Adj("weekday", st.weekday)} ELSE {})
    \cup (IF n.holiday THEN {Adj("holiday", st.holidayUplift)} ELSE {})
    \cup (IF n.uplift \notin {None, 0} THEN {Adj("event", Clamp(n.uplift \div 2, -20, 20))} ELSE {})
    \cup (IF n.days \in 0..st.lastDays /\ Soft(n) /\ st.lastAdj # 0 THEN {Adj("last_minute", st.lastAdj)} ELSE {})

Total(n, st) == Clamp(SumBy(Adjustments(n, st), LAMBDA a : a.pct), MaxDown, MaxUp)

(* suggest: the target goes through the limits in this order: not lowered  *)
(* on a tight night, the change of one day, the floor, the ceiling; each   *)
(* that bites leaves its code.  Then it is rounded.                        *)
Step(t, clamped) == [t |-> t, clamped |-> clamped]
NoLowerNever(s, n) == s \* Mutant: a tight night may be lowered
NoLower(s, n) ==
    IF (Tight(n) \/ OwnFull(n)) /\ s.t < n.ownPrice * Unit THEN Step(n.ownPrice * Unit, "no_lower_tight") ELSE s
MaxChange(s, n, st) ==
    LET hi == n.ownPrice * (100 + st.maxChange) * 100
        lo == n.ownPrice * (100 - st.maxChange) * 100
    IN  IF s.t > hi \/ s.t < lo THEN Step(Clamp(s.t, lo, hi), "max_change") ELSE s
AtFloor(s, st) == IF st.floor # None /\ s.t < st.floor * Unit THEN Step(st.floor * Unit, "floor") ELSE s
AtCeiling(s, st) == IF st.ceiling # None /\ s.t > st.ceiling * Unit THEN Step(st.ceiling * Unit, "ceiling") ELSE s

Change(price, own) == HalfUp((price - own) * 100, own)
Kind(change) == IF change >= HoldBand THEN "raise" ELSE IF change <= -HoldBand THEN "lower" ELSE "hold"

(* Weak demand must be the hotel's own: from its bookings, or an aim the   *)
(* hotel itself has set.                                                   *)
HasOtb(n) == n.occSource \in {"otb", "pms"}
Evidence(n, st) == HasOtb(n) \/ n.pace4w # None \/ st.source = "strategy"

NoSuggestion == [kind |-> "none", change |-> 0, target |-> None, reference |-> None, clamped |-> "", confidence |-> "",
                 restrict |-> {}]

Restrictions(n, st, kind) ==
    {r \in {"min_stay", "stop_discounts", "open_promo"} :
        CASE r = "min_stay" -> n.peak /\ Tight(n) /\ n.days >= 7 /\ n.ownOcc # None /\ n.ownOcc >= 6000
          [] r = "stop_discounts" -> Tight(n) /\ n.ownIndex # None /\ n.ownIndex < (st.target - 3) * 10
          [] r = "open_promo" -> n.days <= 7 /\ Soft(n) /\ n.ownOcc # None /\ n.ownOcc < 5000 /\ kind # "raise"}

Confidence(n) ==
    IF ~SampleOk(n) \/ n.compPriced < 4 THEN "low" ELSE IF HasOtb(n) THEN "high" ELSE "medium"

Suggest(n, st) ==
    LET ref == Reference(n, st)
        raw == Step((ref * (100 + Total(n, st))) \div 100, "")
        end == AtCeiling(AtFloor(MaxChange(NoLower(raw, n), n, st), st), st)
        price == Rounded(end.t, st.roundTo)
        change == Change(price, n.ownPrice)
        kept == Kind(change) = "lower" /\ ~Evidence(n, st)
        kind == IF kept THEN "hold" ELSE Kind(change)
    IN  IF n.status # "available" \/ n.ownPrice \in {None, 0} \/ ref = None THEN NoSuggestion
        ELSE [kind |-> kind, change |-> IF kept THEN 0 ELSE change, target |-> IF kept THEN n.ownPrice ELSE price,
              reference |-> Rounded(ref, st.roundTo),
              clamped |-> IF kept THEN "no_lower_without_demand" ELSE end.clamped,
              confidence |-> Confidence(n), restrict |-> Restrictions(n, st, kind)]

(* backtest_verdict: what became of a suggestion.                          *)
Verdict(kind, occ) ==
    IF kind = "raise" THEN IF occ >= 8500 THEN "good" ELSE IF occ < 6000 THEN "review" ELSE "neutral"
    ELSE IF kind = "lower" THEN IF occ >= 7000 THEN "good" ELSE IF occ < 5000 THEN "review" ELSE "neutral"
    ELSE "neutral"

----------------------------------------------------------------------------
(* Of a night that is tight, or when the hotel is nearly full, no price is *)
(* suggested below the price of today but for the ceiling, which comes     *)
(* after, and for the rounding to a step, which comes last (suggest).      *)
TightIsHeld(n, st) ==
    (Tight(n) \/ OwnFull(n)) /\ Suggest(n, st).kind # "none" =>
        Suggest(n, st).target >= Rounded(LeastOf({n.ownPrice, st.ceiling}) * Unit, st.roundTo)

(* "Never suggest to lower the price of a tight night, or when you are     *)
(* nearly full" (the head of price_suggest.py and the comment in suggest,  *)
(* docs/operations.md).                                                    *)
NeverLowered(n, st) == Tight(n) \/ OwnFull(n) => Suggest(n, st).kind # "lower"

(* One more competitor that is sold out never turns a suggestion towards a *)
(* lower price: the adjustments, the limits, the rounding and the need for *)
(* evidence all work in one direction (unless the strategy raises prices   *)
(* at the last minute).                                                    *)
Order(kind) == CASE kind = "lower" -> 0 [] kind \in {"hold", "none"} -> 1 [] kind = "raise" -> 2
DemandRaises(n, st) ==
    st.lastAdj <= 0 /\ n.soldOut + n.low < n.observed =>
        Order(Suggest(n, st).kind) <= Order(Suggest([n EXCEPT !.soldOut = @ + 1], st).kind)

=============================================================================

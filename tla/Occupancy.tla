----------------------------- MODULE Occupancy -----------------------------
(***************************************************************************)
(* From what a page shows of a room's stock to the occupancy of a night    *)
(* (domain/stock.py, domain/models.py, market/occupancy.py,                *)
(* market/occupancy_service.py).  A room is what one scan saw of a room    *)
(* type: [type, confidence, left, dropdown]; shares are counted in         *)
(* hundredths of a percent, as the code rounds them.                       *)
(***************************************************************************)
EXTENDS Figures

CONSTANTS
    PageCap,   \* page_cap: the highest number the page's dropdown offers
    Window     \* INVENTORY_WINDOW, in scans

ASSUME OccupancyBounds == PageCap \in Nat \ {0} /\ Window \in Nat

MinCoverage == 5000
MaxWidth == 2000

(* derive_stock: the badge ("only 3 left") is exact when it is about the   *)
(* room type, and a floor when it is about one rate; the dropdown is a     *)
(* floor when it is at its cap, and else says nothing.                     *)
Stock(left, confidence) == [left |-> left, confidence |-> confidence]

DeriveStock(badge, dropdown, scope) ==
    IF badge = 0 THEN Stock(0, "sold_out")
    ELSE IF badge # None THEN Stock(badge, IF scope = "rate" THEN "capped" ELSE "exact")
    ELSE IF dropdown = 0 THEN Stock(0, "sold_out")
    ELSE IF dropdown # None /\ dropdown >= PageCap THEN Stock(dropdown, "capped")
    ELSE Stock(None, "hidden")

(* rate_per_night: a price for several nights is brought down to one,      *)
(* rounded; a price that becomes nothing stays as it was.                  *)
PerNight(price, nights) ==
    IF price = None \/ nights <= 1 THEN price
    ELSE LET p == HalfEven(price, nights) IN IF p = 0 THEN price ELSE p

(* RoomState.floor: the rooms that are certainly left.                     *)
FloorOfLeft(r) == IF r.confidence = "capped" THEN None ELSE r.left \* Mutant: "at least" is not a number
FloorOf(r) ==
    IF r.confidence = "exact" THEN r.left
    ELSE IF r.confidence # "capped" THEN None
    ELSE IF r.left # None THEN r.left ELSE r.dropdown

(* _inventory, inventory_from: the most rooms of a type that were certain  *)
(* in the scans of the window, this one included; of rooms whose stock     *)
(* counts for the room type.                                               *)
InWindow(scans, now) == {s \in scans : s.at <= now /\ s.at >= now - Window}
Inventory(scans, now) ==
    LET rooms == UNION {s.rooms : s \in InWindow(scans, now)}
        floor(t) == GreatestOf({FloorOf(r) : r \in {x \in rooms : x.type = t /\ x.scope = "room_type"}}) IN
    [t \in {x \in {r.type : r \in rooms} : floor(x) > 0} |-> floor(t)]

(* estimate: nothing is known of a night without an inventory, or of one   *)
(* that is on sale without a room type that could be read.  A room type    *)
(* that is not offered has no rooms left; a hidden one has one at least.   *)
NoEstimate == [inventory |-> 0, low |-> 0, high |-> 0, coverage |-> 0]

HiddenLeftNone(inv) == 0 \* Mutant: a hidden type may be empty
HiddenLeft(inv) == 1

Bounds(inv, seen) ==
    IF seen = {} THEN <<0, 0, inv>>
    ELSE LET r == CHOOSE x \in seen : TRUE IN
         IF r.confidence = "sold_out" THEN <<0, 0, inv>>
         ELSE IF r.confidence = "exact" /\ r.left # None
              THEN <<LeastOf({r.left, inv}), LeastOf({r.left, inv}), inv>>
         ELSE IF r.confidence = "capped" /\ FloorOf(r) # None
              THEN <<LeastOf({FloorOf(r), inv}), inv, 0>>
         ELSE <<HiddenLeft(inv), inv, 0>>

Estimate(status, rooms, inventory, roomsTotal) ==
    LET types == DOMAIN inventory
        total == SumBy(types, LAMBDA t : inventory[t])
        denom == GreatestOf({total, roomsTotal})
        bound(t, k) == Bounds(inventory[t], {r \in rooms : r.type = t})[k]
        sum(k) == SumBy(types, LAMBDA t : bound(t, k))
    IN  IF status \notin {"available", "sold_out"} \/ total = 0 THEN NoEstimate
        ELSE IF status = "sold_out" THEN [inventory |-> denom, low |-> 0, high |-> 0, coverage |-> 10000]
        ELSE IF rooms = {} THEN NoEstimate
        ELSE [inventory |-> denom, low |-> sum(1), high |-> sum(2), coverage |-> HalfEven(sum(3) * 10000, total)]

OccLow(e) == HalfEven((e.inventory - e.high) * 10000, e.inventory)
OccHigh(e) == HalfEven((e.inventory - e.low) * 10000, e.inventory)
OccMid(e) == HalfUp(OccLow(e) + OccHigh(e), 2)
Reliable(e) == e.coverage >= MinCoverage /\ OccHigh(e) - OccLow(e) <= MaxWidth

(* OccupancyService.run: the estimates of a hotel's nights in one run; the *)
(* inventory is that of the latest of its snapshots.                       *)
RunEstimates(snaps, scans, roomsTotal) ==
    LET last == GreatestOf({s.at : s \in snaps})
        inventory == Inventory(scans, last)
        rooms(s) == UNION {x.rooms : x \in {y \in scans : y.stay = s.stay /\ y.run = s.run}}
        counted(s) == {r \in rooms(s) : r.scope = "room_type"}
    IN  {[stay |-> s.stay, est |-> Estimate(s.status, counted(s), inventory, roomsTotal)] :
            s \in {x \in snaps : Estimate(x.status, counted(x), inventory, roomsTotal) # NoEstimate}}

----------------------------------------------------------------------------
(* The stocks of the inventory's types that agree with what was seen.      *)
Agrees(left, inv, seen) ==
    \A r \in seen :
        CASE r.confidence = "sold_out" -> left = 0
          [] r.confidence = "exact" -> left = r.left
          [] r.confidence = "capped" -> left >= FloorOf(r)
          [] r.confidence = "hidden" -> left >= 1

PossibleStocks(rooms, inventory) ==
    {f \in [DOMAIN inventory -> 0..GreatestOf({inventory[t] : t \in DOMAIN inventory})] :
        \A t \in DOMAIN inventory :
            LET seen == {r \in rooms : r.type = t} IN
            f[t] <= inventory[t] /\ Agrees(f[t], inventory[t], seen) /\ (seen = {} => f[t] = 0)}

(* Every number of rooms that agrees with what a scan saw lies between the *)
(* bounds of its estimate, and both bounds are reached: the estimate       *)
(* claims neither too much nor too little (occupancy.py estimate).         *)
EstimateIsTight(rooms, before) ==
    LET inventory == Inventory({[at |-> 0, rooms |-> before], [at |-> 1, rooms |-> rooms]}, 1)
        seen == {r \in rooms : r.scope = "room_type"}
        e == Estimate("available", seen, inventory, None)
        sums == {SumBy(DOMAIN f, LAMBDA t : f[t]) : f \in PossibleStocks(seen, inventory)}
    IN  e # NoEstimate => e.low = LeastOf(sums) /\ e.high = GreatestOf(sums)

=============================================================================

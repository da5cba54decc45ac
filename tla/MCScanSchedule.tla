--------------------------- MODULE MCScanSchedule ---------------------------
(* Instances of ScanSchedule for TLC.                                       *)
EXTENDS ScanSchedule, TLC

CONSTANTS t1, t2, h1, h2, MaxTroubles

\* One tenant, two slots, less than defer_max apart.
OneWatch == [t \in Tenants |-> {h1}]
OneSlots == [t \in Tenants |-> {1, 4}]

\* Two tenants watch the hotel, each with a slot of its own.
SharedWatch == [t \in Tenants |-> {h1}]
SharedSlots == [t \in Tenants |-> IF t = t1 THEN {1} ELSE {3}]

----------------------------------------------------------------------------
(* Bound: the proxies fail or come back, a channel is paused, a tick fails *)
(* or the process restarts MaxTroubles times in all.                       *)
VARIABLE troubles

Trouble == down' # down \/ pausedUntil' # pausedUntil \/ TickError \/ Restart
BoundedNext ==
    /\ Next
    /\ troubles' = IF Trouble THEN troubles + 1 ELSE troubles
    /\ troubles' <= MaxTroubles

BoundedInit == Init /\ troubles = 0
BoundedSpec == BoundedInit /\ [][BoundedNext]_<<vars, troubles>>

=============================================================================

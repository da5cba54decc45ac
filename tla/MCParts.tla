------------------------------- MODULE MCParts -------------------------------
(* The functions of the analysis, the rounds and nights of the market      *)
(* list, the attempts of the collector and the hourly check, one at a      *)
(* time, for TLC: a behaviour is one of the part chosen at first, and the  *)
(* others rest.                                                            *)
EXTENDS MCFigures, MarketRounds, MarketNight, ProbeAttempts, Operations

CONSTANTS w1, w2, p1, p2, c1

WorkersAlike == Permutations({w1, w2})

\* Eight hotels in three classes and two districts; the class is on the card.
SomeTown ==
    [h \in {"h1", "h2", "h3", "h4", "h5", "h6", "h7", "h8"} |->
        CASE h \in {"h1", "h2"} -> {"c3", "d1"} [] h \in {"h3", "h4"} -> {"c3"}
          [] h = "h5" -> {"c4", "d1"} [] h \in {"h6", "h7"} -> {"c4"} [] h = "h8" -> {"d1"}]
SomeSplit == [f \in {"c3", "c4", "d1"} |-> IF f = "d1" THEN "di" ELSE "class"]

SomeAges == {1, 11, None} \* hours since the last usable data, or there is none

----------------------------------------------------------------------------
OneTrouble == faults' + day' <= 1 \* bound: a fault or a midnight among the rounds

OpsRest == opsNow = 0 /\ opsHealth = <<>> /\ checkedAt = None /\ lastSent = <<>> /\ told = {}

Init ==
    /\ RoundsInit /\ NightInit /\ ProbeInit
    /\ \/ FiguresInit /\ OpsRest
       \/ kind = "ops" /\ input = <<>> /\ OpsInit
       \/ kind \in {"rounds", "night", "attempts"} /\ input = <<>> /\ OpsRest

Next ==
    /\ FiguresNext
    /\ \/ kind = "ops" /\ OpsNext /\ UNCHANGED <<roundsVars, nightVars, probeVars>>
       \/ kind = "rounds" /\ RoundsNext /\ OneTrouble /\ UNCHANGED <<nightVars, probeVars, opsVars>>
       \/ kind = "night" /\ NightNext /\ UNCHANGED <<roundsVars, probeVars, opsVars>>
       \/ kind = "attempts" /\ ProbeNext /\ UNCHANGED <<roundsVars, nightVars, opsVars>>

Spec == Init /\ [][Next]_<<kind, input, roundsVars, nightVars, probeVars, opsVars>>

=============================================================================

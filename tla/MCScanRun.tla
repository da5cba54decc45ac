----------------------------- MODULE MCScanRun -----------------------------
(* Instances of ScanRun for TLC. Hotels are numbers, so that they rank       *)
(* themselves; runs and workers are model values.                            *)
EXTENDS ScanRun, TLC

CONSTANTS r1, r2

RankMC == [h \in Hotels |-> h]

AllEventsMC == AllEvents

WorkerSymmetry == Permutations(Workers)

\* One run is created, of one kind or the other.
\* CreateRun is under no fairness, so the behaviours left are fair ones.
OneRun == Cardinality({r \in Runs : run[r] # "absent"}) <= 1

=============================================================================

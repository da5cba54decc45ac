---------------------------- MODULE RunLifecycle ----------------------------
(***************************************************************************)
(* What a scan run promises to those who read it: it is created with the   *)
(* hotels it scans, closed once and with the truth, and analysed when it   *)
(* is closed.  ScanRun, with its workers, locks and queues, implements it. *)
(***************************************************************************)
CONSTANTS Runs, Hotels

VARIABLES
    status,   \* of each run
    asked,    \* the hotels it scans
    done,     \* those of them that are done
    counted,  \* those with probes when it was closed
    analysed  \* those whose analytics was made

vars == <<status, asked, done, counted, analysed>>

Closed(r) == status[r] \in {"completed", "partial"}

Init ==
    /\ status = [r \in Runs |-> "absent"]
    /\ asked = [r \in Runs |-> {}] /\ done = asked /\ counted = asked /\ analysed = asked

Create(r, H) ==
    /\ status[r] = "absent" /\ H # {}
    /\ status' = [status EXCEPT ![r] = "running"]
    /\ asked' = [asked EXCEPT ![r] = H]
    /\ UNCHANGED <<done, counted, analysed>>

(* Hotels become done, in running runs and, by late attempts, in closed    *)
(* ones; running runs are closed, as completed if every hotel is done then. *)
Closes(r) == /\ status[r] = "running"
             /\ status'[r] = (IF done'[r] = asked[r] THEN "completed" ELSE "partial")
             /\ counted'[r] \subseteq asked[r]
Stays(r) == status'[r] = status[r] /\ counted'[r] = counted[r]

Settle ==
    /\ \A r \in Runs : done[r] \subseteq done'[r] /\ done'[r] \subseteq asked[r]
    /\ \A r \in Runs : Closes(r) \/ Stays(r)
    /\ UNCHANGED <<asked, analysed>>

(* Every hotel that was counted is analysed, and late ones may be, too.    *)
Analyse(r, H) ==
    /\ Closed(r) /\ counted[r] \union analysed[r] \subseteq H /\ H \subseteq asked[r]
    /\ analysed' = [analysed EXCEPT ![r] = H]
    /\ UNCHANGED <<status, asked, done, counted>>

Next ==
    \/ Settle
    \/ \E r \in Runs, H \in SUBSET Hotels : Create(r, H) \/ Analyse(r, H)

Spec == Init /\ [][Next]_vars

=============================================================================

------------------------------ MODULE MCWorkshop ------------------------------
(***************************************************************************)
(* An instance of Workshop for TLC, of one vehicle: one service with two   *)
(* requests for additional work, or two appointments and their times.      *)
(***************************************************************************)
EXTENDS Workshop, TLC

CONSTANTS v1, a1, a2, k1, k2, w1, w2

OneVehicle == [a \in Appts |-> v1]
OneJob == [k \in Works |-> a1]
TwoTimes == [a \in Appts |-> {1, 2}]
Mileages == [a \in Appts |-> 2]

(* Bounds.  The work, the bill and the history of the first appointment,   *)
(* at one time; or its times and those of a second one, until two handlers *)
(* have had them in memory at once: then the second never gets a job, and  *)
(* the first, once it has one, stays in progress.                          *)
JobOfFirst ==
    /\ appt[a2] = "absent" /\ slot[a1] \in {0, 1} /\ moved = {}
    /\ \A w \in Workers : a2 \notin txn[w].appts /\ txn[w].slotTo \in {0, 1}
TimesOfBoth ==
    /\ raced = {} /\ struck = {} /\ job[a2] = "none"
    /\ \A v \in Vehicles : odometer[v] \in {0, 2}
    /\ \A k \in Works : work[k] = "absent"
    /\ \A w \in Workers :
          /\ txn[w].works = {} /\ txn[w].op # "record"
          /\ txn[w].op \in {"start", "complete"} => a2 \notin txn[w].appts
          /\ job[a1] # "none" => a1 \notin txn[w].appts
JobOrTimes == JobOfFirst \/ TimesOfBoth

Interchangeable == Permutations(Works) \cup Permutations(Workers)

=============================================================================

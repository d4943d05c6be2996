----------------------------- MODULE MCReminders -----------------------------
(***************************************************************************)
(* Instances of Reminders for TLC.                                         *)
(***************************************************************************)
EXTENDS Reminders, TLC

CONSTANTS v1, v2, r1, r2, cron, portal

TwoDates == (v1 :> {0, 2}) @@ (v2 :> {0})

Interchangeable == Permutations(Runs)

--------------------------------------------------------------------------------
(* Bounds.  The reminders are of the first rule, any number of them; the   *)
(* second is there to be switched off by the time a sweep comes to it, and *)
(* a sweep over both has few reminders to add to, and company only when    *)
(* it is done with the first.  Nothing is looked at further when a second  *)
(* reminder has gone out twice.                                            *)

At(w) == run[w].left \cup run[w].rule
Heard == {k \in Keys : told[k] # {}}

SecondSeldom ==
    (\E k \in Heard : k.rule = r2) \/ (\E w \in Runs : r2 \in At(w)) =>
        /\ Cardinality(Heard) <= 1
        /\ \A w, u \in Runs : w # u /\ At(w) = Rules => pc[u] = "idle"

OffForASweep == enabled = Rules \/ \E w \in Runs : r2 \in At(w)

OneDoubled == Cardinality(doubled) <= 1

Bounded == SecondSeldom /\ OffForASweep /\ OneDoubled

=============================================================================

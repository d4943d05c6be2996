------------------------------ MODULE HoldBook ------------------------------
(***************************************************************************)
(* What the reservation desk promises, with no workers and no sessions:    *)
(* the book of holds and the availability of each car move together.       *)
(*                                                                         *)
(*   - a car is reserved only when nobody holds it, and is then off sale;  *)
(*   - a timeout or a cancellation ends only holds nobody has paid for;    *)
(*   - when that ends the last hold on a reserved car, and only then, the  *)
(*     car is back on sale in the same instant, or, if the desk works      *)
(*     Piecemeal, the cars of a timeout some sooner and some later;        *)
(*   - every other change of availability is the desk's.                   *)
(***************************************************************************)

CONSTANTS
    Vehicles, Holds, CarOf,
    Piecemeal      \* the cars of one timeout may come back one after another

VARIABLES status, availability

vars == <<status, availability>>

Active == {"pending", "deposit_paid", "confirmed"}
ActiveOn(v) == {h \in Holds : CarOf[h] = v /\ status[h] \in Active}

Init ==
    /\ status \in [Holds -> Active \cup {"none", "cancelled", "expired"}]
    /\ availability \in [Vehicles -> {"available", "reserved", "sold", "transferred"}]

Reserve(h) ==
    /\ status[h] = "none"
    /\ ActiveOn(CarOf[h]) = {}
    /\ availability[CarOf[h]] \in {"available", "reserved"}
    /\ status' = [status EXCEPT ![h] = "pending"]
    /\ availability' = [availability EXCEPT ![CarOf[h]] = "reserved"]

Freed(over) ==
    {v \in Vehicles : /\ \E h \in over : CarOf[h] = v
                      /\ ActiveOn(v) \subseteq over
                      /\ availability[v] = "reserved"}

BackOnSale(back) ==
    availability' = [v \in Vehicles |-> IF v \in back THEN "available" ELSE availability[v]]

End(over, mark) ==
    /\ over # {}
    /\ \A h \in over : status[h] = "pending"
    /\ status' = [h \in Holds |-> IF h \in over THEN mark ELSE status[h]]

Cancel(h) == End({h}, "cancelled") /\ BackOnSale(Freed({h}))

Expire(over) ==
    /\ End(over, "expired")
    /\ \E back \in SUBSET Freed(over) :
          (back = Freed(over) \/ Piecemeal) /\ BackOnSale(back)

(* More of the cars a timeout has freed. *)
Release ==
    /\ Piecemeal
    /\ UNCHANGED status
    /\ \E back \in SUBSET {v \in Vehicles : ActiveOn(v) = {} /\ availability[v] = "reserved"} :
          BackOnSale(back)

Desk(v, next) ==
    /\ availability' = [availability EXCEPT ![v] = next]
    /\ UNCHANGED status

Pay(h, paid) ==
    /\ status[h] \in Active
    /\ status' = [status EXCEPT ![h] = paid]
    /\ UNCHANGED availability

Next ==
    \/ \E h \in Holds : Reserve(h) \/ Cancel(h)
    \/ \E over \in SUBSET Holds : Expire(over)
    \/ Release
    \/ \E v \in Vehicles, next \in {"available", "reserved", "sold", "transferred"} :
          Desk(v, next)
    \/ \E h \in Holds, paid \in {"deposit_paid", "confirmed"} : Pay(h, paid)

Spec == Init /\ [][Next]_vars

=============================================================================

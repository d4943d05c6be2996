--------------------------- MODULE MCReservations ---------------------------
(***************************************************************************)
(* Instances of Reservations for TLC.  The starting databases are those    *)
(* that matter: every car on sale or reserved, every id unused or a        *)
(* pending hold, so that two holds an earlier race left on one car are     *)
(* among them.                                                             *)
(***************************************************************************)
EXTENDS Reservations, TLC

CONSTANTS v1, v2, h1, h2, h3

TwoCars == (h1 :> v1) @@ (h2 :> v1) @@ (h3 :> v2)
OneCar == (h1 :> v1) @@ (h2 :> v1)

StartsWith(stage) ==
    /\ Init
    /\ \A v \in Vehicles : availability[v] \in {"available", "reserved"}
    /\ \A h \in Holds :
          /\ status[h] \in {"none", "pending"} /\ ~lapsed[h]
          /\ lead[h] = IF status[h] = "none" THEN "none" ELSE stage

MCInit == StartsWith("open")

MCSpec == MCInit /\ [][Next]_vars /\ Fairness

(* Handlers overlap, but never with one car in hand.  Two reservations are *)
(* there from before, without a lead (reservations.lead_id may be NULL).   *)
ApartInit == StartsWith("none") /\ status[h2] = "pending" /\ status[h3] = "pending"

ApartSpec == ApartInit /\ [][Next]_vars

(* The steps that run takes: those the theorems are about.                 *)
Apart == CarsApart' /\ LoadedHoldsStay /\ NobodyResubscribes

(* One handler is as good as another: sound for the safety properties.     *)
Alike == Permutations(Workers)

=============================================================================

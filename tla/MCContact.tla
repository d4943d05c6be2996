------------------------------ MODULE MCContact -------------------------------
(***************************************************************************)
(* A small instance of Contact for TLC: two support tickets opened at      *)
(* once, one of which is talked on, watched by its customer and by an      *)
(* agent; two customers, two phones, two accounts with two addresses, one  *)
(* of which may be typed in capitals; one notice of one category.          *)
(***************************************************************************)
EXTENDS Contact, TLC

CONSTANTS t1, t2, m1, m2, app, console, w1, w2, c1, c2, p1, p2, a1, a2, A2, n1

Sides == [c \in Clients |-> IF c = app THEN "customer" ELSE "staff"]
AllWatchOne == [c \in Clients |-> t1]

InSmallLetters == (a1 :> a1) @@ (a2 :> a2) @@ (A2 :> a2)

(* An event that is forced, and one that is not.                           *)
TwoEvents == {[category |-> "service", channels |-> {"push", "email"}, force |-> f] : f \in BOOLEAN}
Cell(c) == <<"service", c>>
ThreeScreens == {Cell("push") :> "on", Cell("push") :> "off",
                 (Cell("push") :> "off") @@ (Cell("email") :> "off")}

--------------------------------------------------------------------------------
(* Bounds *)

(* Only one of the customers ever has a dead token. *)
MCInit == ContactInit /\ dead \subseteq {c1}
MCSpec == MCInit /\ [][ContactNext]_contactVars

(* Two tickets opened at once; what a customer says on one of them, and    *)
(* how its status moves, with a REST handler beside the event loop; and a  *)
(* customer and an agent who both watch it while its status is left to     *)
(* their messages: each is explored apart from the others.                 *)
Opening == \A h \in Handlers : txn[h].op \in {"none", "begun", "open"}
JustOpened == Opening /\ room = {} /\ read = {} /\ status[t1] = "open"
OneAtATime ==
    \/ t2 \notin Opened /\ \E w \in Workers : txn[w] = NoTxn
    \/ JustOpened
AgentWatches == console \in room \/ held[console] # {}
BothWatch ==
    AgentWatches => /\ status[t1] \in {"open", "in_progress"} /\ dated = {} /\ read = {}
                    /\ \A h \in Handlers : txn[h].op \notin {"update", "resolve"}

(* A campaign and those who want it, or a recall and the owners. *)
OneSubject ==
    \/ owners = {}
    \/ wants = {} /\ campaign = "draft" /\ \A w \in Workers : sendTxn[w].op # "campaign"

(* The address in capitals, with nobody else about. *)
OneSpelling ==
    \A c \in {c1, c2} : email[c] = A2 => \A d \in {c1, c2} \ {c} : email[d] \in {NoOne, a2}

(* One preference at a time once the notice has ended. *)
AfterNotice ==
    event[n1] # {} /\ Notice!InFlight(n1) = {} => \E w \in Workers : Notice!Idle(w)

Bounded == OneAtATime /\ BothWatch /\ OneSubject /\ OneSpelling /\ AfterNotice

Interchangeable == Permutations(Workers) \cup Permutations(Msgs)

=============================================================================

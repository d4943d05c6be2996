----------------------------- MODULE MCBackOffice -----------------------------
(***************************************************************************)
(* A small instance of BackOffice for TLC: three sockets, a stream and a   *)
(* request over two connections; one lead; two customers with two requests *)
(* for one vehicle; a price book, two intervals and a vehicle; two cars    *)
(* with two VINs and three images.  Two handlers at once in each.          *)
(***************************************************************************)
EXTENDS BackOffice, TLC

CONSTANTS w1, w2, s1, s2, s3, e1, c1, c2, p1, p2, k1, k2, A, B

Term(k, km, days) == [kind |-> k, km |-> km, days |-> days]
AllTerms == {Term("scheduled", 1, 0), Term("scheduled", 0, 1), Term("scheduled", 1, 1),
             Term("inspection", 1, 0), Term("condition", 0, 0)}
ThreePriceFiles == {<<"oil">>, <<"oil", "oil">>, <<"bad">>}
ThreeSheets == {<<A, "bad", B>>, <<B, A>>, <<A>>}

--------------------------------------------------------------------------------
(* Bounds *)

(* Of a garage that no two handlers have had at once; one detail at a time *)
(* (a pair to merge, a claim, a worn vehicle, a second or a lapsed         *)
(* certificate), and only with a single request; a request that waits for  *)
(* documents, and the first merge beside another handler, with a single    *)
(* request, too; a merge is the second worker's, unless both merge; and    *)
(* the first request is made by one of the two customers.                  *)
Details ==
    {d \in {"pair", "claim", "far", "cert"} :
        CASE d = "pair"  -> pair # "none"
          [] d = "claim" -> claims # {}
          [] d = "far"   -> \E v \in vehicles : v.far
          [] d = "cert"  -> \E c \in certs : c.lapsed \/ c.no > 1}
TwoRequests == \A p \in {p1, p2} : request[p] # Garage!NoRequest
Merging == \E w \in {w1, w2} : garageTxn[w].op = "merge"
FewDetails ==
    /\ garageRaced = {} /\ Cardinality(Details) <= 1
    /\ request[p1].by = c2 => merged[c1] = c2
    /\ Details # {} => ~TwoRequests
    /\ TwoRequests => \A p \in {p1, p2} : request[p].status # "pending_documents"
    /\ (TwoRequests \/ joined # {}) /\ Merging => \E w \in {w1, w2} : garageTxn[w] = Garage!NoTxn
    /\ garageTxn[w1].op = "merge" => garageTxn[w2].op = "merge"

(* Prices, or intervals and settings, or a vehicle under them; two         *)
(* sessions that insert an interval insert the same one; two intervals     *)
(* with a single visit on the first day.                                   *)
Inserting(op) == \E w \in {w1, w2} : planTxn[w].op = op
Pricing == versions # <<>> \/ Inserting("publish")
Driven == visits # {} \/ odometer # 0 \/ today # 0
Alike ==
    /\ \A i \in DOMAIN rules : rules[i].on /\ rules[i].km = 1
    /\ \A r \in planTxn[w1].rule, q \in planTxn[w2].rule : r = q
TwoRules == Len(rules) > 1 \/ \E i \in DOMAIN rules : ~rules[i].on \/ rules[i].model = "own"
OneConcern ==
    /\ Pricing => rules = <<>> /\ ~Driven /\ ~Inserting("rule")
    /\ Inserting("rule") => ~Driven /\ margin = 1 /\ Alike
    /\ Len(rules) > 1 => rules[1].km = 1 /\ rules[1].days = 0 /\ margin = 1
    /\ Driven => catalogued /\ rules # <<>>
    /\ Driven /\ ~TwoRules => margin = 0
    /\ Driven /\ TwoRules =>
          /\ margin = 1 /\ today = 0 /\ odometer = 0
          /\ Cardinality(visits) <= 1 /\ \A v \in visits : v.at = 0 /\ v.km = 0

(* Of a lead that is older than its events: an enquiry stands for what has *)
(* no booking, one open stage for those agents use, and its booking has    *)
(* not been confirmed or paid; then two moves.  Of one opened in the run:  *)
(* what comes after a quotation or a trade-in is as after an enquiry, only *)
(* that goes through every stage, a reservation stops a clock tick before  *)
(* the rest, and none is looked at further once two handlers raced for it. *)
FewLeads ==
    \A l \in Leads :
        /\ kind[l] \in {"quotation", "trade_in"} => opened[l] # 0 /\ status[l] = "new"
        /\ status[l] \notin {"proposal", "negotiation"}
        /\ opened[l] = 0 /\ status[l] # "absent" =>
              /\ now <= 4
              /\ events[l] = {} => status[l] # "qualified"
              /\ booking[l] \notin {"confirmed", "deposit_paid"}
        /\ opened[l] # 0 => l \notin leadRaced
        /\ kind[l] = "test_drive" => status[l] # "qualified"
        /\ kind[l] = "reservation" => now <= 5

(* Three images at most were ever ordered; and a gallery is looked at with *)
(* one car, created alone, the sheets apart.                               *)
HasGallery == images # {} \/ stored # {} \/ \E w \in {w1, w2} : showTxn[w].on # {}
OneGallery ==
    /\ \A i \in images : i.order <= 2
    /\ HasGallery => /\ showRaced = {}
                     /\ \A w \in {w1, w2} : showTxn[w].sheet = <<>>
                     /\ vin[k2] = NoOne

Bounded == FewLeads /\ FewDetails /\ OneConcern /\ OneGallery

--------------------------------------------------------------------------------
(* Properties *)

(* database.py: every pooled connection that is taken comes back; one of   *)
(* each kind of user stands for those like it.                             *)
OneOfEachComesBack == \A u \in {w1, s1, e1} : ComesBack(u)

=============================================================================

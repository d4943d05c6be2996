------------------------------ MODULE BackOffice -------------------------------
(***************************************************************************)
(* Five parts of the back office as one system: the connection pool, the   *)
(* leads, the garages of customers, the service board and the inventory.   *)
(* They share no rows that matter to one another: `part` is chosen once    *)
(* and only that part takes steps; what each does is in its own module.    *)
(***************************************************************************)
EXTENDS Gateway, Sequences

CONSTANTS
    Parts,                                               \* those that may take steps
    Threads,                                             \* handlers at work at once, outside the pool
    NoOne,                                               \* no customer, no vehicle
    Leads, Stages, Transactions,                         \* Pipeline
    Customers, Papers, GarageVins, Labels, Certs,        \* Garage
    PriceFiles, Versions, Rules, Visits, Terms, Margins, Far, Days,  \* CarePlan
    Cars, Vins, ImageFiles, Sheets                       \* Showroom

ASSUME LeadsAssumption ==
    /\ Transactions \in Nat \ {0}
    /\ Stages \subseteq {"new", "contacted", "qualified", "proposal", "negotiation"}
ASSUME GarageAssumption ==
    /\ NoOne \notin Customers /\ Certs \in Nat \ {0}
    /\ \A p \in Papers, w \in Threads : <<p, w>> \notin Papers
    /\ Labels \subseteq {"pending", "pending_documents", "under_review", "approved", "rejected"}
ASSUME PlanAssumption ==
    /\ Versions \in Nat /\ Far \in Nat /\ Days \in Nat /\ Margins \subseteq Nat
    /\ Terms \subseteq [kind : {"scheduled", "inspection", "condition"}, km : Nat, days : Nat]
ASSUME ShowroomAssumption ==
    /\ NoOne \notin Vins \cup {"bad"} /\ "bad" \notin Vins
    /\ IsFiniteSet(ImageFiles)
    /\ \A sheet \in Sheets : sheet \in Seq(Vins \cup {"bad"})

VARIABLES part
VARIABLES status, kind, booking, opened, events, closedAt, now, leadTxn, leadRaced, overtaken
VARIABLES merged, request, vehicles, certs, claims, pair, garageTxn, garageRaced, joined
VARIABLES versions, catalogued, rules, margin, visits, odometer, today, planTxn
VARIABLES vin, deleted, images, stored, showTxn, freed, showRaced

lead == <<status, kind, booking, opened, events, closedAt, now, leadTxn, leadRaced, overtaken>>
garage == <<merged, request, vehicles, certs, claims, pair, garageTxn, garageRaced, joined>>
plan == <<versions, catalogued, rules, margin, visits, odometer, today, planTxn>>
show == <<vin, deleted, images, stored, showTxn, freed, showRaced>>

Lead == INSTANCE Pipeline WITH
    Workers <- Threads, Horizon <- Transactions, txn <- leadTxn, raced <- leadRaced
Garage == INSTANCE Garage WITH
    Workers <- Threads, Vins <- GarageVins, txn <- garageTxn, raced <- garageRaced
Plan == INSTANCE CarePlan WITH
    Workers <- Threads, Files <- PriceFiles, Horizon <- Days, txn <- planTxn
Show == INSTANCE Showroom WITH
    Workers <- Threads, Files <- ImageFiles, NoVin <- NoOne, txn <- showTxn, raced <- showRaced

(* What the parts that take no steps begin with makes no difference.       *)
BackOfficeInit ==
    /\ part \in Parts
    /\ Init /\ Lead!Init /\ Garage!Init /\ Plan!Init /\ Show!Init
    /\ part # "lead" => \A l \in Leads : status[l] = "absent"
    /\ part # "plan" => \A m \in Margins : margin <= m

BackOfficeNext ==
    \/ part = "pool" /\ Next /\ UNCHANGED <<part, lead, garage, plan, show>>
    \/ part = "lead" /\ Lead!Next /\ UNCHANGED <<part, vars, garage, plan, show>>
    \/ part = "garage" /\ Garage!Next /\ UNCHANGED <<part, vars, lead, plan, show>>
    \/ part = "plan" /\ Plan!Next /\ UNCHANGED <<part, vars, lead, garage, show>>
    \/ part = "show" /\ Show!Next /\ UNCHANGED <<part, vars, lead, garage, plan>>

backOfficeVars == <<part, vars, lead, garage, plan, show>>

BackOfficeSpec == BackOfficeInit /\ [][BackOfficeNext]_backOfficeVars /\ Fairness

--------------------------------------------------------------------------------
(* Properties: those of the parts, under their names there. *)

(* Every part keeps its types. *)
BackOfficeTypeOK ==
    /\ TypeOK
    /\ Lead!TypeOK /\ Garage!TypeOK /\ Plan!TypeOK /\ Show!TypeOK

(* sales/service.py: a lead whose booking is over is closed. *)
BookingAndLeadAgree == Lead!BookingAndLeadAgree

(* leads/tracking.py: a customer's history ends where the lead stands. *)
HistoryEndsAtStage == Lead!HistoryEndsAtStage

(* ownership/service.py: one garage for a vehicle, one primary vehicle. *)
GarageSound == Garage!GarageSound

(* customers/service.py: a merge moves everything. *)
NothingLeftBehind == Garage!NothingLeftBehind

(* price_book_service.py: the board shows the last version published. *)
BoardIsCurrent == Plan!BoardIsCurrent

(* status.py: a vehicle that is due stays on the call list until served. *)
DueUntilServed == Plan!DueUntilServed

(* inventory/service.py: every image has its file, one of them comes first. *)
GallerySound == Show!GallerySound

(* inventory/service.py: "one bad row never aborts the batch". *)
ImportLeavesNoneOut == Show!ImportLeavesNoneOut

=============================================================================

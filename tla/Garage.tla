-------------------------------- MODULE Garage --------------------------------
(***************************************************************************)
(* A customer's garage: ownership requests and their review, the vehicles, *)
(* warranty certificates and claims that come of them, and the merge of    *)
(* two customers, which moves all of these to one account.                 *)
(*                                                                         *)
(* A handler reads its rows, decides, and writes at its commit; a status   *)
(* is written blindly, by id.  A merge updates one table after another,    *)
(* and locks the rows it moves until it ends.                              *)
(***************************************************************************)
EXTENDS Naturals, Sequences, FiniteSets

CONSTANTS
    Workers,    \* request threads at work at once
    Customers,
    Papers,     \* ownership requests ever made (a bound)
    Vins,
    Labels,     \* statuses reviewers give (a bound)
    Certs,      \* certificates of one vehicle (a bound)
    NoOne       \* not a customer

VARIABLES
    merged,    \* preferences.merged_into; a merged account is inactive
    request,   \* vehicle_ownership_requests
    vehicles,  \* owned_vehicles, each named by its request and its reviewer
    certs,     \* warranty_certificates
    claims,    \* warranty_claims
    pair,      \* customer_duplicate_reviews: the one of the two customers
    txn,       \* the session of each worker
    raced,     \* customers, requests and VINs two handlers had at once (ghost)
    joined     \* accounts others were merged into (ghost)

rows == <<merged, request, vehicles, certs, claims, pair>>
vars == <<rows, txn, raced, joined>>

RequestStatus == {"pending", "pending_documents", "under_review", "approved", "rejected"}
ActiveRequest == {"pending", "pending_documents", "under_review"}
Decided == {"approved", "rejected"}
ClaimStatus == {"open", "resolved"}

NoRequest == [by |-> NoOne, vin |-> NoOne, status |-> "absent"]
Request == [by : Customers, vin : Vins, status : RequestStatus] \cup {NoRequest}
VehicleId == Papers \X Workers
Vehicle == [id : VehicleId, owner : Customers, primary : BOOLEAN, far : BOOLEAN]
Cert == [of : VehicleId, owner : Customers, no : 1 .. Certs, lapsed : BOOLEAN]
Claim == [of : VehicleId, owner : Customers, status : ClaimStatus]

(* merge_customers: the tables, in the order of its UPDATEs.               *)
MergeOrder == <<"vehicles", "certs", "claims", "requests">>
Tables == {"vehicles", "certs", "claims", "requests"}

NoTxn == [op |-> "idle", by |-> NoOne, on |-> NoOne, read |-> "none", to |-> "none",
          primary |-> FALSE, moved |-> 0, held |-> [t \in Tables |-> {}]]
Session(op, by, on) == [NoTxn EXCEPT !.op = op, !.by = by, !.on = on]

TypeOK ==
    /\ merged \in [Customers -> Customers \cup {NoOne}]
    /\ request \in [Papers -> Request]
    /\ vehicles \subseteq Vehicle
    /\ certs \subseteq Cert
    /\ claims \subseteq Claim
    /\ pair \in {"none", "pending", "confirmed", "dismissed", "merged"}
    /\ \A w \in Workers : DOMAIN txn[w] = DOMAIN NoTxn
    /\ raced \subseteq Customers \cup Papers \cup Vins
    /\ joined \subseteq Customers

Init ==
    /\ merged = [c \in Customers |-> NoOne]
    /\ request = [p \in Papers |-> NoRequest]
    /\ vehicles = {} /\ certs = {} /\ claims = {}
    /\ pair = "none"
    /\ txn = [w \in Workers |-> NoTxn]
    /\ raced = {} /\ joined = {}

Active(c) == merged[c] = NoOne
Idle(w) == txn[w].op = "idle"
VinOf(v) == request[v.id[1]].vin
OfVin(x) == {v \in vehicles : VinOf(v) = x}
HasPrimary(c) == \E v \in vehicles : v.owner = c /\ v.primary

Begin(w, x) ==
    /\ Idle(w)
    /\ txn' = [txn EXCEPT ![w] = x]
    /\ UNCHANGED <<rows, raced, joined>>

(* Everything a handler has in memory: what another commit can overtake.   *)
Holds(x) ==
    {x.by, x.on, x.to} \cup (IF x.on \in Papers THEN {request[x.on].vin} ELSE {})

End(w) ==
    /\ txn' = [txn EXCEPT ![w] = NoTxn]
    /\ raced' = raced \cup
         {i \in Holds(txn[w]) \cap (Customers \cup Papers \cup Vins) :
             \E u \in Workers \ {w} : ~Idle(u) /\ i \in Holds(txn[u])}

(* The rows a merge has updated wait for its end. *)
Locked(w, t, i) == \E u \in Workers \ {w} : i \in txn[u].held[t]

--------------------------------------------------------------------------------
(* Ownership requests *)

(* lookup_vin: nobody has the vehicle, and no request of this customer for *)
(* it is open.  Two rows of one VIN make the query fail.                   *)
MaySubmit(c, x) ==
    /\ OfVin(x) = {}
    /\ \A p \in Papers : request[p].by = c /\ request[p].vin = x
                            => request[p].status \notin ActiveRequest

SubmitRead(w, c, x) ==
    /\ Active(c) /\ MaySubmit(c, x)
    /\ Begin(w, [Session("submit", c, x) EXCEPT !.read = "clear"])

SubmitCommit(w) ==
    LET x == txn[w]
        New == CHOOSE p \in Papers : request[p] = NoRequest
    IN /\ x.op = "submit"
       /\ \E p \in Papers : request[p] = NoRequest
       /\ request' = [request EXCEPT ![New] = [by |-> x.by, vin |-> x.on, status |-> "pending"]]
       /\ End(w)
       /\ UNCHANGED <<merged, vehicles, certs, claims, pair, joined>>

(* append_documents: only while the request is waiting for its customer.   *)
AppendRead(w, p) ==
    /\ request[p].status \in {"pending", "pending_documents"}
    /\ Active(request[p].by)
    /\ Begin(w, [Session("append", request[p].by, p) EXCEPT
                   !.read = request[p].status, !.to = "pending"])

(* update_request_admin: a request is approved once; any other status is   *)
(* taken at any time.                                                      *)
ReviewRead(w, p, to) ==
    /\ request[p] # NoRequest
    /\ to = "approved" => request[p].status # "approved"
    /\ Begin(w, [Session(IF to = "approved" THEN "approve" ELSE "review", request[p].by, p)
                   EXCEPT !.read = request[p].status, !.to = to])

Continue(w, x) ==
    /\ txn' = [txn EXCEPT ![w] = x]
    /\ UNCHANGED <<rows, raced, joined>>

(* Mutant: an approval looks at its own request only. *)
OwnedUnchecked(w) ==
    /\ txn[w].op = "approve"
    /\ Continue(w, [txn[w] EXCEPT !.op = "clear"])

(* A vehicle that is somebody's is not given to another. *)
OwnedCheck(w) ==
    /\ txn[w].op = "approve" /\ OfVin(request[txn[w].on].vin) = {}
    /\ Continue(w, [txn[w] EXCEPT !.op = "clear"])

(* _create_owned_vehicle: the first vehicle of a customer is the primary.  *)
PrimaryCheck(w) ==
    /\ txn[w].op = "clear"
    /\ Continue(w, [txn[w] EXCEPT !.op = "review", !.primary = ~HasPrimary(txn[w].by)])

(* _create_owned_vehicle and issue_standard_certificate *)
Deliver(w, x) ==
    IF x.op = "review" /\ x.to = "approved"
    THEN /\ vehicles' = vehicles \cup {[id |-> <<x.on, w>>, owner |-> x.by,
                                        primary |-> x.primary, far |-> FALSE]}
         /\ certs' = certs \cup {[of |-> <<x.on, w>>, owner |-> x.by, no |-> 1, lapsed |-> FALSE]}
    ELSE UNCHANGED <<vehicles, certs>>

(* The commit of either: a status that is the one read is not written.     *)
DecisionCommit(w) ==
    LET x == txn[w]
    IN /\ x.op \in {"append", "review"}
       /\ ~Locked(w, "requests", x.on)
       /\ request' = IF x.to = x.read THEN request ELSE [request EXCEPT ![x.on].status = x.to]
       /\ Deliver(w, x)
       /\ End(w)
       /\ UNCHANGED <<merged, claims, pair, joined>>

--------------------------------------------------------------------------------
(* Warranty *)

CertsOf(i) == {c \in certs : c.of = i}

(* _active_certificate, warranty_decision: the newest certificate decides. *)
Covered(i, far) ==
    /\ ~far
    /\ \E c \in CertsOf(i) : ~c.lapsed /\ \A d \in CertsOf(i) : d.no <= c.no

(* create_certificate: one more, for whoever owns the vehicle when read.   *)
CertificateRead(w, v) ==
    /\ Cardinality(CertsOf(v.id)) < Certs
    /\ Begin(w, Session("issue", v.owner, v.id))

(* submit_customer_claim: the odometer reading the customer gives, or else *)
(* the one on record, decides, and a reading that differs is kept.         *)
ClaimRead(w, v, odometer) ==
    /\ Active(v.owner)
    /\ \A k \in claims : k.of # v.id
    /\ Covered(v.id, IF odometer = "same" THEN v.far ELSE odometer = "far")
    /\ Begin(w, [Session("claim", v.owner, v.id) EXCEPT !.read = odometer])

(* An INSERT goes through while a merge has the vehicle, an UPDATE waits.  *)
IssueCommit(w) ==
    LET x == txn[w]
        no == Cardinality(CertsOf(x.on)) + 1
    IN /\ x.op = "issue" /\ no <= Certs
       /\ certs' = certs \cup {[of |-> x.on, owner |-> x.by, no |-> no, lapsed |-> FALSE]}
       /\ End(w)
       /\ UNCHANGED <<merged, request, vehicles, claims, pair, joined>>

ClaimCommit(w) ==
    LET x == txn[w]
    IN /\ x.op = "claim" /\ (x.read = "near" => ~Locked(w, "vehicles", x.on))
       /\ claims' = claims \cup {[of |-> x.on, owner |-> x.by, status |-> "open"]}
       /\ vehicles' = {IF v.id = x.on /\ x.read = "near" THEN [v EXCEPT !.far = FALSE] ELSE v :
                          v \in vehicles}
       /\ End(w)
       /\ UNCHANGED <<merged, request, certs, pair, joined>>

(* update_claim *)
DecideClaim(w, k, to) ==
    /\ Idle(w) /\ ~Locked(w, "claims", k.of)
    /\ claims' = (claims \ {k}) \cup {[k EXCEPT !.status = to]}
    /\ UNCHANGED <<merged, request, vehicles, certs, pair, txn, raced, joined>>

(* The term of a certificate ends, a vehicle is driven past the limit.     *)
Wear ==
    /\ \/ /\ \E c \in certs : certs' = (certs \ {c}) \cup {[c EXCEPT !.lapsed = TRUE]}
          /\ UNCHANGED vehicles
       \/ /\ \E v \in vehicles : vehicles' = (vehicles \ {v}) \cup {[v EXCEPT !.far = TRUE]}
          /\ UNCHANGED certs
    /\ UNCHANGED <<merged, request, claims, pair, txn, raced, joined>>

--------------------------------------------------------------------------------
(* Duplicates *)

(* detect_duplicate_customers runs on every listing. *)
Detect(w) ==
    /\ Idle(w) /\ pair = "none"
    /\ pair' = "pending"
    /\ UNCHANGED <<merged, request, vehicles, certs, claims, txn, raced, joined>>

(* review_duplicate_customer: any label but merged, over any other.        *)
LabelPair(w, to) ==
    /\ Idle(w) /\ pair # "none"
    /\ pair' = to
    /\ UNCHANGED <<merged, request, vehicles, certs, claims, txn, raced, joined>>

(* merge_customers: neither account need be active. *)
MergeRead(w, c, d) ==
    /\ c # d
    /\ Begin(w, [Session("merge", c, c) EXCEPT !.to = d])

(* What a customer has in a table. *)
RowsOf(t, c) ==
    CASE t = "vehicles" -> {v.id : v \in {u \in vehicles : u.owner = c}}
      [] t = "certs"    -> {<<k.of, k.no>> : k \in {j \in certs : j.owner = c}}
      [] t = "claims"   -> {k.of : k \in {j \in claims : j.owner = c}}
      [] t = "requests" -> {p \in Papers : request[p].by = c}

(* The UPDATE of one table waits for those who have its rows.              *)
MergeMove(w) ==
    LET next == txn[w].moved + 1
        t == MergeOrder[next]
        c == txn[w].by
    IN /\ txn[w].op = "merge" /\ next \in DOMAIN MergeOrder
       /\ \A i \in RowsOf(t, c) : ~Locked(w, t, i)
       /\ Continue(w, [txn[w] EXCEPT !.moved = next, !.held[t] = RowsOf(t, c)])

(* Mutant: certificates and claims stay where they are. *)
MovedVehiclesOnly(x, r) == IF r.owner = x.by /\ "far" \in DOMAIN r THEN [r EXCEPT !.owner = x.to] ELSE r

Moved(x, r) == IF r.owner = x.by THEN [r EXCEPT !.owner = x.to] ELSE r

MergeCommit(w) ==
    LET x == txn[w]
    IN /\ x.op = "merge" /\ x.moved = Len(MergeOrder)
       /\ request' = [p \in Papers |->
             IF p \in x.held["requests"] THEN [request[p] EXCEPT !.by = x.to] ELSE request[p]]
       /\ vehicles' = {IF v.id \in x.held["vehicles"] THEN Moved(x, v) ELSE v : v \in vehicles}
       /\ certs' = {IF <<k.of, k.no>> \in x.held["certs"] THEN Moved(x, k) ELSE k : k \in certs}
       /\ claims' = {IF k.of \in x.held["claims"] THEN Moved(x, k) ELSE k : k \in claims}
       /\ merged' = [merged EXCEPT ![x.by] = x.to]
       /\ pair' = IF pair = "none" THEN pair ELSE "merged"
       /\ joined' = joined \cup {x.to}
       /\ End(w)

Abort(w) ==
    /\ ~Idle(w)
    /\ txn' = [txn EXCEPT ![w] = NoTxn]
    /\ UNCHANGED <<rows, raced, joined>>

Ownership(w) ==
    \/ \E c \in Customers, x \in Vins : SubmitRead(w, c, x)
    \/ \E p \in Papers : AppendRead(w, p)
    \/ \E p \in Papers, to \in Labels : ReviewRead(w, p, to)
    \/ OwnedCheck(w) \/ PrimaryCheck(w)
    \/ SubmitCommit(w) \/ DecisionCommit(w)

Warranty(w) ==
    \/ \E v \in vehicles : CertificateRead(w, v)
    \/ \E v \in vehicles, o \in {"same", "near", "far"} : ClaimRead(w, v, o)
    \/ \E k \in claims, to \in ClaimStatus : DecideClaim(w, k, to)
    \/ IssueCommit(w) \/ ClaimCommit(w)

Accounts(w) ==
    \/ Detect(w)
    \/ \E to \in {"confirmed", "dismissed"} : LabelPair(w, to)
    \/ \E c, d \in Customers : MergeRead(w, c, d)
    \/ MergeMove(w) \/ MergeCommit(w)

Next == Wear \/ \E w \in Workers : Ownership(w) \/ Warranty(w) \/ Accounts(w) \/ Abort(w)

Spec == Init /\ [][Next]_vars

--------------------------------------------------------------------------------
(* Properties *)

(* A vehicle is in one garage, once, and a customer has one primary        *)
(* vehicle, however many requests, reviews and merges there were; two      *)
(* reviews of one VIN at once are the exception to the first (the table    *)
(* has no unique VIN), and a merge into an account to the second.          *)
GarageSound ==
    \A v, u \in vehicles : v # u =>
        /\ VinOf(v) = VinOf(u) => VinOf(v) \in raced
        /\ v.owner = u.owner /\ v.primary /\ u.primary => v.owner \in raced \cup joined

(* merge_customers: "Move all customer-owned records to target in one      *)
(* transaction."  The account that was merged keeps nothing, unless a      *)
(* handler had it in memory, or somebody was merged into it in turn.       *)
NothingLeftBehind ==
    \A c \in Customers : ~Active(c) /\ c \notin raced \cup joined =>
        \A t \in Tables : RowsOf(t, c) = {}

=============================================================================

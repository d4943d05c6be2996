---------------------------- MODULE Reservations ----------------------------
(***************************************************************************)
(* Vehicle holds: the customer's reserve and cancel endpoints, the expiry  *)
(* sweep, the desk's availability change and the Notify Me subscriptions   *)
(* every availability change goes through.                                 *)
(*                                                                         *)
(* A worker is one request thread of the API process or one run of the     *)
(* cron job.  A handler is split where another worker's commit can fall    *)
(* between its statements: PostgreSQL runs READ COMMITTED, no query takes  *)
(* FOR UPDATE, and the session does not autoflush, so what a handler read  *)
(* stays in memory while the rows move on.  An ORM update is blind: it     *)
(* writes the changed columns WHERE id = ..., whatever the row now holds.  *)
(* txn[w] is what worker w's session carries between two of its steps.     *)
(***************************************************************************)
EXTENDS Naturals, FiniteSets

CONSTANTS
    Vehicles,      \* vehicle rows
    Holds,         \* reservation ids that may ever be used (a bound)
    CarOf,         \* the vehicle each of those ids is, or would be, a hold on
    Workers,       \* request threads and job processes that run at once
    PushEnabled,   \* settings.push_enabled: the Expo transport, else the mock
    Watched,       \* vehicles a customer asks Notify Me about (a bound)
    DeskChoices,   \* availabilities staff pick (a bound)
    LeadCloses,    \* outcomes staff close a lead with (a bound)
    Payments,      \* what the branch records as paid (a bound)
    SweepRuns      \* how the job is started: "sweep", or "dry" for --dry-run

ASSUME CarOfAssumption == CarOf \in [Holds -> Vehicles]
ASSUME BoundsAssumption ==
    /\ Watched \subseteq Vehicles
    /\ DeskChoices \subseteq {"available", "reserved", "sold", "transferred"}
    /\ LeadCloses \subseteq {"won", "lost"}
    /\ Payments \subseteq {"deposit_paid", "confirmed"}
    /\ SweepRuns \subseteq {"sweep", "dry"}
ASSUME PushAssumption == PushEnabled \in BOOLEAN

VARIABLES
    availability,  \* vehicles.availability
    status,        \* reservations.status, "none" before the row exists
    lapsed,        \* reservations.expires_at <= now
    lead,          \* stage of the lead the reservation opened
    sub,           \* one Notify Me subscriber per vehicle
    alerted,       \* the subscriber was reached since subscribing (ghost)
    pc,            \* where each worker stands in its handler
    txn            \* each worker's session: what it read, what it will write

db == <<availability, status, lapsed, lead, sub>>
vars == <<availability, status, lapsed, lead, sub, alerted, pc, txn>>

Availability == {"available", "reserved", "sold", "transferred"}
Active == {"pending", "deposit_paid", "confirmed"}
Ended == {"cancelled", "expired"}
HoldStatus == Active \cup Ended
Releasable == {"pending"}
CustomerCancellable == {"pending"}
SweepOps == {"sweep", "dry"}   \* with and without --dry-run
LeadStage == {"none", "open", "won", "lost"}

(* A session: the reservation rows it writes and the status it gives them, *)
(* the vehicles it has still to deal with, the availability it read, those *)
(* it changed and to what, the subscriptions it will close, and whether    *)
(* the lead is to be marked lost.                                          *)
Txn == [op : {"none", "create", "cancel", "sweep", "dry", "status"},
        rows : SUBSET Holds, mark : HoldStatus, todo : SUBSET Vehicles,
        seen : Availability, dirty : SUBSET Vehicles, next : Availability,
        told : SUBSET Vehicles, lose : BOOLEAN]

NoTxn == [op |-> "none", rows |-> {}, mark |-> "pending", todo |-> {},
          seen |-> "available", dirty |-> {}, next |-> "available",
          told |-> {}, lose |-> FALSE]

TypeOK ==
    /\ availability \in [Vehicles -> Availability]
    /\ status \in [Holds -> HoldStatus \cup {"none"}]
    /\ lapsed \in [Holds -> BOOLEAN]
    /\ lead \in [Holds -> LeadStage]
    /\ sub \in [Vehicles -> {"off", "open", "notified"}]
    /\ alerted \in [Vehicles -> BOOLEAN]
    /\ pc \in [Workers -> {"idle", "check", "flush", "release", "commit"}]
    /\ txn \in [Workers -> Txn]

(* Any resting database: no handler is running.  Earlier races may have    *)
(* left two holds on one car, so nothing relates the tables.               *)
Init ==
    /\ availability \in [Vehicles -> Availability]
    /\ status \in [Holds -> HoldStatus \cup {"none"}]
    /\ lapsed \in [Holds -> BOOLEAN]
    /\ lead \in [Holds -> LeadStage]
    /\ sub = [v \in Vehicles |-> "off"]
    /\ alerted = [v \in Vehicles |-> FALSE]
    /\ pc = [w \in Workers |-> "idle"]
    /\ txn = [w \in Workers |-> NoTxn]

HoldsOn(v) == {h \in Holds : CarOf[h] = v}
ActiveOn(v) == {h \in HoldsOn(v) : status[h] \in Active}
Held(v) == ActiveOn(v) # {}

Idle(w) == pc[w] = "idle"

(* A reservation row is locked from the flush that updates it to the end   *)
(* of that transaction.                                                    *)
Flushed(w) ==
    IF pc[w] \in {"release", "commit"} /\ txn[w].op \in {"cancel"} \cup SweepOps
    THEN txn[w].rows ELSE {}
LockedByOther(w, h) == \E u \in Workers \ {w} : h \in Flushed(u)

(* An id a session has drawn for a row it has not inserted yet.            *)
Drawn(h) == \E w \in Workers : txn[w].op = "create" /\ h \in txn[w].rows

--------------------------------------------------------------------------------
(* What a commit makes of the tables, given the session x.                 *)

StatusAfter(x) == [h \in Holds |-> IF h \in x.rows THEN x.mark ELSE status[h]]

(* Mutant: marks the lead with the reservation's own status. *)
LeadAfterMarked(x) ==
    [h \in Holds |-> CASE h \in x.rows /\ x.op = "create" -> "open"
                       [] h \in x.rows /\ x.lose -> x.mark
                       [] OTHER -> lead[h]]

LeadAfter(x) ==
    [h \in Holds |-> CASE h \in x.rows /\ x.op = "create" -> "open"
                       [] h \in x.rows /\ x.lose -> "lost"
                       [] OTHER -> lead[h]]

(* Mutant: closes the subscription of every car it changes, told or not. *)
PersistClosingAll(x) ==
    /\ status' = StatusAfter(x)
    /\ lead' = LeadAfter(x)
    /\ lapsed' = [h \in Holds |->
                    IF h \in x.rows /\ x.op = "create" THEN FALSE ELSE lapsed[h]]
    /\ availability' = [v \in Vehicles |->
                          IF v \in x.dirty THEN x.next ELSE availability[v]]
    /\ sub' = [v \in Vehicles |->
                 IF v \in x.dirty /\ sub[v] = "open" THEN "notified" ELSE sub[v]]

Persist(x) ==
    /\ status' = StatusAfter(x)
    /\ lead' = LeadAfter(x)
    /\ lapsed' = [h \in Holds |->
                    IF h \in x.rows /\ x.op = "create" THEN FALSE ELSE lapsed[h]]
    /\ availability' = [v \in Vehicles |->
                          IF v \in x.dirty THEN x.next ELSE availability[v]]
    /\ sub' = [v \in Vehicles |-> IF v \in x.told THEN "notified" ELSE sub[v]]

Goto(w, x, step) ==
    /\ pc' = [pc EXCEPT ![w] = step]
    /\ txn' = [txn EXCEPT ![w] = x]

Rollback(w) == Goto(w, NoTxn, "idle")

Commit(w, op) ==
    /\ pc[w] = "commit"
    /\ txn[w].op = op
    /\ Persist(txn[w])
    /\ Rollback(w)
    /\ UNCHANGED alerted

--------------------------------------------------------------------------------
(* set_availability.  The early return compares with the value in memory.  *)
(* Otherwise the subscriber is alerted on the spot, inside the caller's    *)
(* transaction:                                                            *)
(*   - reached: the subscription is closed when the caller commits;        *)
(*   - delivery raised, with (mail before push) or without anything sent:  *)
(*     a strict caller's transaction is lost, the others carry on;         *)
(*   - reached, and the provider reported a dead token: drop_tokens        *)
(*     commits the session, so all the caller wrote so far is durable.     *)

Alert(w, v, x, strict, step) ==
    \/ /\ Goto(w, [x EXCEPT !.told = @ \cup {v}], step)
       /\ alerted' = [alerted EXCEPT ![v] = TRUE]
       /\ UNCHANGED db
    \/ \E sent \in {FALSE, PushEnabled} :
          /\ IF strict THEN Rollback(w) ELSE Goto(w, x, step)
          /\ alerted' = [alerted EXCEPT ![v] = @ \/ sent]
          /\ UNCHANGED db
    \/ /\ PushEnabled
       /\ Persist(x)
       /\ Goto(w, [x EXCEPT !.rows = {}, !.dirty = {}, !.told = {v}], step)
       /\ alerted' = [alerted EXCEPT ![v] = TRUE]

SetAvailability(w, v, previous, x, strict, step) ==
    IF previous = x.next THEN Goto(w, x, step) /\ UNCHANGED <<db, alerted>>
    ELSE LET y == [x EXCEPT !.dirty = @ \cup {v}]
         IN IF sub[v] = "open" THEN Alert(w, v, y, strict, step)
            ELSE Goto(w, y, step) /\ UNCHANGED <<db, alerted>>

--------------------------------------------------------------------------------
(* create_reservation *)

(* Mutant: revives an earlier reservation row instead of inserting one. *)
CreateReadReviving(w, h) ==
    /\ Idle(w)
    /\ status[h] \in {"none", "cancelled", "expired"} /\ ~Drawn(h)
    /\ availability[CarOf[h]] \in {"available", "reserved"}
    /\ Goto(w, [NoTxn EXCEPT !.op = "create", !.rows = {h}, !.mark = "pending",
                             !.todo = {CarOf[h]}, !.next = "reserved",
                             !.seen = availability[CarOf[h]]], "check")
    /\ UNCHANGED <<db, alerted>>

CreateRead(w, h) ==
    /\ Idle(w)
    /\ status[h] = "none" /\ ~Drawn(h)
    /\ availability[CarOf[h]] \in {"available", "reserved"}
    /\ Goto(w, [NoTxn EXCEPT !.op = "create", !.rows = {h}, !.mark = "pending",
                             !.todo = {CarOf[h]}, !.next = "reserved",
                             !.seen = availability[CarOf[h]]], "check")
    /\ UNCHANGED <<db, alerted>>

(* The car is already held: 409.  Otherwise the session gains the lead and *)
(* the reservation, and the car goes through set_availability.             *)
CreateCheck(w) ==
    /\ pc[w] = "check"
    /\ \E v \in txn[w].todo :
          IF Held(v) THEN Rollback(w) /\ UNCHANGED <<db, alerted>>
          ELSE SetAvailability(w, v, txn[w].seen,
                               [txn[w] EXCEPT !.todo = {}], FALSE, "commit")

CreateCommit(w) == Commit(w, "create")

(* cancel_my_reservation *)

(* Loads the row, its vehicle and its lead; only a pending hold may go.    *)
CancelRead(w, h) ==
    /\ Idle(w)
    /\ status[h] \in CustomerCancellable
    /\ Goto(w, [NoTxn EXCEPT !.op = "cancel", !.rows = {h}, !.mark = "cancelled",
                             !.todo = {CarOf[h]},
                             !.seen = availability[CarOf[h]],
                             !.lose = lead[h] = "open"], "flush")
    /\ UNCHANGED <<db, alerted>>

(* Flushes the cancellation, asks whether the car is still held, and       *)
(* releases it only from `reserved`, as it was when it was loaded.         *)
CancelFlush(w) ==
    /\ pc[w] = "flush" /\ txn[w].op = "cancel"
    /\ \A h \in txn[w].rows : ~LockedByOther(w, h)
    /\ \E v \in txn[w].todo :
          LET x == [txn[w] EXCEPT !.todo = {}]
          IN IF ActiveOn(v) \ x.rows = {} /\ x.seen = "reserved"
             THEN SetAvailability(w, v, x.seen, x, FALSE, "commit")
             ELSE Goto(w, x, "commit") /\ UNCHANGED <<db, alerted>>

CancelCommit(w) == Commit(w, "cancel")

(* expire_due *)

(* Mutant: looks only at cars still marked reserved. *)
SweepReadReservedOnly(w, op) ==
    LET due == {h \in Holds : /\ status[h] \in Releasable /\ lapsed[h]
                              /\ availability[CarOf[h]] = "reserved"}
    IN /\ Idle(w)
       /\ due # {}
       /\ Goto(w, [NoTxn EXCEPT !.op = op, !.rows = due,
                                !.mark = "expired",
                                !.todo = {CarOf[h] : h \in due}], "flush")
       /\ UNCHANGED <<db, alerted>>

SweepRead(w, op) ==
    LET due == {h \in Holds : status[h] \in Releasable /\ lapsed[h]}
    IN /\ Idle(w)
       /\ due # {}
       /\ Goto(w, [NoTxn EXCEPT !.op = op, !.rows = due,
                                !.mark = "expired",
                                !.todo = {CarOf[h] : h \in due}], "flush")
       /\ UNCHANGED <<db, alerted>>

SweepFlush(w) ==
    /\ pc[w] = "flush" /\ txn[w].op \in SweepOps
    /\ \A h \in txn[w].rows : ~LockedByOther(w, h)
    /\ Goto(w, txn[w], "release")
    /\ UNCHANGED <<db, alerted>>

(* Mutants: releases without asking who else holds the car, or whether it *)
(* is still reserved.                                                     *)
SweepReleaseHeld(w, v) ==
    /\ pc[w] = "release"
    /\ v \in txn[w].todo
    /\ LET x == [txn[w] EXCEPT !.todo = @ \ {v}]
           step == IF x.todo = {} THEN "commit" ELSE "release"
       IN IF availability[v] = "reserved"
          THEN SetAvailability(w, v, availability[v], x, FALSE, step)
          ELSE Goto(w, x, step) /\ UNCHANGED <<db, alerted>>

SweepReleaseAny(w, v) ==
    /\ pc[w] = "release"
    /\ v \in txn[w].todo
    /\ LET x == [txn[w] EXCEPT !.todo = @ \ {v}]
           step == IF x.todo = {} THEN "commit" ELSE "release"
       IN IF ActiveOn(v) \ x.rows = {}
          THEN SetAvailability(w, v, availability[v], x, FALSE, step)
          ELSE Goto(w, x, step) /\ UNCHANGED <<db, alerted>>

SweepRelease(w, v) ==
    /\ pc[w] = "release"
    /\ v \in txn[w].todo
    /\ LET x == [txn[w] EXCEPT !.todo = @ \ {v}]
           step == IF x.todo = {} THEN "commit" ELSE "release"
       IN IF ActiveOn(v) \ x.rows = {} /\ availability[v] = "reserved"
          THEN SetAvailability(w, v, availability[v], x, FALSE, step)
          ELSE Goto(w, x, step) /\ UNCHANGED <<db, alerted>>

SweepCommit(w) == Commit(w, "sweep")

(* --dry-run ends in a rollback: alerts that went out stay out.            *)
SweepDryRun(w) ==
    /\ pc[w] = "commit" /\ txn[w].op = "dry"
    /\ Rollback(w)
    /\ UNCHANGED <<db, alerted>>

(* update_vehicle_status (strict), and the sale an ownership approval      *)
(* records (not strict).                                                   *)
StatusRead(w, v, next, strict) ==
    /\ Idle(w)
    /\ strict \/ next = "sold"
    /\ SetAvailability(w, v, availability[v],
                       [NoTxn EXCEPT !.op = "status", !.next = next],
                       strict, "commit")

StatusCommit(w) == Commit(w, "status")

--------------------------------------------------------------------------------
(* Handlers taken in one step: what they leave half done is not read here. *)

Subscribe(w, v) ==
    /\ Idle(w)
    /\ sub[v] # "open"
    /\ sub' = [sub EXCEPT ![v] = "open"]
    /\ alerted' = [alerted EXCEPT ![v] = FALSE]
    /\ UNCHANGED <<availability, status, lapsed, lead, pc, txn>>

Unsubscribe(w, v) ==
    /\ Idle(w)
    /\ sub[v] = "open"
    /\ sub' = [sub EXCEPT ![v] = "off"]
    /\ UNCHANGED <<availability, status, lapsed, lead, alerted, pc, txn>>

(* mark_won and mark_lost; the row is locked while a cancellation that     *)
(* loses the lead is in flight.                                            *)
CloseLead(w, h, stage) ==
    /\ Idle(w)
    /\ lead[h] = "open"
    /\ \A u \in Workers : ~(h \in Flushed(u) /\ txn[u].lose)
    /\ lead' = [lead EXCEPT ![h] = stage]
    /\ UNCHANGED <<availability, status, lapsed, sub, alerted, pc, txn>>

(* The branch records money taken or a sale agreed.  No endpoint does it:  *)
(* the statuses exist, are read by every query here and are set outside.   *)
TakePayment(w, h, paid) ==
    /\ Idle(w)
    /\ status[h] \in Active \ {paid}
    /\ ~LockedByOther(w, h)
    /\ status' = [status EXCEPT ![h] = paid]
    /\ UNCHANGED <<availability, lapsed, lead, sub, alerted, pc, txn>>

(* Seven days pass. *)
Lapse(h) ==
    /\ status[h] \in Active
    /\ ~lapsed[h]
    /\ lapsed' = [lapsed EXCEPT ![h] = TRUE]
    /\ UNCHANGED <<availability, status, lead, sub, alerted, pc, txn>>

(* The handler raises, the job dies or the process is restarted: whatever  *)
(* was not committed is gone.                                              *)
Abort(w) ==
    /\ ~Idle(w)
    /\ Rollback(w)
    /\ UNCHANGED <<db, alerted>>

Sweep(w) ==
    \/ \E op \in SweepRuns : SweepRead(w, op)
    \/ SweepFlush(w) \/ SweepCommit(w) \/ SweepDryRun(w)
    \/ \E v \in Vehicles : SweepRelease(w, v)

Customer(w) ==
    \/ \E h \in Holds : CreateRead(w, h) \/ CancelRead(w, h)
    \/ CreateCheck(w) \/ CreateCommit(w) \/ CancelFlush(w) \/ CancelCommit(w)
    \/ \E v \in Watched : Subscribe(w, v) \/ Unsubscribe(w, v)

Desk(w) ==
    \/ \E v \in Vehicles, next \in DeskChoices, strict \in BOOLEAN :
          StatusRead(w, v, next, strict)
    \/ StatusCommit(w)
    \/ \E h \in Holds, stage \in LeadCloses : CloseLead(w, h, stage)
    \/ \E h \in Holds, paid \in Payments : TakePayment(w, h, paid)

Next ==
    \/ \E w \in Workers : Sweep(w) \/ Customer(w) \/ Desk(w) \/ Abort(w)
    \/ \E h \in Holds : Lapse(h)

Spec == Init /\ [][Next]_vars

--------------------------------------------------------------------------------
(* Fairness.  Some handler that can go on does; a job that was run dry     *)
(* goes on to its rollback too, or its locks would stay.  The cron job is  *)
(* run again and again, so a sweep that keeps being possible starts, and   *)
(* not every one of them dry.  Handlers are killed, but not at the same    *)
(* point every single time: neither at the same step, nor while they wait  *)
(* for a lock whose holder keeps reaching the same step.  Nothing is       *)
(* assumed of customers, staff or delivery.                                *)
Expiring(w) == txn[w].op = "sweep"
Rehearsing(w) == txn[w].op = "dry"
Frees(w) == \E v \in Vehicles : SweepRelease(w, v)
GoesOn(w) ==
    \/ CreateCheck(w) \/ CreateCommit(w) \/ StatusCommit(w) \/ CancelFlush(w)
    \/ SweepDryRun(w)
    \/ Rehearsing(w) /\ (SweepFlush(w) \/ Frees(w))
SweepWaits == \E w \in Workers : Expiring(w) /\ pc[w] = "flush"

Fairness ==
    /\ WF_vars(\E w \in Workers : GoesOn(w))
    /\ SF_vars(\E w \in Workers : CancelCommit(w))
    /\ SF_vars(\E w \in Workers : SweepRead(w, "sweep"))
    /\ SF_vars(\E w \in Workers : Expiring(w) /\ SweepFlush(w))
    /\ SF_vars(\E w \in Workers : Expiring(w) /\ Frees(w))
    /\ SF_vars(\E w \in Workers : SweepCommit(w))
    /\ SF_vars(SweepWaits /\ \E w \in Workers : Frees(w))
    /\ SF_vars(SweepWaits /\ \E w \in Workers : (CancelCommit(w) \/ SweepDryRun(w)))

FairSpec == Spec /\ Fairness

--------------------------------------------------------------------------------
(* Properties *)

(* What the guards are written for: of any car one handler at a time.  The *)
(* theorems about them take it as a hypothesis; the other runs show which  *)
(* guarantees need it and which do not.  A session has a car in hand from  *)
(* the moment it loads the car, or a hold on it, until it commits what it  *)
(* writes about either and about the car's subscription.                   *)
InHand(x) == x.todo \cup x.dirty \cup x.told \cup {CarOf[h] : h \in x.rows}

CarsApart ==
    \A u, w \in Workers : u # w => InHand(txn[u]) \cap InHand(txn[w]) = {}

(* Handlers taken in one step: none takes money for a hold that a session  *)
(* has loaded to end, none opens a subscription that a session is closing. *)
LoadedHoldsStay ==
    UNCHANGED txn => \A w \in Workers : \A h \in txn[w].rows : status'[h] = status[h]
NobodyResubscribes ==
    UNCHANGED txn =>
        \A w \in Workers : \A v \in txn[w].told : sub'[v] = "open" => sub[v] = "open"

(* While handlers that overlap have different cars in hand, the endpoints, *)
(* the sweep and the desk keep the promises of HoldBook: every committed   *)
(* change of a hold or of a car's availability is one of its steps.  With  *)
(* the Expo transport drop_tokens commits half a sweep: the book is kept   *)
(* Piecemeal.                                                              *)
Book == INSTANCE HoldBook WITH
          Vehicles <- Vehicles, Holds <- Holds, CarOf <- CarOf,
          Piecemeal <- PushEnabled,
          status <- status, availability <- availability
ImplementsHoldBook == Book!Init /\ [][Book!Next]_<<status, availability>>

(* expire_reservations.py: "`sold` is never walked back by a timeout", and *)
(* cancel_my_reservation: "a cancellation does not walk that back".        *)
SoldNeverWalkedBack ==
    [][\A w \in Workers : SweepCommit(w) \/ CancelCommit(w) =>
          \A v \in Vehicles : availability[v] = "sold" => availability'[v] = "sold"]_vars

(* A reservation that is committed never joins another live one on its car:*)
(* what the 409 of create_reservation is for.                              *)
NoDoubleHold ==
    [][\A w \in Workers : CreateCommit(w) =>
          \A h \in txn[w].rows : ~Held(CarOf[h])]_vars

(* A subscription is marked as told only if its subscriber was reached     *)
(* since opening it ("the subscription is not marked complete without a    *)
(* notification"), whatever failed on the way.                             *)
ToldMeansAlerted == \A v \in Vehicles : sub[v] = "notified" => alerted[v]

(* A dry run reports and changes nothing (test_reservation_expiry.py,      *)
(* test_dry_run_reports_without_changing_anything).                        *)
DryRunChangesNothing ==
    [][\A w \in Workers :
          txn[w].op = "dry" /\ txn'[w] # txn[w] => UNCHANGED db]_vars

(* What makes blind writes safe for a reservation's own row: an id a create*)
(* session carries is unused and carried by no other create; a session     *)
(* that ends holds only carries rows that exist; nobody else carries any.  *)
OwnsItsRows(w, x) ==
    /\ x.op \in {"none", "status"} => x.rows = {}
    /\ x.op = "create" =>
          /\ x.mark = "pending"
          /\ \A h \in x.rows :
                /\ status[h] = "none"
                /\ \A u \in Workers \ {w} :
                      txn[u].op = "create" => h \notin txn[u].rows
    /\ x.op \in {"cancel"} \cup SweepOps =>
          x.mark \in Ended /\ \A h \in x.rows : status[h] # "none"

SessionsOwnTheirRows == \A w \in Workers : OwnsItsRows(w, txn[w])

(* A hold that has ended never becomes live again, however handlers, the   *)
(* sweep and their crashes interleave: no blind write of an older session  *)
(* resurrects it.                                                          *)
EndedHoldStaysEnded ==
    [][\A h \in Holds : status[h] \in Ended => status'[h] \in Ended]_vars

(* A hold nobody paid for does not outlive its seven days for ever: it is  *)
(* expired, cancelled or paid, though jobs die, are run dry, or commit     *)
(* half-way, and the branch and the customer act on it meanwhile.          *)
LapsedHoldEnds ==
    \A h \in Holds : status[h] = "pending" /\ lapsed[h] ~> status[h] # "pending"

=============================================================================

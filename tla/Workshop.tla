------------------------------- MODULE Workshop -------------------------------
(***************************************************************************)
(* The workshop: a service appointment from the customer's booking to the  *)
(* history record, the job it starts, the additional work the customer is  *)
(* asked to approve, the invoice and the odometer.                         *)
(*                                                                         *)
(* A worker is one request thread.  A handler loads its rows, and writes   *)
(* those of their columns it changed, blindly by id, when it commits.  Some*)
(* read a second time in between: the invoice and the additional work of a *)
(* job are loaded by statements of their own, and the slot check is a query*)
(* of its own.  So a handler is two steps here, or three.                  *)
(***************************************************************************)
EXTENDS Naturals, FiniteSets

CONSTANTS
    Workers,     \* request threads at work at once
    Vehicles,    \* owned vehicles
    Appts,       \* appointments ever booked (a bound)
    VehicleOf,   \* the vehicle of each
    Works,       \* additional work requests ever made (a bound)
    ApptOf,      \* the appointment whose job each of them belongs to
    Slots,       \* the times each appointment may be given (a bound)
    Booked,      \* mileage_at_booking of each appointment
    Readings     \* odometer readings staff enter (a bound)

ASSUME RowsAssumption ==
    VehicleOf \in [Appts -> Vehicles] /\ ApptOf \in [Works -> Appts]
ASSUME NumbersAssumption ==
    /\ Slots \in [Appts -> SUBSET (Nat \ {0})] /\ Readings \subseteq Nat
    /\ Booked \in [Appts -> Nat]

VARIABLES
    appt,      \* service_appointments.status
    slot,      \* service_appointments.scheduled_at
    job,       \* service_jobs.status, by appointment (appointment_id is unique)
    work,      \* additional_work_requests.status
    invoiced,  \* appointments whose job has a service_invoices row
    invoice,   \* its line items, as the work they stand for
    history,   \* service_history_items per appointment; two stand for more
    odometer,  \* owned_vehicles.mileage
    pc,        \* where each worker stands in its handler
    txn,       \* its session: what it will write
    raced,     \* appointments and vehicles committed while another handler
               \* had them in memory (ghost)
    moved,     \* appointments staff gave their present time (ghost)
    struck     \* appointments staff deleted a history item of (ghost)

tables == <<appt, slot, job, work, invoiced, invoice, history, odometer>>
vars == <<appt, slot, job, work, invoiced, invoice, history, odometer,
          pc, txn, raced, moved, struck>>

ApptStatus == {"absent", "requested", "confirmed", "in_progress",
               "awaiting_approval", "completed", "cancelled"}
JobStatus == {"none", "in_progress", "awaiting_approval", "completed", "cancelled"}
WorkStatus == {"absent", "pending_approval", "approved", "rejected"}
Ops == {"none", "book", "status", "start", "complete", "add", "respond", "update",
        "reschedule", "record"}

(* A session: the rows it has loaded, and what it writes to them; "same"   *)
(* and 0 stand for a column left alone.                                    *)
NoTxn == [op |-> "none", appts |-> {}, vehicles |-> {}, works |-> {},
          apptTo |-> "same", jobTo |-> "same", workTo |-> "same",
          slotTo |-> 0, reading |-> 0, bill |-> FALSE, lines |-> {}]
Txn == [op : Ops, appts : SUBSET Appts, vehicles : SUBSET Vehicles,
        works : SUBSET Works, apptTo : ApptStatus \cup {"same"},
        jobTo : JobStatus \cup {"same"}, workTo : WorkStatus \cup {"same"},
        slotTo : Nat, reading : Nat, bill : BOOLEAN, lines : SUBSET Works]

TypeOK ==
    /\ appt \in [Appts -> ApptStatus]
    /\ slot \in [Appts -> Nat]
    /\ job \in [Appts -> JobStatus]
    /\ work \in [Works -> WorkStatus]
    /\ invoiced \subseteq Appts
    /\ invoice \in [Appts -> SUBSET Works]
    /\ history \in [Appts -> 0 .. 2]
    /\ odometer \in [Vehicles -> Nat]
    /\ pc \in [Workers -> {"idle", "decide", "commit"}]
    /\ txn \in [Workers -> Txn]
    /\ raced \subseteq Appts \cup Vehicles
    /\ moved \subseteq Appts
    /\ struck \subseteq Appts

Init ==
    /\ appt = [a \in Appts |-> "absent"]
    /\ slot = [a \in Appts |-> 0]
    /\ job = [a \in Appts |-> "none"]
    /\ work = [k \in Works |-> "absent"]
    /\ invoiced = {}
    /\ invoice = [a \in Appts |-> {}]
    /\ history = [a \in Appts |-> 0]
    /\ odometer = [v \in Vehicles |-> 0]
    /\ pc = [w \in Workers |-> "idle"]
    /\ txn = [w \in Workers |-> NoTxn]
    /\ raced = {}
    /\ moved = {}
    /\ struck = {}

WorksOf(a) == {k \in Works : ApptOf[k] = a}
Approved(a) == {k \in WorksOf(a) : work[k] = "approved"}

Idle(w) == pc[w] = "idle"

(* The first statement of a handler: its rows are in memory from here on.  *)
Load(w, x, step) ==
    /\ Idle(w)
    /\ pc' = [pc EXCEPT ![w] = step]
    /\ txn' = [txn EXCEPT ![w] = x]
    /\ UNCHANGED <<tables, raced, moved, struck>>

Decide(w, x) ==
    /\ pc' = [pc EXCEPT ![w] = "commit"]
    /\ txn' = [txn EXCEPT ![w] = x]
    /\ UNCHANGED <<tables, raced, moved, struck>>

Rollback(w) ==
    /\ pc' = [pc EXCEPT ![w] = "idle"]
    /\ txn' = [txn EXCEPT ![w] = NoTxn]

(* Rows a handler has loaded: its appointment, with the job and the work;  *)
(* and the vehicle, if it looks at the vehicle's slots or odometer.        *)
Rows(x) == x.appts \cup x.vehicles

Session(op, a) == [NoTxn EXCEPT !.op = op, !.appts = {a}]
VehicleSession(op, a) == [Session(op, a) EXCEPT !.vehicles = {VehicleOf[a]}]

--------------------------------------------------------------------------------
(* Booking.  The id of a row not inserted yet belongs to one session.      *)

(* _ensure_vehicle_slot_available *)
SlotFree(v, s, except) ==
    \A b \in Appts \ {except} :
        VehicleOf[b] = v /\ slot[b] = s => appt[b] \in {"absent", "cancelled"}

Unused(a) == appt[a] = "absent" /\ \A u \in Workers : a \notin txn[u].appts

Book(w, a, s) ==
    /\ Unused(a)
    /\ SlotFree(VehicleOf[a], s, a)
    /\ Load(w, [VehicleSession("book", a) EXCEPT !.apptTo = "requested", !.slotTo = s], "commit")

(* reschedule_customer_appointment; the same time again writes nothing. *)
RescheduleLoad(w, a, s) ==
    /\ appt[a] \in {"requested", "confirmed"}
    /\ slot[a] # s
    /\ Load(w, [VehicleSession("reschedule", a) EXCEPT !.slotTo = s], "decide")

(* Mutant: a cancelled or a completed appointment frees its slot, and so   *)
(* does one that is only requested.                                        *)
RescheduleCheckConfirmedOnly(w) ==
    /\ pc[w] = "decide" /\ txn[w].op = "reschedule"
    /\ \E a \in txn[w].appts :
          IF \E b \in Appts \ {a} : /\ VehicleOf[b] = VehicleOf[a]
                                    /\ slot[b] = txn[w].slotTo
                                    /\ appt[b] \in {"confirmed", "in_progress"}
          THEN Rollback(w) /\ UNCHANGED <<tables, raced, moved, struck>>
          ELSE Decide(w, txn[w])

RescheduleCheck(w) ==
    /\ pc[w] = "decide" /\ txn[w].op = "reschedule"
    /\ \E a \in txn[w].appts :
          IF SlotFree(VehicleOf[a], txn[w].slotTo, a)
          THEN Decide(w, txn[w])
          ELSE Rollback(w) /\ UNCHANGED <<tables, raced, moved, struck>>

(* update_appointment: staff move an appointment, whatever its status and  *)
(* whatever else is booked then.                                           *)
Move(w, a, s) ==
    /\ Idle(w)
    /\ appt[a] # "absent" /\ slot[a] # s
    /\ slot' = [slot EXCEPT ![a] = s]
    /\ moved' = moved \cup {a}
    /\ UNCHANGED <<appt, job, work, invoiced, invoice, history, odometer,
                   pc, txn, raced, struck>>

--------------------------------------------------------------------------------
(* change_appointment_status and cancel_customer_appointment *)

Confirm(w, a) ==
    /\ appt[a] = "requested"
    /\ Load(w, [Session("status", a) EXCEPT !.apptTo = "confirmed"], "commit")

(* Mutant: the job copies the status the appointment had. *)
StartJobCopying(w, a) ==
    /\ appt[a] = "confirmed" /\ job[a] = "none"
    /\ Load(w, [Session("start", a) EXCEPT !.apptTo = "in_progress",
                                           !.jobTo = appt[a]], "commit")

(* start, and _start_job: refused when the appointment has a job. *)
StartJob(w, a) ==
    /\ appt[a] = "confirmed" /\ job[a] = "none"
    /\ Load(w, [Session("start", a) EXCEPT !.apptTo = "in_progress",
                                           !.jobTo = "in_progress"], "commit")

(* Mutant: the job is left as it is. *)
CancelApptOnly(w, a, allowed) ==
    /\ appt[a] \in allowed
    /\ Load(w, [Session("status", a) EXCEPT !.apptTo = "cancelled"], "commit")

Cancel(w, a, allowed) ==
    /\ appt[a] \in allowed
    /\ Load(w, [Session("status", a) EXCEPT
                  !.apptTo = "cancelled",
                  !.jobTo = IF job[a] \in {"none", "completed", "cancelled"}
                            THEN "same" ELSE "cancelled"], "commit")

CancelByStaff(w, a) ==
    Cancel(w, a, {"requested", "confirmed", "in_progress", "awaiting_approval"})
CancelByCustomer(w, a) == Cancel(w, a, {"requested", "confirmed"})

Raise(v, m) == IF m > odometer[v] THEN m ELSE 0

(* Mutant: a service may be completed again, to correct its reading. *)
CompleteLoadAgain(w, a, m) ==
    /\ appt[a] \in {"in_progress", "awaiting_approval", "completed"}
    /\ Load(w, [VehicleSession("complete", a) EXCEPT
                  !.apptTo = "completed",
                  !.jobTo = IF job[a] = "none" THEN "same" ELSE "completed",
                  !.reading = Raise(VehicleOf[a], m)], "decide")

(* complete, with the appointment, its job and its vehicle in memory. *)
CompleteLoad(w, a, m) ==
    /\ appt[a] \in {"in_progress", "awaiting_approval"}
    /\ Load(w, [VehicleSession("complete", a) EXCEPT
                  !.apptTo = "completed",
                  !.jobTo = IF job[a] = "none" THEN "same" ELSE "completed",
                  !.reading = Raise(VehicleOf[a], m)], "decide")

(* Mutant: everything the customer has not refused is billed. *)
CompleteBillAll(w) ==
    /\ pc[w] = "decide" /\ txn[w].op = "complete"
    /\ \E a \in txn[w].appts :
          Decide(w, IF txn[w].jobTo = "same" \/ a \in invoiced THEN txn[w]
                    ELSE [txn[w] EXCEPT !.bill = TRUE,
                            !.lines = {k \in WorksOf(a) :
                                          work[k] \in {"approved", "pending_approval"}}])

(* _complete_job loads the invoice and the additional work: a job without  *)
(* an invoice is billed for what has been approved.                        *)
CompleteBill(w) ==
    /\ pc[w] = "decide" /\ txn[w].op = "complete"
    /\ \E a \in txn[w].appts :
          Decide(w, IF txn[w].jobTo = "same" \/ a \in invoiced THEN txn[w]
                    ELSE [txn[w] EXCEPT !.bill = TRUE, !.lines = Approved(a)])

(* Mutant: the reading is taken as it is. *)
RecordBlindly(w, v, m) ==
    Load(w, [NoTxn EXCEPT !.op = "record", !.vehicles = {v}, !.reading = m], "commit")

(* create_history and replace_history_lines, as far as the odometer goes. *)
Record(w, v, m) ==
    Load(w, [NoTxn EXCEPT !.op = "record", !.vehicles = {v}, !.reading = Raise(v, m)],
         "commit")

(* delete_history: any item may go, a completed service's too. *)
DeleteHistory(w, a) ==
    /\ Idle(w)
    /\ history[a] > 0
    /\ \E left \in {history[a] - 1, IF history[a] = 2 THEN 2 ELSE 0} :
          history' = [history EXCEPT ![a] = left]
    /\ struck' = struck \cup {a}
    /\ UNCHANGED <<appt, slot, job, work, invoiced, invoice, odometer,
                   pc, txn, raced, moved>>

--------------------------------------------------------------------------------
(* Additional work *)

(* Mutant: the appointment is left as it is. *)
AddWorkJobOnly(w, k) ==
    LET a == ApptOf[k]
    IN /\ work[k] = "absent" /\ \A u \in Workers : k \notin txn[u].works
       /\ job[a] \in {"in_progress", "awaiting_approval"}
       /\ Load(w, [Session("add", a) EXCEPT
                     !.works = {k}, !.workTo = "pending_approval",
                     !.jobTo = "awaiting_approval"], "commit")

(* add_additional_work: the job waits for the customer.  A status that is  *)
(* already the right one is not written again.                             *)
AddWork(w, k) ==
    LET a == ApptOf[k]
    IN /\ work[k] = "absent" /\ \A u \in Workers : k \notin txn[u].works
       /\ job[a] \in {"in_progress", "awaiting_approval"}
       /\ Load(w, [Session("add", a) EXCEPT
                     !.works = {k}, !.workTo = "pending_approval",
                     !.jobTo = IF job[a] = "in_progress" THEN "awaiting_approval"
                               ELSE "same",
                     !.apptTo = IF appt[a] = "in_progress" THEN "awaiting_approval"
                                ELSE "same"], "commit")

(* customer_respond_additional_work ("respond") and update_additional_work *)
(* ("update") load the job with its appointment: if it is waiting, this    *)
(* answer may be the one that resumes it.                                  *)
AnswerLoad(w, k, to, op) ==
    LET a == ApptOf[k]
        waits == job[a] = "awaiting_approval"
    IN /\ work[k] # "absent"
       /\ Load(w, [Session(op, a) EXCEPT
                     !.works = {k}, !.workTo = to,
                     !.jobTo = IF waits THEN "in_progress" ELSE "same",
                     !.apptTo = IF waits /\ appt[a] = "awaiting_approval"
                                THEN "in_progress" ELSE "same"], "decide")

(* Mutant: the job resumes only when everything has been approved. *)
AnswerKeepingWait(w) ==
    /\ pc[w] = "decide" /\ txn[w].op \in {"respond", "update"}
    /\ \E k \in txn[w].works :
          LET x == [txn[w] EXCEPT !.works = IF work[k] = txn[w].workTo THEN {} ELSE {k}]
              open == {j \in WorksOf(ApptOf[k]) : work[j] \in {"pending_approval", "rejected"}}
              left == open \ {k} # {} \/ x.workTo # "approved"
          IN IF txn[w].op = "respond" /\ work[k] # "pending_approval"
             THEN Rollback(w) /\ UNCHANGED <<tables, raced, moved, struck>>
             ELSE Decide(w, IF left THEN [x EXCEPT !.jobTo = "same", !.apptTo = "same"]
                            ELSE x)

(* The job's additional work is loaded next.  The customer answers what is *)
(* pending, staff set any status; the job resumes when nothing is pending  *)
(* any more (_set_additional_work_status).                                 *)
Answer(w) ==
    /\ pc[w] = "decide" /\ txn[w].op \in {"respond", "update"}
    /\ \E k \in txn[w].works :
          LET x == [txn[w] EXCEPT !.works = IF work[k] = txn[w].workTo THEN {} ELSE {k}]
              pending == {j \in WorksOf(ApptOf[k]) : work[j] = "pending_approval"}
              left == pending \ {k} # {} \/ x.workTo = "pending_approval"
          IN IF txn[w].op = "respond" /\ work[k] # "pending_approval"
             THEN Rollback(w) /\ UNCHANGED <<tables, raced, moved, struck>>
             ELSE Decide(w, IF left THEN [x EXCEPT !.jobTo = "same", !.apptTo = "same"]
                            ELSE x)

--------------------------------------------------------------------------------
(* A unique key refuses a second job of an appointment and a second invoice*)
(* of a job, and the whole transaction with it.                            *)
Refused(x) ==
    \E a \in x.appts :
        \/ x.op = "start" /\ job[a] # "none"
        \/ x.bill /\ a \in invoiced

(* Mutant: nothing to bill, nothing for the history. *)
RecordsBilled(x) == IF x.lines # {} THEN x.appts ELSE {}

(* _complete_job adds a history item each time. *)
Records(x) == IF x.op = "complete" THEN x.appts ELSE {}

Commit(w) ==
    LET x == txn[w]
        To(new, old) == IF new = "same" THEN old ELSE new
    IN /\ pc[w] = "commit"
       /\ ~Refused(x)
       /\ appt' = [a \in Appts |-> IF a \in x.appts THEN To(x.apptTo, appt[a]) ELSE appt[a]]
       /\ job' = [a \in Appts |-> IF a \in x.appts THEN To(x.jobTo, job[a]) ELSE job[a]]
       /\ work' = [k \in Works |-> IF k \in x.works THEN To(x.workTo, work[k]) ELSE work[k]]
       /\ slot' = [a \in Appts |-> IF a \in x.appts /\ x.slotTo # 0 THEN x.slotTo ELSE slot[a]]
       /\ invoiced' = IF x.bill THEN invoiced \cup x.appts ELSE invoiced
       /\ invoice' = [a \in Appts |-> IF a \in x.appts /\ x.bill THEN x.lines ELSE invoice[a]]
       /\ history' = [a \in Appts |->
                        IF a \in Records(x) /\ history[a] < 2
                        THEN history[a] + 1 ELSE history[a]]
       /\ odometer' = [v \in Vehicles |-> IF v \in x.vehicles /\ x.reading # 0
                                          THEN x.reading ELSE odometer[v]]
       /\ moved' = IF x.slotTo # 0 THEN moved \ x.appts ELSE moved
       /\ raced' = raced \cup {r \in Rows(x) : \E u \in Workers \ {w} : r \in Rows(txn[u])}
       /\ Rollback(w)
       /\ UNCHANGED struck

(* The commit is refused, or the handler raises, or the process restarts.  *)
Abort(w) ==
    /\ ~Idle(w)
    /\ Rollback(w)
    /\ UNCHANGED <<tables, raced, moved, struck>>

Staff(w) ==
    \/ \E a \in Appts :
          Confirm(w, a) \/ StartJob(w, a) \/ CancelByStaff(w, a) \/ DeleteHistory(w, a)
    \/ \E a \in Appts : \E m \in Readings \cup {Booked[a]} : CompleteLoad(w, a, m)
    \/ \E a \in Appts : \E s \in Slots[a] : Move(w, a, s)
    \/ \E v \in Vehicles, m \in Readings : Record(w, v, m)
    \/ \E k \in Works : AddWork(w, k)
    \/ \E k \in Works, to \in {"pending_approval", "approved", "rejected"} :
          AnswerLoad(w, k, to, "update")
    \/ CompleteBill(w)

Customer(w) ==
    \/ \E a \in Appts : \E s \in Slots[a] : Book(w, a, s) \/ RescheduleLoad(w, a, s)
    \/ \E a \in Appts : CancelByCustomer(w, a)
    \/ \E k \in Works, to \in {"approved", "rejected"} : AnswerLoad(w, k, to, "respond")
    \/ RescheduleCheck(w)

Next == \E w \in Workers : Staff(w) \/ Customer(w) \/ Answer(w) \/ Commit(w) \/ Abort(w)

Spec == Init /\ [][Next]_vars

--------------------------------------------------------------------------------
(* Properties.  Nothing in these handlers is locked, so most of what they  *)
(* promise holds of the rows no two of them had in memory at once.         *)

(* The board and the job never disagree about where a service stands.      *)
StatusesAgree ==
    \A a \in Appts \ raced :
        /\ appt[a] \in {"absent", "requested", "confirmed"} => job[a] = "none"
        /\ appt[a] = "cancelled" => job[a] \in {"none", "cancelled"}
        /\ appt[a] \in {"in_progress", "awaiting_approval", "completed"} =>
              job[a] = appt[a]

(* A job waits for approval only while an answer is owed; two answers at   *)
(* once each see the other one pending, and the job waits for nobody.      *)
WaitingIsOwed ==
    \A a \in Appts \ raced :
        job[a] = "awaiting_approval" => \E k \in WorksOf(a) : work[k] = "pending_approval"

(* A completed service has its invoice and is in the vehicle's history,    *)
(* whatever raced, until staff delete the item; and unless something did,  *)
(* it is there once, and no service that was not completed is.             *)
ServiceRecorded ==
    \A a \in Appts :
        /\ appt[a] = "completed" => a \in invoiced
        /\ appt[a] = "completed" /\ a \notin struck => history[a] >= 1
        /\ a \notin raced \cup struck =>
              history[a] = IF appt[a] = "completed" THEN 1 ELSE 0

(* The invoice is what stands approved at the moment the service is        *)
(* completed: nothing refused, nothing still open, nothing forgotten.      *)
BilledAsApproved ==
    [][\A a \in Appts \ raced :
          appt[a] # "completed" /\ appt'[a] = "completed" => invoice'[a] = Approved(a)]_vars

(* "A vehicle cannot have two active appointments in the same time slot":  *)
(* so it is, for bookings and customers' changes taken one at a time, until*)
(* staff move one.                                                         *)
OneVehicleOneSlot ==
    \A a, b \in Appts \ (moved \cup raced) :
        /\ a # b /\ VehicleOf[a] = VehicleOf[b] /\ VehicleOf[a] \notin raced
        /\ appt[a] \notin {"absent", "cancelled"} /\ appt[b] \notin {"absent", "cancelled"}
        => slot[a] # slot[b]

(* _raise_vehicle_mileage: "Never decrease it from a service write".       *)
OdometerNeverBack ==
    [][\A v \in Vehicles \ raced : odometer'[v] >= odometer[v]]_vars

=============================================================================

------------------------------- MODULE Pipeline -------------------------------
(***************************************************************************)
(* A sales lead from the request that opens it to won or lost: the agents  *)
(* who move it, the test drive or the reservation it came from, which      *)
(* moves it too, and the history the customer reads.                       *)
(*                                                                         *)
(* The transaction of a request begins when its user is authenticated;     *)
(* then the handler loads its rows, decides on them, and at its commit     *)
(* writes the columns it changed, blindly by id.  The handlers of a        *)
(* booking load its lead by a statement of its own.  What a transaction    *)
(* inserts carries the time it began; won_at and lost_at are read off the  *)
(* clock later.                                                            *)
(***************************************************************************)
EXTENDS Naturals, Sequences, SequencesExt

CONSTANTS
    Workers,   \* request threads at work at once
    Leads,     \* leads ever opened (a bound)
    Stages,    \* the open stages agents use (a bound)
    Horizon    \* readings of the clock (a bound)

VARIABLES
    status,    \* leads.status; "absent" before
    kind,      \* what each was opened by (resolve_kinds)
    booking,   \* status of the test drive or the reservation
    opened,    \* leads.created_at
    events,    \* lead_status_events
    closedAt,  \* won_at and lost_at; 0 stands for NULL
    now,       \* the clock: no two readings are equal
    txn,       \* the session of each worker
    raced,     \* leads committed while two handlers had one row in memory (ghost)
    overtaken  \* leads with an event that came late (ghost)

rows == <<status, kind, booking, opened, events, closedAt>>
ghosts == <<raced, overtaken>>
vars == <<rows, now, txn, ghosts>>

LeadStatus == {"new", "contacted", "qualified", "proposal", "negotiation", "won", "lost"}
Terminal == {"won", "lost"}
LeadKind == {"enquiry", "quotation", "trade_in", "test_drive", "reservation"}
TestDriveStatus == {"requested", "confirmed", "completed", "cancelled"}
ReservationStatus == {"pending", "deposit_paid", "confirmed", "cancelled", "expired"}
BookingStatus == {"none"} \cup TestDriveStatus \cup ReservationStatus

(* A booking somebody has ended.  An expired reservation ended by itself,  *)
(* and no code relates it to its lead any more.                            *)
Over == {"completed", "cancelled"}

BookingOf(k) ==
    CASE k = "test_drive"  -> TestDriveStatus
      [] k = "reservation" -> ReservationStatus
      [] OTHER             -> {"none"}

Event == [to : LeadStatus, at : 1 .. Horizon]
NoTxn == [step |-> "idle", at |-> 0, of |-> {}, to |-> "same", event |-> "same",
          book |-> "same", closed |-> 0]
Txn == [step : {"idle", "begun", "lead", "commit"}, at : 0 .. Horizon, of : SUBSET Leads,
        to : LeadStatus \cup {"same"}, event : LeadStatus \cup {"same"},
        book : BookingStatus \cup {"same"}, closed : 0 .. Horizon]

TypeOK ==
    /\ status \in [Leads -> LeadStatus \cup {"absent"}]
    /\ kind \in [Leads -> LeadKind]
    /\ booking \in [Leads -> BookingStatus]
    /\ opened \in [Leads -> 0 .. Horizon]
    /\ \A l \in Leads : events[l] \subseteq Event
    /\ closedAt \in [Leads -> [Terminal -> 0 .. Horizon]]
    /\ now \in 0 .. Horizon
    /\ txn \in [Workers -> Txn]
    /\ raced \subseteq Leads /\ overtaken \subseteq Leads

(* A lead is not there yet, or it is older than the events, at any stage,  *)
(* and perhaps older than the rule that it follows its booking.            *)
Init ==
    /\ status \in [Leads -> LeadStatus \cup {"absent"}]
    /\ kind \in [Leads -> LeadKind]
    /\ booking \in [Leads -> BookingStatus]
    /\ \A l \in Leads : status[l] = "absent" => kind[l] = "enquiry"
    /\ \A l \in Leads : booking[l] \in BookingOf(kind[l])
    /\ opened = [l \in Leads |-> 0]
    /\ events = [l \in Leads |-> {}]
    /\ closedAt = [l \in Leads |-> [e \in Terminal |-> IF status[l] = e THEN 1 ELSE 0]]
    /\ now = 1
    /\ txn = [w \in Workers |-> NoTxn]
    /\ raced = {l \in Leads : booking[l] \in Over /\ status[l] \notin Terminal}
    /\ overtaken = {}

Idle(w) == txn[w].step = "idle"
Begun(w) == txn[w].step = "begun"

(* get_current_user reads the user: the transaction begins. *)
Authenticate(w) ==
    /\ Idle(w) /\ now < Horizon
    /\ now' = now + 1
    /\ txn' = [txn EXCEPT ![w] = [@ EXCEPT !.step = "begun", !.at = now + 1]]
    /\ UNCHANGED <<rows, ghosts>>

--------------------------------------------------------------------------------
(* _create_sales_lead: the lead and the row that refers to it are inserted *)
(* together.                                                               *)
Open(w, l, k) ==
    /\ Begun(w) /\ status[l] = "absent"
    /\ status' = [status EXCEPT ![l] = "new"]
    /\ kind' = [kind EXCEPT ![l] = k]
    /\ booking' = [booking EXCEPT ![l] =
                     CASE k = "test_drive"  -> "requested"
                       [] k = "reservation" -> "pending"
                       [] OTHER             -> "none"]
    /\ opened' = [opened EXCEPT ![l] = txn[w].at]
    /\ txn' = [txn EXCEPT ![w] = NoTxn]
    /\ UNCHANGED <<events, closedAt, now, ghosts>>

CreateLead(w, l) == Open(w, l, "enquiry")
RequestQuotation(w, l) == Open(w, l, "quotation")
SubmitTradeIn(w, l) == Open(w, l, "trade_in")
CreateTestDrive(w, l) == Open(w, l, "test_drive")
CreateReservation(w, l) == Open(w, l, "reservation")

IsOpen(l) == status[l] \notin Terminal \cup {"absent"}

(* update_lead_status, to any stage but won and lost.  The event is        *)
(* recorded even if the stage is the one the lead has, and then the lead   *)
(* itself is not written.                                                  *)
Advance(w, l, to) ==
    /\ Begun(w) /\ IsOpen(l)
    /\ txn' = [txn EXCEPT ![w] = [@ EXCEPT
                  !.step = "commit", !.of = {l}, !.event = to,
                  !.to = IF status[l] = to THEN "same" ELSE to]]
    /\ UNCHANGED <<rows, now, ghosts>>

(* An open lead in memory is closed, by the clock of this moment.          *)
CloseInMemory(w, l, to) ==
    /\ IsOpen(l) /\ now < Horizon
    /\ now' = now + 1
    /\ txn' = [txn EXCEPT ![w] = [@ EXCEPT
                  !.step = "commit", !.of = {l}, !.to = to, !.event = to, !.closed = now + 1]]
    /\ UNCHANGED <<rows, ghosts>>

(* mark_won, mark_lost *)
Close(w, l, to) == Begun(w) /\ CloseInMemory(w, l, to)

ChangeBooking(w, l, to) ==
    /\ Begun(w)
    /\ txn' = [txn EXCEPT ![w] = [@ EXCEPT
                  !.step = "lead", !.of = {l},
                  !.book = IF booking[l] = to THEN "same" ELSE to]]
    /\ UNCHANGED <<rows, now, ghosts>>

(* change_test_drive_status *)
ChangeTestDrive(w, l, to) ==
    /\ kind[l] = "test_drive" /\ status[l] # "absent" /\ booking[l] \notin Over
    /\ ChangeBooking(w, l, to)
CancelMyTestDrive(w, l) == ChangeTestDrive(w, l, "cancelled")

CancelMyReservation(w, l) ==
    /\ kind[l] = "reservation" /\ booking[l] = "pending"
    /\ ChangeBooking(w, l, "cancelled")

(* Mutant: only a lead that nobody has moved yet follows its booking. *)
FollowsIfNew(l, book) == status[l] = "new" /\ book \in Over

(* A lead that is open follows the end of its booking. *)
Follows(l, book) == status[l] \notin Terminal /\ book \in Over

(* _sync_lead_for_test_drive, and the same in cancel_my_reservation.       *)
SyncLead(w) ==
    /\ txn[w].step = "lead"
    /\ \E l \in txn[w].of :
          \/ /\ Follows(l, txn[w].book)
             /\ CloseInMemory(w, l, IF txn[w].book = "completed" THEN "won" ELSE "lost")
          \/ /\ ~Follows(l, txn[w].book)
             /\ txn' = [txn EXCEPT ![w].step = "commit"]
             /\ UNCHANGED <<rows, now, ghosts>>

(* expire_due: the sweep ends a reservation that has lapsed, and does not  *)
(* look at the lead.  Its transaction begins with the query.               *)
ExpireDue(w, l) ==
    /\ Idle(w)
    /\ kind[l] = "reservation" /\ booking[l] = "pending"
    /\ txn' = [txn EXCEPT ![w] = [@ EXCEPT
                  !.step = "commit", !.of = {l}, !.book = "expired"]]
    /\ UNCHANGED <<rows, now, ghosts>>

(* Mutant: only the end of a lead is recorded. *)
RecordedAtEnd(x) == IF x.event \in Terminal THEN {[to |-> x.event, at |-> x.at]} ELSE {}

(* _record_status_event: at every write of the stage. *)
Recorded(x) == IF x.event = "same" THEN {} ELSE {[to |-> x.event, at |-> x.at]}

(* The event of a transaction that began before one whose event, or whose  *)
(* lead, is there already; or of one that repeats a stage the lead has     *)
(* left since.                                                             *)
Late(x, l) ==
    /\ x.event # "same"
    /\ \/ x.at <= opened[l]
       \/ \E e \in events[l] : x.at <= e.at
       \/ x.to = "same" /\ status[l] # x.event

(* What a session read: the lead, unless it has yet to or never will; and  *)
(* the booking, unless it is an agent's who moves the lead alone.          *)
HasLead(u) == txn[u].step = "commit" /\ txn[u].book # "expired"
HasBooking(u) == txn[u].step = "lead" \/ txn[u].book # "same"
ShareRow(w, u) == (HasLead(w) /\ HasLead(u)) \/ (HasBooking(w) /\ HasBooking(u))

Commit(w) ==
    LET x == txn[w]
        Others(l) == \E u \in Workers \ {w} : l \in txn[u].of /\ ShareRow(w, u)
    IN /\ x.step = "commit"
       /\ status' = [l \in Leads |-> IF l \in x.of /\ x.to # "same" THEN x.to ELSE status[l]]
       /\ booking' = [l \in Leads |-> IF l \in x.of /\ x.book # "same" THEN x.book ELSE booking[l]]
       /\ events' = [l \in Leads |-> IF l \in x.of THEN events[l] \cup Recorded(x) ELSE events[l]]
       /\ closedAt' = [l \in Leads |-> [e \in Terminal |->
                         IF l \in x.of /\ x.to = e THEN x.closed ELSE closedAt[l][e]]]
       /\ txn' = [txn EXCEPT ![w] = NoTxn]
       /\ raced' = raced \cup {l \in x.of : Others(l)}
       /\ overtaken' = overtaken \cup {l \in x.of : Late(x, l)}
       /\ UNCHANGED <<kind, opened, now>>

Abort(w) ==
    /\ ~Idle(w)
    /\ txn' = [txn EXCEPT ![w] = NoTxn]
    /\ UNCHANGED <<rows, now, ghosts>>

Agent(w) ==
    \/ \E l \in Leads : CreateLead(w, l)
    \/ \E l \in Leads, to \in Stages : Advance(w, l, to)
    \/ \E l \in Leads, to \in Terminal : Close(w, l, to)
    \/ \E l \in Leads, to \in {"confirmed", "cancelled", "completed"} : ChangeTestDrive(w, l, to)

Customer(w) ==
    \E l \in Leads :
        \/ RequestQuotation(w, l) \/ SubmitTradeIn(w, l)
        \/ CreateTestDrive(w, l) \/ CancelMyTestDrive(w, l)
        \/ CreateReservation(w, l) \/ CancelMyReservation(w, l)

Sweep(w) == \E l \in Leads : ExpireDue(w, l)

Next ==
    \E w \in Workers :
        \/ Authenticate(w) \/ Agent(w) \/ Customer(w) \/ Sweep(w)
        \/ SyncLead(w) \/ Commit(w) \/ Abort(w)

Spec == Init /\ [][Next]_vars

--------------------------------------------------------------------------------
(* What the customer reads *)

(* to_stage *)
StageOf(s) ==
    CASE s = "new"                          -> "submitted"
      [] s \in {"contacted", "qualified"}   -> "under_review"
      [] s \in {"proposal", "negotiation"}  -> "in_progress"
      [] s = "won"                          -> "converted"
      [] s = "lost"                         -> "closed"

(* sorted(..., key=at): no two rows of a history have one time.            *)
InOrder(S) ==
    [i \in 1 .. Cardinality(S) |->
        CHOOSE e \in S : Cardinality({d \in S : d.at < e.at}) = i - 1]

(* One row for a run of stages the customer cannot tell apart. *)
Collapse(seen, e) ==
    IF Last(seen).stage = StageOf(e.to) THEN seen
    ELSE Append(seen, [stage |-> StageOf(e.to), at |-> e.at])

(* build_timeline: transitions in order of time, from the request on. *)
Steps(l) ==
    FoldLeft(Collapse, <<[stage |-> "submitted", at |-> opened[l]]>>, InOrder(events[l]))

(* A lead closed before events were recorded gets its last row from won_at *)
(* or lost_at.                                                             *)
Backfill(l) ==
    LET end == StageOf(status[l])
        at == IF status[l] \in Terminal THEN closedAt[l][status[l]] ELSE 0
    IN IF Last(Steps(l)).stage # end /\ at # 0 THEN {[stage |-> end, at |-> at]} ELSE {}

Timeline(l) == InOrder({Steps(l)[i] : i \in DOMAIN Steps(l)} \cup Backfill(l))

--------------------------------------------------------------------------------
(* Properties *)

(* _sync_lead_for_test_drive: "The two records described the same event    *)
(* and disagreed", and "a lead a human has already pushed to won or lost   *)
(* is not dragged back".  The lead of a test drive or a reservation that   *)
(* was completed or cancelled is closed, and a lead is closed once, won or *)
(* lost, whoever moved the two and in which order.  The exceptions are     *)
(* leads of which two handlers had one row at once, and those whose        *)
(* booking ended before leads followed it.                                 *)
BookingAndLeadAgree ==
    \A l \in Leads \ raced :
        /\ booking[l] \in Over => status[l] \in Terminal
        /\ \A e \in Terminal : closedAt[l][e] # 0 => status[l] = e

(* The history a customer reads ends at the stage the tracker shows, and   *)
(* no two rows in a row say the same, for every path through the pipeline, *)
(* even of handlers that held the lead at once, as long as no event came   *)
(* late.  Where an old lead stood when events began is not recorded: its   *)
(* history is one from its next move on.                                   *)
Told(l) == events[l] # {} \/ opened[l] # 0 \/ status[l] \in {"new"} \cup Terminal
HistoryEndsAtStage ==
    \A l \in Leads \ overtaken :
        Told(l) =>
            /\ Last(Timeline(l)).stage = StageOf(status[l])
            /\ \A i \in 1 .. Len(Timeline(l)) - 1 :
                  Timeline(l)[i].stage # Timeline(l)[i + 1].stage

=============================================================================

------------------------------- MODULE CarePlan -------------------------------
(***************************************************************************)
(* The service board: the price book, published version by version, and    *)
(* the maintenance status of a vehicle, worked out from the intervals that *)
(* admins set, the vehicle's history and its odometer.                     *)
(*                                                                         *)
(* One catalogue item and one vehicle of a board model.  Publishing, and   *)
(* adding an interval, read and then insert, each in a session of its own. *)
(* The other handlers are single steps: two of them at once leave what     *)
(* they leave one after the other (but for the odometer, whose races are   *)
(* in Workshop).                                                           *)
(***************************************************************************)
EXTENDS Naturals, Integers, Sequences, FiniteSets, SequencesExt

CONSTANTS
    Workers,    \* request threads at work at once
    Files,      \* price files: the cell of each row, or "bad"
    Versions,   \* versions ever published (a bound)
    Rules,      \* intervals ever added (a bound)
    Visits,     \* history items ever recorded (a bound)
    Terms,      \* kinds of interval with their limits; 0 stands for NULL
    Margins,    \* due_soon_km and due_soon_days, one number for both
    Far,        \* kilometres ever driven (a bound)
    Horizon     \* days that pass (a bound)

VARIABLES
    versions,   \* service_price_book_versions, in the order they committed
    catalogued, \* service_items.is_active
    rules,      \* service_intervals of the item, in the order they committed
    margin,     \* service_board_settings
    visits,     \* history items, with what was done to the item
    odometer,   \* owned_vehicles.mileage
    today,
    txn         \* the session of each worker

board == <<versions, catalogued>>
plan == <<rules, margin>>
record == <<visits, odometer>>
vars == <<board, plan, record, today, txn>>

Kinds == {"scheduled", "inspection", "condition"}
Operations == {"inspected", "serviced"}

(* alone: nobody else was publishing, or adding an interval (ghost).       *)
Version == [no : 1 .. Versions, published : BOOLEAN, alone : BOOLEAN]
Rule == [model : {"any", "own"}, kind : Kinds, km : Nat, days : Nat, on : BOOLEAN,
         alone : BOOLEAN]
Visit == [at : 0 .. Horizon, km : 0 .. Far, op : Operations \cup {"none"}]

NoTxn == [op |-> "idle", previous |-> {}, no |-> 0, rule |-> {}, alone |-> TRUE]
Idle(w) == txn[w].op = "idle"

TypeOK ==
    /\ \A i \in DOMAIN versions : versions[i] \in Version
    /\ catalogued \in BOOLEAN
    /\ \A i \in DOMAIN rules : rules[i] \in Rule
    /\ margin \in Margins
    /\ visits \subseteq Visit
    /\ odometer \in 0 .. Far /\ today \in 0 .. Horizon
    /\ \A w \in Workers : DOMAIN txn[w] = DOMAIN NoTxn

Init ==
    /\ versions = <<>> /\ catalogued = TRUE
    /\ rules = <<>> /\ margin \in Margins
    /\ visits = {} /\ odometer = 0
    /\ today = 0
    /\ txn = [w \in Workers |-> NoTxn]

Begin(w, x) ==
    /\ Idle(w)
    /\ txn' = [txn EXCEPT ![w] = x]
    /\ UNCHANGED <<board, plan, record, today>>

Beside(w) == {u \in Workers \ {w} : txn[u].op = txn[w].op}

(* The end of a session; those open beside it have been raced.             *)
End(w) == txn' = [u \in Workers |-> IF u = w THEN NoTxn
                                    ELSE IF u \in Beside(w) THEN [txn[u] EXCEPT !.alone = FALSE]
                                    ELSE txn[u]]
Alone(w) == txn[w].alone /\ Beside(w) = {}

--------------------------------------------------------------------------------
(* The price book *)

Published == {i \in DOMAIN versions : versions[i].published}

(* _get_published_version: the highest number, either of two alike.        *)
Current == {i \in Published : \A j \in Published : versions[j].no <= versions[i].no}

(* _next_version_number *)
NextNumber == 1 + Max({0} \cup {versions[i].no : i \in DOMAIN versions})

(* _validate_import_rows: all known, and no cell twice.                    *)
Accepted(file) ==
    /\ file # <<>> /\ catalogued
    /\ \A i \in DOMAIN file : file[i] # "bad"
    /\ IsInjective(file)

PublishRead(w, file) ==
    /\ Accepted(file)
    /\ \E previous \in {{i} : i \in Current} \cup {{}} :
          /\ previous = {} <=> Current = {}
          /\ Begin(w, [NoTxn EXCEPT !.op = "publish", !.previous = previous])

(* The number is read by the next statement, which sees what is committed  *)
(* by then.                                                                *)
NumberRead(w) ==
    /\ txn[w].op = "publish" /\ txn[w].no = 0
    /\ txn' = [txn EXCEPT ![w].no = NextNumber]
    /\ UNCHANGED <<board, plan, record, today>>

(* Mutant: what was published stays published. *)
ArchivedNone(x) == versions

(* The version that was published when this one began is archived.         *)
Archived(x) ==
    [i \in DOMAIN versions |->
        IF i \in x.previous THEN [versions[i] EXCEPT !.published = FALSE] ELSE versions[i]]

PublishCommit(w) ==
    LET x == txn[w]
    IN /\ x.op = "publish" /\ x.no # 0 /\ Len(versions) < Versions
       /\ versions' = Append(Archived(x), [no |-> x.no, published |-> TRUE, alone |-> Alone(w)])
       /\ End(w)
       /\ UNCHANGED <<catalogued, plan, record, today>>

(* update_item *)
SwitchItem ==
    /\ catalogued' = ~catalogued
    /\ UNCHANGED <<versions, plan, record, today, txn>>

--------------------------------------------------------------------------------
(* Intervals and settings *)

(* _validate_interval_payload *)
Valid(r) == r.kind = "condition" \/ r.km # 0 \/ r.days # 0

NewRule(model, t) ==
    [model |-> model, kind |-> t.kind, km |-> t.km, days |-> t.days, on |-> TRUE, alone |-> TRUE]

(* create_interval: one for every model is looked for, one for a model is  *)
(* left to the unique key, which takes two NULLs for different.            *)
RuleRead(w, r) ==
    /\ catalogued /\ Valid(r) /\ Len(rules) < Rules
    /\ r.model = "any" => \A i \in DOMAIN rules : rules[i].model # "any"
    /\ Begin(w, [NoTxn EXCEPT !.op = "rule", !.rule = {r}])

RuleCommit(w) ==
    /\ txn[w].op = "rule" /\ Len(rules) < Rules
    /\ \E r \in txn[w].rule :
          /\ r.model = "own" => \A i \in DOMAIN rules : rules[i].model # "own"
          /\ rules' = Append(rules, [r EXCEPT !.alone = Alone(w)])
    /\ End(w)
    /\ UNCHANGED <<board, margin, record, today>>

(* update_interval: a limit that is not given stays; none can be removed.  *)
UpdateRule(i, t, on) ==
    LET r == rules[i]
        new == [r EXCEPT !.kind = t.kind, !.on = on,
                         !.km = IF t.km = 0 THEN r.km ELSE t.km,
                         !.days = IF t.days = 0 THEN r.days ELSE t.days]
    IN /\ Valid(new)
       /\ rules' = [rules EXCEPT ![i] = new]
       /\ UNCHANGED <<board, margin, record, today, txn>>

(* update_settings *)
SetMargin(m) ==
    /\ margin' = m
    /\ UNCHANGED <<board, rules, record, today, txn>>

--------------------------------------------------------------------------------
(* The vehicle *)

(* Mutant: a reading is the distance since the last one. *)
RaiseAdding(km) == odometer' = odometer + km

(* _raise_vehicle_mileage *)
Raise(km) == odometer' = IF km > odometer THEN km ELSE odometer

(* create_history, and _complete_job for today: the item is among the      *)
(* lines, if it is still in the catalogue, or it is not.                   *)
Visited(v) ==
    /\ v.at <= today /\ Cardinality(visits) < Visits
    /\ v.op # "none" => catalogued
    /\ visits' = visits \cup {v}
    /\ Raise(v.km)
    /\ UNCHANGED <<board, plan, today, txn>>

(* replace_history_lines, with another reading or the one there is.        *)
ReplaceLines(v, km, op) ==
    /\ op # "none" => catalogued
    /\ visits' = (visits \ {v}) \cup {[v EXCEPT !.km = km, !.op = op]}
    /\ IF km = v.km THEN UNCHANGED odometer ELSE Raise(km)
    /\ UNCHANGED <<board, plan, today, txn>>

DeleteVisit(v) ==
    /\ visits' = visits \ {v}
    /\ UNCHANGED <<board, plan, odometer, today, txn>>

(* submit_customer_claim takes the customer's reading, lower or not.       *)
Report(km) ==
    /\ odometer' = km
    /\ UNCHANGED <<board, plan, visits, today, txn>>

Day ==
    /\ today < Horizon
    /\ today' = today + 1
    /\ UNCHANGED <<board, plan, record, txn>>

Abort(w) ==
    /\ ~Idle(w)
    /\ txn' = [txn EXCEPT ![w] = NoTxn]
    /\ UNCHANGED <<board, plan, record, today>>

Inserts(w) ==
    \/ \E file \in Files : PublishRead(w, file)
    \/ \E model \in {"any", "own"}, t \in Terms : RuleRead(w, NewRule(model, t))
    \/ NumberRead(w) \/ PublishCommit(w) \/ RuleCommit(w) \/ Abort(w)

Settings ==
    \/ \E i \in DOMAIN rules, t \in Terms, on \in BOOLEAN : UpdateRule(i, t, on)
    \/ \E m \in Margins : SetMargin(m)
    \/ SwitchItem

History ==
    \/ \E v \in Visit : Visited(v)
    \/ \E v \in visits, km \in 0 .. Far, op \in Operations \cup {"none"} : ReplaceLines(v, km, op)
    \/ \E v \in visits : DeleteVisit(v)
    \/ \E km \in 0 .. Far : Report(km)
    \/ Day

Next == Settings \/ History \/ \E w \in Workers : Inserts(w)

Spec == Init /\ [][Next]_vars

--------------------------------------------------------------------------------
(* The maintenance status *)

(* operation_qualifies *)
Qualifies(kind, op) ==
    \/ kind = "inspection" /\ op = "inspected"
    \/ kind = "scheduled" /\ op = "serviced"

(* _pick_interval: the model's own, or else the one for every model.       *)
Picked ==
    LET On(model) == {i \in DOMAIN rules : rules[i].on /\ rules[i].model = model}
    IN IF On("own") # {} THEN On("own") ELSE On("any")

Proofs(r) == {v \in visits : Qualifies(r.kind, v.op)}

Newest(S) == {v \in S : \A u \in S : u.at <= v.at}

(* Mutant: the newest line, whatever was done. *)
LastEventsAny(r) == Newest({v \in visits : v.op # "none"})

(* _latest_qualifying_events: the newest, either of two of one instant.    *)
LastEvents(r) == Newest(Proofs(r))

(* One track of evaluate_item_status: what is left until the limit.        *)
Track(left, late) == IF left < late THEN 3 ELSE IF left <= margin THEN 2 ELSE 1

(* evaluate_item_status, by severity: 3 is overdue, 2 is due soon, 1 is    *)
(* current, 0 says nothing (no_interval, not_on_record).                   *)
Severity(r, v) ==
    IF r.kind = "condition" \/ ~Qualifies(r.kind, v.op) \/ odometer < v.km THEN 0
    ELSE LET km == IF r.km = 0 THEN 0 ELSE Track(v.km + r.km - odometer, 1)
             days == IF r.days = 0 THEN 0 ELSE Track(v.at + r.days - today, 0)
         IN IF km > days THEN km ELSE days

(* evaluate_vehicle: the item is due soon or overdue. *)
Due == \E i \in Picked : \E v \in LastEvents(rules[i]) : Severity(rules[i], v) >= 2

(* list_call_list: vehicles with such an item, of those that are active. *)
OnCallList == catalogued /\ Due

--------------------------------------------------------------------------------
(* Properties *)

(* "Only one `published` row should be current": the board shows the       *)
(* version that was published last, and no other is published, under       *)
(* numbers that only rise, except for versions published at once.          *)
BoardIsCurrent ==
    /\ \A i \in Published : versions[i].alone => i = Len(versions)
    /\ versions # <<>> /\ Last(versions).alone => Current = {Len(versions)}
    /\ \A i, j \in DOMAIN versions :
          i < j /\ versions[j].alone => versions[i].no < versions[j].no

(* "An inspection is never a replacement.  Status engines must not treat   *)
(* `inspected` as evidence that the part was serviced": a vehicle that is  *)
(* due leaves the call list by a service, by a change of the plan or of    *)
(* the records that prove the service, or by a lower odometer reading, and *)
(* neither by the time that passes nor by any other visit.                 *)
DueUntilServed ==
    [][/\ odometer' >= odometer /\ UNCHANGED <<plan, catalogued>>
       /\ OnCallList
       /\ \A i \in Picked : Proofs(rules[i])' = Proofs(rules[i])
       => OnCallList']_vars

=============================================================================

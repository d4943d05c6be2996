------------------------- MODULE ReservationsProofs -------------------------
(***************************************************************************)
(* Proofs about Reservations, for every set of vehicles, reservation ids   *)
(* and workers.                                                            *)
(***************************************************************************)
EXTENDS Reservations, TLAPS

Steps == {"idle", "check", "flush", "release", "commit"}

(* A session that writes well-typed rows leaves well-typed tables. *)
LEMMA PersistTyped ==
    ASSUME TypeOK, NEW x \in Txn, Persist(x)
    PROVE  /\ availability' \in [Vehicles -> Availability]
           /\ status' \in [Holds -> HoldStatus \cup {"none"}]
           /\ lapsed' \in [Holds -> BOOLEAN]
           /\ lead' \in [Holds -> LeadStage]
           /\ sub' \in [Vehicles -> {"off", "open", "notified"}]
  BY DEF TypeOK, Persist, StatusAfter, LeadAfter, Txn, LeadStage, HoldStatus, Active, Ended

LEMMA GotoTyped ==
    ASSUME TypeOK, NEW w \in Workers, NEW x \in Txn, NEW step \in Steps, Goto(w, x, step)
    PROVE  /\ pc' \in [Workers -> {"idle", "check", "flush", "release", "commit"}]
           /\ txn' \in [Workers -> Txn]
  BY DEF TypeOK, Goto, Steps

LEMMA NoTxnTyped == NoTxn \in Txn
  BY DEF NoTxn, Txn, HoldStatus, Active, Ended, Availability

(* set_availability keeps the types, whatever delivery does. *)
LEMMA SetAvailabilityTyped ==
    ASSUME TypeOK, NEW w \in Workers, NEW v \in Vehicles, NEW previous,
           NEW x \in Txn, NEW strict \in BOOLEAN, NEW step \in Steps,
           SetAvailability(w, v, previous, x, strict, step)
    PROVE  TypeOK'
<1> DEFINE y == [x EXCEPT !.dirty = @ \cup {v}]
<1>y. /\ y \in Txn
      /\ [y EXCEPT !.told = @ \cup {v}] \in Txn
      /\ [y EXCEPT !.rows = {}, !.dirty = {}, !.told = {v}] \in Txn
  BY DEF Txn
<1>1. CASE previous = x.next
  <2>1. Goto(w, x, step) /\ UNCHANGED <<db, alerted>>
    BY <1>1 DEF SetAvailability
  <2>2. QED
    BY <2>1, GotoTyped DEF TypeOK, db
<1>2. CASE previous # x.next /\ sub[v] # "open"
  <2>1. Goto(w, y, step) /\ UNCHANGED <<db, alerted>>
    BY <1>2 DEF SetAvailability
  <2> HIDE DEF y
  <2>2. QED
    BY <2>1, <1>y, GotoTyped DEF TypeOK, db
<1>3. CASE previous # x.next /\ sub[v] = "open"
  <2>1. Alert(w, v, y, strict, step)
    BY <1>3 DEF SetAvailability
  <2> HIDE DEF y
  <2>2. alerted' \in [Vehicles -> BOOLEAN]
    BY <2>1, PushAssumption DEF Alert, TypeOK
  <2>3. CASE Goto(w, [y EXCEPT !.told = @ \cup {v}], step) /\ UNCHANGED db
    BY <2>2, <2>3, <1>y, GotoTyped DEF TypeOK, db
  <2>4. CASE (Rollback(w) \/ Goto(w, y, step)) /\ UNCHANGED db
    <3>1. CASE Goto(w, y, step)
      BY <2>2, <2>4, <3>1, <1>y, GotoTyped DEF TypeOK, db
    <3>2. CASE Rollback(w)
      <4>1. Goto(w, NoTxn, "idle") /\ "idle" \in Steps
        BY <3>2 DEF Rollback, Steps
      <4>2. QED
        BY <2>2, <2>4, <4>1, NoTxnTyped, GotoTyped DEF TypeOK, db
    <3>3. QED
      BY <2>4, <3>1, <3>2
  <2>5. CASE Persist(y) /\ Goto(w, [y EXCEPT !.rows = {}, !.dirty = {}, !.told = {v}], step)
    <3>1. /\ pc' \in [Workers -> {"idle", "check", "flush", "release", "commit"}]
          /\ txn' \in [Workers -> Txn]
      BY <2>5, <1>y, GotoTyped
    <3>2. QED
      BY <3>1, <2>2, <2>5, <1>y, PersistTyped DEF TypeOK
  <2>6. QED
    BY <2>1, <2>3, <2>4, <2>5 DEF Alert
<1>4. QED
  BY <1>1, <1>2, <1>3

LEMMA CommitTyped ==
    ASSUME TypeOK, NEW w \in Workers, NEW op, Commit(w, op)
    PROVE  TypeOK'
<1>1. txn[w] \in Txn /\ Persist(txn[w]) /\ Goto(w, NoTxn, "idle") /\ UNCHANGED alerted
  BY DEF TypeOK, Commit, Rollback
<1>2. "idle" \in Steps
  BY DEF Steps
<1>3. /\ pc' \in [Workers -> {"idle", "check", "flush", "release", "commit"}]
      /\ txn' \in [Workers -> Txn]
  BY <1>1, <1>2, NoTxnTyped, GotoTyped
<1>4. QED
  BY <1>1, <1>3, PersistTyped DEF TypeOK

(* A step that only moves the worker's session. *)
LEMMA MoveTyped ==
    ASSUME TypeOK, NEW w \in Workers, NEW x \in Txn, NEW step \in Steps,
           Goto(w, x, step), UNCHANGED <<db, alerted>>
    PROVE  TypeOK'
  BY GotoTyped DEF TypeOK, db

(* Every worker step keeps the types: one case per action. *)
LEMMA StepTyped ==
    ASSUME TypeOK, Next
    PROVE  TypeOK'
<1> USE DEF Steps
<1>h. ASSUME NEW h \in Holds
      PROVE  CarOf[h] \in Vehicles /\ status[h] \in HoldStatus \cup {"none"}
  BY CarOfAssumption DEF TypeOK
<1>1. ASSUME NEW w \in Workers, NEW h \in Holds, CreateRead(w, h)
      PROVE  TypeOK'
  <2> DEFINE x == [NoTxn EXCEPT !.op = "create", !.rows = {h}, !.mark = "pending",
                                !.todo = {CarOf[h]}, !.next = "reserved",
                                !.seen = availability[CarOf[h]]]
  <2>1. x \in Txn
    BY <1>h DEF TypeOK, NoTxn, Txn, HoldStatus, Active, Ended, Availability
  <2>2. Goto(w, x, "check") /\ UNCHANGED <<db, alerted>>
    BY <1>1 DEF CreateRead
  <2> QED
    BY <2>1, <2>2, MoveTyped
<1>2. ASSUME NEW w \in Workers, CreateCheck(w)
      PROVE  TypeOK'
  <2>1. PICK v \in txn[w].todo :
            \/ Goto(w, NoTxn, "idle") /\ UNCHANGED <<db, alerted>>
            \/ SetAvailability(w, v, txn[w].seen, [txn[w] EXCEPT !.todo = {}],
                               FALSE, "commit")
    BY <1>2 DEF CreateCheck, Rollback
  <2>2. v \in Vehicles /\ [txn[w] EXCEPT !.todo = {}] \in Txn
    BY <2>1 DEF TypeOK, Txn
  <2> QED
    BY <2>1, <2>2, MoveTyped, NoTxnTyped, SetAvailabilityTyped
<1>3. ASSUME NEW w \in Workers, NEW h \in Holds, CancelRead(w, h)
      PROVE  TypeOK'
  <2> DEFINE x == [NoTxn EXCEPT !.op = "cancel", !.rows = {h}, !.mark = "cancelled",
                                !.todo = {CarOf[h]},
                                !.seen = availability[CarOf[h]],
                                !.lose = lead[h] = "open"]
  <2>1. x \in Txn
    BY <1>h DEF TypeOK, NoTxn, Txn, HoldStatus, Active, Ended, Availability
  <2>2. Goto(w, x, "flush") /\ UNCHANGED <<db, alerted>>
    BY <1>3 DEF CancelRead
  <2> QED
    BY <2>1, <2>2, MoveTyped
<1>4. ASSUME NEW w \in Workers, CancelFlush(w)
      PROVE  TypeOK'
  <2>1. PICK v \in txn[w].todo :
            LET x == [txn[w] EXCEPT !.todo = {}]
            IN \/ SetAvailability(w, v, x.seen, x, FALSE, "commit")
               \/ Goto(w, x, "commit") /\ UNCHANGED <<db, alerted>>
    BY <1>4 DEF CancelFlush
  <2>2. v \in Vehicles /\ [txn[w] EXCEPT !.todo = {}] \in Txn
    BY <2>1 DEF TypeOK, Txn
  <2> QED
    BY <2>1, <2>2, MoveTyped, SetAvailabilityTyped
<1>5. ASSUME NEW w \in Workers, NEW op \in SweepRuns, SweepRead(w, op)
      PROVE  TypeOK'
  <2> DEFINE due == {h \in Holds : status[h] \in Releasable /\ lapsed[h]}
             x == [NoTxn EXCEPT !.op = op, !.rows = due, !.mark = "expired",
                                !.todo = {CarOf[h] : h \in due}]
  <2>1. x \in Txn
    BY <1>h, BoundsAssumption
       DEF NoTxn, Txn, HoldStatus, Active, Ended, Availability
  <2>2. Goto(w, x, "flush") /\ UNCHANGED <<db, alerted>>
    BY <1>5 DEF SweepRead
  <2> QED
    BY <2>1, <2>2, MoveTyped
<1>6. ASSUME NEW w \in Workers, SweepFlush(w) \/ SweepDryRun(w) \/ Abort(w)
      PROVE  TypeOK'
  <2>1. txn[w] \in Txn
    BY DEF TypeOK
  <2> QED
    BY <1>6, <2>1, MoveTyped, NoTxnTyped DEF SweepFlush, SweepDryRun, Abort, Rollback
<1>7. ASSUME NEW w \in Workers, NEW v \in Vehicles, SweepRelease(w, v)
      PROVE  TypeOK'
  <2> DEFINE x == [txn[w] EXCEPT !.todo = @ \ {v}]
             step == IF x.todo = {} THEN "commit" ELSE "release"
  <2>1. x \in Txn /\ step \in Steps
    BY DEF TypeOK, Txn
  <2>2. \/ SetAvailability(w, v, availability[v], x, FALSE, step)
        \/ Goto(w, x, step) /\ UNCHANGED <<db, alerted>>
    BY <1>7 DEF SweepRelease
  <2> QED
    BY <2>1, <2>2, MoveTyped, SetAvailabilityTyped
<1>8. ASSUME NEW w \in Workers, NEW v \in Vehicles, NEW next \in DeskChoices,
             NEW strict \in BOOLEAN, StatusRead(w, v, next, strict)
      PROVE  TypeOK'
  <2> DEFINE x == [NoTxn EXCEPT !.op = "status", !.next = next]
  <2>1. x \in Txn
    BY BoundsAssumption DEF NoTxn, Txn, HoldStatus, Active, Ended, Availability
  <2>2. SetAvailability(w, v, availability[v], x, strict, "commit")
    BY <1>8 DEF StatusRead
  <2> QED
    BY <2>1, <2>2, SetAvailabilityTyped
<1>9. ASSUME NEW w \in Workers,
             CreateCommit(w) \/ CancelCommit(w) \/ SweepCommit(w) \/ StatusCommit(w)
      PROVE  TypeOK'
  BY <1>9, CommitTyped DEF CreateCommit, CancelCommit, SweepCommit, StatusCommit
<1>10. ASSUME NEW w \in Workers, NEW v \in Vehicles, Subscribe(w, v) \/ Unsubscribe(w, v)
       PROVE  TypeOK'
  BY <1>10 DEF Subscribe, Unsubscribe, TypeOK
<1>11. ASSUME NEW w \in Workers, NEW h \in Holds, NEW stage \in LeadCloses,
              CloseLead(w, h, stage)
       PROVE  TypeOK'
  BY <1>11, BoundsAssumption DEF CloseLead, TypeOK, LeadStage
<1>12. ASSUME NEW w \in Workers, NEW h \in Holds, NEW paid \in Payments,
              TakePayment(w, h, paid)
       PROVE  TypeOK'
  BY <1>12, BoundsAssumption DEF TakePayment, TypeOK, HoldStatus, Active
<1>13. ASSUME NEW h \in Holds, Lapse(h)
       PROVE  TypeOK'
  BY <1>13 DEF Lapse, TypeOK
<1> QED
  BY <1>1, <1>2, <1>3, <1>4, <1>5, <1>6, <1>7, <1>8, <1>9, <1>10, <1>11, <1>12, <1>13,
     BoundsAssumption DEF Next, Sweep, Customer, Desk, Availability

(* Every table and every session keeps its type, for any number of         *)
(* vehicles, reservations and concurrent workers.                          *)
THEOREM TypeCorrect == Spec => []TypeOK
<1>1. Init => TypeOK
  BY NoTxnTyped DEF Init, TypeOK
<1>2. TypeOK /\ [Next]_vars => TypeOK'
  <2> SUFFICES ASSUME TypeOK, [Next]_vars PROVE TypeOK'
    OBVIOUS
  <2>1. CASE Next
    BY <2>1, StepTyped
  <2>2. CASE UNCHANGED vars
    BY <2>2 DEF vars, TypeOK
  <2> QED
    BY <2>1, <2>2
<1> QED
  BY <1>1, <1>2, PTL DEF Spec

--------------------------------------------------------------------------------
(* A worker's step, as the reservation rows see it: nobody else's session  *)
(* moves, and either no row changes or the rows of session x are given its *)
(* mark and leave the session.                                             *)
RowStep(w, x) ==
    /\ \A u \in Workers \ {w} : txn'[u] = txn[u]
    /\ \/ /\ status' = status
          /\ \/ txn'[w] = NoTxn
             \/ /\ txn'[w].op = x.op /\ txn'[w].mark = x.mark
                /\ txn'[w].rows = x.rows
       \/ /\ status' = StatusAfter(x)
          /\ \/ txn'[w] = NoTxn
             \/ /\ txn'[w].op = x.op /\ txn'[w].mark = x.mark
                /\ txn'[w].rows = {}

LEMMA MoveRowStep ==
    ASSUME TypeOK, NEW w \in Workers, NEW x \in Txn, NEW step, Goto(w, x, step),
           status' = status
    PROVE  RowStep(w, x)
  BY DEF TypeOK, Goto, RowStep

LEMMA RollbackRowStep ==
    ASSUME TypeOK, NEW w \in Workers, NEW x, NEW step, Goto(w, NoTxn, step),
           status' = status
    PROVE  RowStep(w, x)
  BY DEF TypeOK, Goto, RowStep

LEMMA SetAvailabilityRowStep ==
    ASSUME TypeOK, NEW w \in Workers, NEW v \in Vehicles, NEW previous,
           NEW x \in Txn, NEW strict \in BOOLEAN, NEW step,
           SetAvailability(w, v, previous, x, strict, step)
    PROVE  RowStep(w, x)
<1> DEFINE y == [x EXCEPT !.dirty = @ \cup {v}]
<1>1. /\ y \in Txn /\ y.op = x.op /\ y.mark = x.mark /\ y.rows = x.rows
      /\ StatusAfter(y) = StatusAfter(x)
  BY DEF Txn, StatusAfter
<1>t. LET z == [y EXCEPT !.told = @ \cup {v}]
      IN z \in Txn /\ z.op = x.op /\ z.mark = x.mark /\ z.rows = x.rows
  BY <1>1 DEF Txn
<1>2. CASE Goto(w, x, step) /\ UNCHANGED <<db, alerted>>
  BY <1>2, MoveRowStep DEF db
<1>3. CASE Goto(w, y, step) /\ UNCHANGED <<db, alerted>>
  BY <1>1, <1>3, MoveRowStep DEF db, RowStep
<1>4. CASE Alert(w, v, y, strict, step)
  <2>1. CASE /\ UNCHANGED db
             /\ \E z \in {[y EXCEPT !.told = @ \cup {v}], y, NoTxn} :
                   \E s \in {step, "idle"} : Goto(w, z, s)
    <3>1. PICK z \in {[y EXCEPT !.told = @ \cup {v}], y, NoTxn} :
              \E s \in {step, "idle"} : Goto(w, z, s)
      BY <2>1
    <3>2. CASE z = NoTxn
      BY <2>1, <3>1, <3>2, RollbackRowStep DEF db
    <3>3. CASE z # NoTxn
      <4>1. z \in Txn /\ z.op = x.op /\ z.mark = x.mark /\ z.rows = x.rows
        <5> HIDE DEF y
        <5> QED
          BY <1>1, <1>t, <3>3
      <4>2. RowStep(w, z)
        BY <2>1, <3>1, <4>1, MoveRowStep DEF db
      <4>3. StatusAfter(z) = StatusAfter(x)
        BY <4>1 DEF StatusAfter
      <4>4. QED
        BY <4>1, <4>2, <4>3 DEF RowStep
    <3>4. QED
      BY <3>2, <3>3
  <2>2. CASE Persist(y) /\ Goto(w, [y EXCEPT !.rows = {}, !.dirty = {}, !.told = {v}], step)
    <3>1. status' = StatusAfter(x)
      BY <1>1, <2>2 DEF Persist
    <3>2. txn' = [txn EXCEPT ![w] = [y EXCEPT !.rows = {}, !.dirty = {}, !.told = {v}]]
      BY <2>2 DEF Goto
    <3>3. /\ \A u \in Workers \ {w} : txn'[u] = txn[u]
          /\ txn'[w] = [y EXCEPT !.rows = {}, !.dirty = {}, !.told = {v}]
      BY <3>2 DEF TypeOK
    <3>4. txn'[w].op = x.op /\ txn'[w].mark = x.mark /\ txn'[w].rows = {}
      BY <1>1, <3>3 DEF Txn
    <3>5. QED
      BY <3>1, <3>3, <3>4 DEF RowStep
  <2>3. QED
    BY <1>4, <2>1, <2>2 DEF Alert, Rollback
<1>5. QED
  BY <1>2, <1>3, <1>4 DEF SetAvailability

(* Rows a session owns stay its own, and none it ends comes back. *)
LEMMA RowStepSafe ==
    ASSUME TypeOK, SessionsOwnTheirRows, NEW w \in Workers, NEW x \in Txn,
           OwnsItsRows(w, x), RowStep(w, x)
    PROVE  /\ SessionsOwnTheirRows'
           /\ \A h \in Holds : status[h] \in Ended => status'[h] \in Ended
<1> USE DEF Ended, SweepOps
<1>1. \A h \in Holds : status[h] \in Ended => status'[h] \in Ended
  <2> SUFFICES ASSUME NEW h \in Holds, status[h] \in Ended PROVE status'[h] \in Ended
    OBVIOUS
  <2>1. CASE status' = status
    BY <2>1
  <2>2. CASE status' = StatusAfter(x)
    BY <2>2 DEF StatusAfter, OwnsItsRows, Txn
  <2> QED
    BY <2>1, <2>2 DEF RowStep
<1>2. \A h \in Holds \ x.rows : status'[h] = status[h]
  BY DEF RowStep, StatusAfter
<1>3. \A h \in Holds : status[h] # "none" => status'[h] # "none"
  BY DEF RowStep, StatusAfter, OwnsItsRows, Txn
<1>4. ASSUME NEW u \in Workers \ {w} PROVE OwnsItsRows(u, txn[u])'
  <2>1. txn'[u] = txn[u] /\ txn[u] \in Txn /\ OwnsItsRows(u, txn[u])
    BY DEF RowStep, SessionsOwnTheirRows, TypeOK
  <2>2. txn'[w].op = "create" => x.op = "create" /\ txn'[w].rows \subseteq x.rows
    BY DEF RowStep, NoTxn
  <2>3. \A r \in Workers \ {u} : txn'[r].op = "create" =>
            \/ r # w /\ txn'[r] = txn[r]
            \/ r = w /\ x.op = "create" /\ txn'[r].rows \subseteq x.rows
    BY <2>2 DEF RowStep
  <2>4. CASE txn[u].op = "create"
    <3>1. ASSUME NEW h \in txn[u].rows PROVE status'[h] = "none"
      <4>1. h \in Holds /\ status[h] = "none"
        BY <2>1, <2>4 DEF OwnsItsRows, Txn
      <4>2. CASE h \in x.rows
        BY <4>1, <4>2, <2>1, <2>4 DEF OwnsItsRows, RowStep, StatusAfter, Txn
      <4>3. CASE h \notin x.rows
        BY <4>1, <4>3, <1>2
      <4> QED
        BY <4>2, <4>3
    <3>2. ASSUME NEW h \in txn[u].rows, NEW r \in Workers \ {u}, txn'[r].op = "create"
          PROVE  h \notin txn'[r].rows
      BY <2>1, <2>3, <2>4, <3>2 DEF OwnsItsRows
    <3> QED
      BY <2>1, <2>4, <3>1, <3>2 DEF OwnsItsRows
  <2>5. CASE txn[u].op # "create"
    BY <2>1, <2>5, <1>3 DEF OwnsItsRows, Txn
  <2> QED
    BY <2>4, <2>5
<1>5. OwnsItsRows(w, txn[w])'
  <2>1. CASE txn'[w] = NoTxn
    BY <2>1 DEF OwnsItsRows, NoTxn
  <2>2. CASE txn'[w].op = x.op /\ txn'[w].mark = x.mark /\ txn'[w].rows = {}
    BY <2>2 DEF OwnsItsRows
  <2>3. CASE /\ status' = status /\ txn'[w].op = x.op /\ txn'[w].mark = x.mark
             /\ txn'[w].rows = x.rows
    BY <2>3 DEF OwnsItsRows, RowStep
  <2> QED
    BY <2>1, <2>2, <2>3 DEF RowStep
<1> QED
  BY <1>1, <1>4, <1>5 DEF SessionsOwnTheirRows

(* One step of the system: which session it started from, row by row. *)
LEMMA NextSafe ==
    ASSUME TypeOK, SessionsOwnTheirRows, Next
    PROVE  /\ SessionsOwnTheirRows'
           /\ \A h \in Holds : status[h] \in Ended => status'[h] \in Ended
<1> DEFINE Goal == /\ SessionsOwnTheirRows'
                   /\ \A h \in Holds : status[h] \in Ended => status'[h] \in Ended
<1>m. ASSUME NEW w \in Workers, NEW x \in Txn, OwnsItsRows(w, x), RowStep(w, x)
      PROVE  Goal
  BY <1>m, RowStepSafe
<1>x. ASSUME NEW w \in Workers, NEW x \in Txn, x.op = txn[w].op,
             x.mark = txn[w].mark, x.rows = txn[w].rows
      PROVE  OwnsItsRows(w, x)
  BY <1>x DEF SessionsOwnTheirRows, OwnsItsRows
<1>r. ASSUME NEW w \in Workers, Goto(w, NoTxn, "idle"), status' = status
      PROVE  Goal
  <2>1. txn[w] \in Txn
    BY DEF TypeOK
  <2> QED
    BY <1>m, <1>r, <1>x, <2>1, RollbackRowStep
<1>c. ASSUME NEW w \in Workers, NEW op, Commit(w, op)
      PROVE  Goal
  <2>1. txn[w] \in Txn /\ status' = StatusAfter(txn[w])
    BY <1>c DEF TypeOK, Commit, Persist
  <2>2. txn'[w] = NoTxn /\ \A u \in Workers \ {w} : txn'[u] = txn[u]
    BY <1>c DEF TypeOK, Commit, Rollback, Goto
  <2>3. RowStep(w, txn[w])
    BY <2>1, <2>2 DEF RowStep
  <2> QED
    BY <1>m, <1>x, <2>1, <2>3
<1>h. \A h \in Holds : CarOf[h] \in Vehicles /\ status[h] \in HoldStatus \cup {"none"}
  BY CarOfAssumption DEF TypeOK
<1>1. ASSUME NEW w \in Workers, NEW h \in Holds, CreateRead(w, h)
      PROVE  Goal
  <2> DEFINE x == [NoTxn EXCEPT !.op = "create", !.rows = {h}, !.mark = "pending",
                                !.todo = {CarOf[h]}, !.next = "reserved",
                                !.seen = availability[CarOf[h]]]
  <2>1. /\ x \in Txn /\ x.op = "create" /\ x.rows = {h} /\ x.mark = "pending"
    BY <1>h DEF TypeOK, NoTxn, Txn, HoldStatus, Active, Ended, Availability
  <2>2. Goto(w, x, "check") /\ status' = status /\ status[h] = "none" /\ ~Drawn(h)
    BY <1>1 DEF CreateRead, db
  <2> HIDE DEF x
  <2>3. OwnsItsRows(w, x)
    BY <2>1, <2>2 DEF OwnsItsRows, Drawn, SweepOps
  <2> QED
    BY <1>m, <2>1, <2>2, <2>3, MoveRowStep
<1>2. ASSUME NEW w \in Workers, CreateCheck(w)
      PROVE  Goal
  <2> DEFINE x == [txn[w] EXCEPT !.todo = {}]
  <2>1. PICK v \in txn[w].todo :
            \/ Goto(w, NoTxn, "idle") /\ UNCHANGED <<db, alerted>>
            \/ SetAvailability(w, v, txn[w].seen, x, FALSE, "commit")
    BY <1>2 DEF CreateCheck, Rollback
  <2>2. /\ v \in Vehicles /\ x \in Txn /\ x.op = txn[w].op
        /\ x.mark = txn[w].mark /\ x.rows = txn[w].rows
    BY <2>1 DEF TypeOK, Txn
  <2> HIDE DEF x
  <2>3. CASE SetAvailability(w, v, txn[w].seen, x, FALSE, "commit")
    BY <1>m, <1>x, <2>2, <2>3, SetAvailabilityRowStep
  <2> QED
    BY <1>r, <2>1, <2>3 DEF db
<1>3. ASSUME NEW w \in Workers, NEW h \in Holds, CancelRead(w, h)
      PROVE  Goal
  <2> DEFINE x == [NoTxn EXCEPT !.op = "cancel", !.rows = {h}, !.mark = "cancelled",
                                !.todo = {CarOf[h]},
                                !.seen = availability[CarOf[h]],
                                !.lose = lead[h] = "open"]
  <2>a. x \in Txn
    BY <1>h DEF TypeOK, NoTxn, Txn, HoldStatus, Active, Ended, Availability
  <2>b. /\ x.op = "cancel" /\ x.rows = {h} /\ x.mark = "cancelled"
    BY DEF NoTxn
  <2>1. x \in Txn /\ x.op = "cancel" /\ x.rows = {h} /\ x.mark = "cancelled"
    BY <2>a, <2>b
  <2>2. Goto(w, x, "flush") /\ status' = status /\ status[h] # "none"
    BY <1>3 DEF CancelRead, db, CustomerCancellable
  <2> HIDE DEF x
  <2>3. OwnsItsRows(w, x)
    BY <2>1, <2>2 DEF OwnsItsRows, Ended
  <2> QED
    BY <1>m, <2>1, <2>2, <2>3, MoveRowStep
<1>4. ASSUME NEW w \in Workers, CancelFlush(w)
      PROVE  Goal
  <2> DEFINE x == [txn[w] EXCEPT !.todo = {}]
  <2>1. PICK v \in txn[w].todo :
            \/ SetAvailability(w, v, x.seen, x, FALSE, "commit")
            \/ Goto(w, x, "commit") /\ UNCHANGED <<db, alerted>>
    BY <1>4 DEF CancelFlush
  <2>2. /\ v \in Vehicles /\ x \in Txn /\ x.op = txn[w].op
        /\ x.mark = txn[w].mark /\ x.rows = txn[w].rows
    BY <2>1 DEF TypeOK, Txn
  <2> HIDE DEF x
  <2> QED
    BY <1>m, <1>x, <2>1, <2>2, SetAvailabilityRowStep, MoveRowStep DEF db
<1>5. ASSUME NEW w \in Workers, NEW op \in SweepRuns, SweepRead(w, op)
      PROVE  Goal
  <2> DEFINE due == {h \in Holds : status[h] \in Releasable /\ lapsed[h]}
             x == [NoTxn EXCEPT !.op = op, !.rows = due, !.mark = "expired",
                                !.todo = {CarOf[h] : h \in due}]
  <2>a. x \in Txn
    BY <1>h, BoundsAssumption
       DEF NoTxn, Txn, HoldStatus, Active, Ended, Availability
  <2>b. /\ x.op = op /\ x.rows = due /\ x.mark = "expired"
        /\ op \in {"sweep", "dry"}
    BY BoundsAssumption DEF NoTxn
  <2>1. /\ x \in Txn /\ x.op = op /\ x.rows = due /\ x.mark = "expired"
        /\ op \in {"sweep", "dry"}
    BY <2>a, <2>b
  <2>2. Goto(w, x, "flush") /\ status' = status /\ \A h \in due : status[h] # "none"
    BY <1>5 DEF SweepRead, db, Releasable
  <2> HIDE DEF x, due
  <2>3. OwnsItsRows(w, x)
    BY <2>1, <2>2 DEF OwnsItsRows, Ended
  <2> QED
    BY <1>m, <2>1, <2>2, <2>3, MoveRowStep
<1>6. ASSUME NEW w \in Workers, SweepFlush(w)
      PROVE  Goal
  <2>1. txn[w] \in Txn /\ Goto(w, txn[w], "release") /\ status' = status
    BY <1>6 DEF TypeOK, SweepFlush, db
  <2> QED
    BY <1>m, <1>x, <2>1, MoveRowStep
<1>7. ASSUME NEW w \in Workers, NEW v \in Vehicles, SweepRelease(w, v)
      PROVE  Goal
  <2> DEFINE x == [txn[w] EXCEPT !.todo = @ \ {v}]
             step == IF x.todo = {} THEN "commit" ELSE "release"
  <2>1. \/ SetAvailability(w, v, availability[v], x, FALSE, step)
        \/ Goto(w, x, step) /\ UNCHANGED <<db, alerted>>
    BY <1>7 DEF SweepRelease
  <2>2. /\ x \in Txn /\ x.op = txn[w].op
        /\ x.mark = txn[w].mark /\ x.rows = txn[w].rows
    BY DEF TypeOK, Txn
  <2> HIDE DEF x, step
  <2> QED
    BY <1>m, <1>x, <2>1, <2>2, SetAvailabilityRowStep, MoveRowStep DEF db
<1>8. ASSUME NEW w \in Workers, NEW v \in Vehicles, NEW next \in DeskChoices,
             NEW strict \in BOOLEAN, StatusRead(w, v, next, strict)
      PROVE  Goal
  <2> DEFINE x == [NoTxn EXCEPT !.op = "status", !.next = next]
  <2>1. x \in Txn /\ x.op = "status" /\ x.rows = {}
    BY BoundsAssumption DEF NoTxn, Txn, HoldStatus, Active, Ended, Availability
  <2>2. SetAvailability(w, v, availability[v], x, strict, "commit")
    BY <1>8 DEF StatusRead
  <2> HIDE DEF x
  <2>3. OwnsItsRows(w, x)
    BY <2>1 DEF OwnsItsRows, SweepOps
  <2> QED
    BY <1>m, <2>1, <2>2, <2>3, SetAvailabilityRowStep
<1>9. ASSUME UNCHANGED <<status, txn>>
      PROVE  Goal
  BY <1>9 DEF SessionsOwnTheirRows, OwnsItsRows
<1>10. ASSUME NEW w \in Workers, NEW h \in Holds, NEW paid \in Payments,
              TakePayment(w, h, paid)
       PROVE  Goal
  <2>1. /\ txn' = txn
        /\ \A g \in Holds : /\ status[g] \in Ended \cup {"none"} => status'[g] = status[g]
                            /\ status[g] # "none" => status'[g] # "none"
    BY <1>10, BoundsAssumption DEF TakePayment, TypeOK, Active, Ended
  <2>2. ASSUME NEW u \in Workers PROVE OwnsItsRows(u, txn[u])'
    BY <2>1 DEF SessionsOwnTheirRows, OwnsItsRows, TypeOK, Txn
  <2> QED
    BY <2>1, <2>2 DEF SessionsOwnTheirRows
<1>11. ASSUME NEW w \in Workers, Sweep(w)
       PROVE  Goal
  <2>1. CASE SweepCommit(w)
    BY <1>c, <2>1 DEF SweepCommit
  <2>2. CASE SweepDryRun(w)
    BY <1>r, <2>2 DEF SweepDryRun, Rollback, db
  <2> QED
    BY <1>11, <1>5, <1>6, <1>7, <2>1, <2>2 DEF Sweep
<1>12. ASSUME NEW w \in Workers, Customer(w)
       PROVE  Goal
  <2>1. CASE CreateCommit(w) \/ CancelCommit(w)
    BY <1>c, <2>1 DEF CreateCommit, CancelCommit
  <2>2. ASSUME NEW v \in Watched, Subscribe(w, v) \/ Unsubscribe(w, v)
        PROVE  Goal
    BY <1>9, <2>2 DEF Subscribe, Unsubscribe
  <2> QED
    BY <1>12, <1>1, <1>2, <1>3, <1>4, <2>1, <2>2 DEF Customer
<1>13. ASSUME NEW w \in Workers, Desk(w)
       PROVE  Goal
  <2>1. CASE StatusCommit(w)
    BY <1>c, <2>1 DEF StatusCommit
  <2>2. ASSUME NEW h \in Holds, NEW stage \in LeadCloses, CloseLead(w, h, stage)
        PROVE  Goal
    BY <1>9, <2>2 DEF CloseLead
  <2> QED
    BY <1>13, <1>8, <1>10, <2>1, <2>2 DEF Desk
<1>14. ASSUME NEW w \in Workers, Abort(w)
       PROVE  Goal
  BY <1>r, <1>14 DEF Abort, Rollback, db
<1>15. ASSUME NEW h \in Holds, Lapse(h)
       PROVE  Goal
  BY <1>9, <1>15 DEF Lapse
<1> QED
  BY <1>11, <1>12, <1>13, <1>14, <1>15 DEF Next

(* Two requests never carry the same reservation id, and whatever a        *)
(* session is about to write blindly is its own row.                       *)
THEOREM SessionsOwnRows == Spec => []SessionsOwnTheirRows
<1>1. Init => SessionsOwnTheirRows
  BY DEF Init, SessionsOwnTheirRows, OwnsItsRows, NoTxn, SweepOps
<1>2. TypeOK /\ SessionsOwnTheirRows /\ [Next]_vars => SessionsOwnTheirRows'
  <2>1. TypeOK /\ SessionsOwnTheirRows /\ Next => SessionsOwnTheirRows'
    BY NextSafe
  <2>2. SessionsOwnTheirRows /\ UNCHANGED vars => SessionsOwnTheirRows'
    BY DEF vars, SessionsOwnTheirRows, OwnsItsRows
  <2> QED
    BY <2>1, <2>2
<1> QED
  BY <1>1, <1>2, TypeCorrect, PTL DEF Spec

(* However many handlers and sweeps overlap, are killed or retried, a hold *)
(* that was cancelled or expired never holds its car again.                *)
THEOREM EndedHoldsStayEnded == Spec => EndedHoldStaysEnded
<1>1. TypeOK /\ SessionsOwnTheirRows /\ [Next]_vars =>
        [\A h \in Holds : status[h] \in Ended => status'[h] \in Ended]_vars
  BY NextSafe
<1> QED
  BY <1>1, TypeCorrect, SessionsOwnRows, PTL DEF Spec, EndedHoldStaysEnded

--------------------------------------------------------------------------------
(* What the guards are worth when handlers overlap, but never with one car *)
(* in hand (CarsApart): then no sold car is walked back and no car is held *)
(* twice, for any number of workers, cars, holds and subscribers, and      *)
(* whatever delivery, crashes and drop_tokens' early commit do.            *)
(* MCReservationsSold.cfg shows that CarsApart cannot be dropped.          *)

(* A session a step of another worker leaves alone, with every row about   *)
(* the cars it has in hand.                                                *)
Spared(w) ==
    /\ txn'[w] = txn[w] /\ pc'[w] = pc[w]
    /\ \A v \in InHand(txn[w]) : availability'[v] = availability[v]
    /\ \A h \in Holds : CarOf[h] \in InHand(txn[w]) => status'[h] = status[h]

OthersSpared(w) == \A u \in Workers \ {w} : Spared(u)

LEMMA HandsAreCars ==
    ASSUME TypeOK, NEW w \in Workers
    PROVE  InHand(txn[w]) \subseteq Vehicles
  BY CarOfAssumption DEF TypeOK, Txn, InHand

(* Whoever writes only about the cars it has in hand, or has as the step   *)
(* ends, spares the others.                                                *)
LEMMA WithinHands ==
    ASSUME TypeOK, CarsApart, CarsApart', NEW w \in Workers,
           \A u \in Workers \ {w} : txn'[u] = txn[u] /\ pc'[u] = pc[u],
           NEW hand, hand \subseteq InHand(txn[w]) \cup InHand(txn'[w]),
           \A v \in Vehicles \ hand : availability'[v] = availability[v],
           \A h \in Holds : CarOf[h] \notin hand => status'[h] = status[h]
    PROVE  OthersSpared(w)
<1> SUFFICES ASSUME NEW u \in Workers \ {w} PROVE Spared(u)
  BY DEF OthersSpared
<1>1. InHand(txn[u]) \cap InHand(txn[w]) = {} /\ InHand(txn'[u]) \cap InHand(txn'[w]) = {}
  BY DEF CarsApart
<1>2. InHand(txn[u]) \cap hand = {} /\ InHand(txn[u]) \subseteq Vehicles
  BY <1>1, HandsAreCars
<1> QED BY <1>2 DEF Spared

LEMMA GotoMovesOne ==
    ASSUME TypeOK, NEW w \in Workers, NEW x, NEW step, Goto(w, x, step)
    PROVE  /\ txn'[w] = x /\ pc'[w] = step
           /\ \A u \in Workers \ {w} : txn'[u] = txn[u] /\ pc'[u] = pc[u]
  BY DEF TypeOK, Goto

LEMMA MoveSpares ==
    ASSUME TypeOK, CarsApart, CarsApart', NEW w \in Workers, NEW x, NEW step,
           Goto(w, x, step), UNCHANGED db
    PROVE  OthersSpared(w)
<1>1. UNCHANGED <<status, availability>>
  BY DEF db
<1> QED BY <1>1, GotoMovesOne DEF OthersSpared, Spared

LEMMA CommitSpares ==
    ASSUME TypeOK, CarsApart, CarsApart', NEW w \in Workers, NEW op, Commit(w, op)
    PROVE  OthersSpared(w)
<1> DEFINE hand == InHand(txn[w])
<1>1. /\ \A v \in Vehicles \ hand : availability'[v] = availability[v]
      /\ \A h \in Holds : CarOf[h] \notin hand => status'[h] = status[h]
  BY DEF Commit, Persist, StatusAfter, InHand
<1>2. Goto(w, NoTxn, "idle")
  BY DEF Commit, Rollback
<1> HIDE DEF hand
<1>3. \A u \in Workers \ {w} : txn'[u] = txn[u] /\ pc'[u] = pc[u]
  BY <1>2, GotoMovesOne
<1> QED BY <1>1, <1>3, WithinHands DEF hand

(* set_availability of a session that had the car in hand, or of one that  *)
(* has it when drop_tokens has committed.                                  *)
LEMMA SetAvailabilitySpares ==
    ASSUME TypeOK, CarsApart, CarsApart', NEW w \in Workers, NEW v \in Vehicles,
           NEW previous, NEW x \in Txn, NEW strict, NEW step,
           SetAvailability(w, v, previous, x, strict, step),
           InHand(x) \subseteq InHand(txn[w])
    PROVE  OthersSpared(w)
<1> DEFINE y == [x EXCEPT !.dirty = @ \cup {v}]
           e == [y EXCEPT !.rows = {}, !.dirty = {}, !.told = {v}]
<1>1. CASE UNCHANGED db /\ \E z, s : Goto(w, z, s)
  BY <1>1, MoveSpares
<1>2. CASE Persist(y) /\ Goto(w, e, step)
  <2>1. y.rows = x.rows /\ y.dirty = x.dirty \cup {v} /\ y.mark = x.mark /\ e.told = {v}
    BY DEF Txn
  <2>2. Persist(y)
    BY <1>2
  <2>3. txn'[w] = e /\ \A u \in Workers \ {w} : txn'[u] = txn[u] /\ pc'[u] = pc[u]
    <3> HIDE DEF e
    <3> QED BY <1>2, GotoMovesOne
  <2> HIDE DEF e, y
  <2> DEFINE hand == InHand(x) \cup {v}
  <2>4. hand \subseteq InHand(txn[w]) \cup InHand(txn'[w])
    BY <2>1, <2>3 DEF InHand
  <2>5. /\ \A u \in Vehicles \ hand : availability'[u] = availability[u]
        /\ \A h \in Holds : CarOf[h] \notin hand => status'[h] = status[h]
    BY <2>1, <2>2 DEF Persist, StatusAfter, InHand
  <2> HIDE DEF hand
  <2> QED BY <2>3, <2>4, <2>5, WithinHands
<1> QED BY <1>1, <1>2 DEF SetAvailability, Alert, Rollback, db

(* Every handler but a payment writes only about the cars it has in hand.  *)
LEMMA OthersAreSpared ==
    ASSUME TypeOK, CarsApart, CarsApart', NEW w \in Workers,
           Sweep(w) \/ Customer(w) \/ Desk(w) \/ Abort(w),
           ~ \E h \in Holds, paid \in Payments : TakePayment(w, h, paid)
    PROVE  OthersSpared(w)
<1>1. CASE UNCHANGED db /\ \E x, step : Goto(w, x, step)
  BY <1>1, MoveSpares
<1>2. CASE UNCHANGED <<availability, status, pc, txn>>
  BY <1>2 DEF OthersSpared, Spared
<1>3. ASSUME NEW op, Commit(w, op) PROVE OthersSpared(w)
  BY <1>3, CommitSpares
<1>4. ASSUME NEW v \in Vehicles, NEW todo, todo \subseteq txn[w].todo, NEW p, NEW strict, NEW step,
             SetAvailability(w, v, p, [txn[w] EXCEPT !.todo = todo], strict, step)
      PROVE  OthersSpared(w)
  <2> DEFINE x == [txn[w] EXCEPT !.todo = todo]
  <2>1. x \in Txn /\ InHand(x) \subseteq InHand(txn[w])
    BY <1>4 DEF TypeOK, Txn, InHand
  <2> HIDE DEF x
  <2> QED BY <1>4, <2>1, SetAvailabilitySpares DEF x
<1>5. CASE Sweep(w)
  <2>1. ASSUME NEW v \in Vehicles, SweepRelease(w, v) PROVE OthersSpared(w)
    <3>1. txn[w] \in Txn /\ [txn[w] EXCEPT !.todo = @ \ {v}] = [txn[w] EXCEPT !.todo = txn[w].todo \ {v}]
      BY DEF TypeOK
    <3> QED BY <1>1, <1>4, <2>1, <3>1 DEF SweepRelease
  <2>2. CASE (\E op \in SweepRuns : SweepRead(w, op)) \/ SweepFlush(w) \/ SweepDryRun(w)
    BY <1>1, <2>2 DEF SweepRead, SweepFlush, SweepDryRun, Rollback
  <2> QED BY <1>3, <1>5, <2>1, <2>2 DEF Sweep, SweepCommit
<1>6. CASE Customer(w)
  <2>1. CASE \E h \in Holds : CreateRead(w, h) \/ CancelRead(w, h)
    BY <1>1, <2>1 DEF CreateRead, CancelRead
  <2>2. CASE CreateCheck(w) \/ CancelFlush(w)
    <3>1. txn[w].todo \subseteq Vehicles /\ {} \subseteq txn[w].todo
      BY DEF TypeOK, Txn
    <3>2. PICK x : x = [txn[w] EXCEPT !.todo = {}]
      OBVIOUS
    <3>3. \/ UNCHANGED db /\ (Goto(w, x, "commit") \/ Rollback(w))
          \/ \E v \in txn[w].todo : \E p : SetAvailability(w, v, p, x, FALSE, "commit")
      BY <2>2, <3>2 DEF CreateCheck, CancelFlush
    <3> QED BY <1>1, <1>4, <3>1, <3>2, <3>3 DEF Rollback
  <2>3. CASE CreateCommit(w) \/ CancelCommit(w)
    BY <1>3, <2>3 DEF CreateCommit, CancelCommit
  <2>4. CASE \E v \in Watched : Subscribe(w, v) \/ Unsubscribe(w, v)
    BY <1>2, <2>4 DEF Subscribe, Unsubscribe
  <2> QED BY <1>6, <2>1, <2>2, <2>3, <2>4 DEF Customer
<1>7. CASE Desk(w)
  <2>1. ASSUME NEW v \in Vehicles, NEW next \in DeskChoices, NEW strict \in BOOLEAN,
               StatusRead(w, v, next, strict)
        PROVE  OthersSpared(w)
    <3> DEFINE x == [NoTxn EXCEPT !.op = "status", !.next = next]
    <3>1. x \in Txn /\ InHand(x) = {}
      BY NoTxnTyped, BoundsAssumption DEF Txn, NoTxn, Availability, InHand
    <3>2. SetAvailability(w, v, availability[v], x, strict, "commit")
      BY <2>1 DEF StatusRead
    <3> HIDE DEF x
    <3> QED BY <3>1, <3>2, SetAvailabilitySpares
  <2>2. CASE StatusCommit(w)
    BY <1>3, <2>2 DEF StatusCommit
  <2>3. CASE \E h \in Holds, stage \in LeadCloses : CloseLead(w, h, stage)
    BY <1>2, <2>3 DEF CloseLead
  <2> QED BY <1>7, <2>1, <2>2, <2>3 DEF Desk
<1>8. CASE Abort(w)
  BY <1>1, <1>8 DEF Abort, Rollback
<1> QED BY <1>5, <1>6, <1>7, <1>8

(* Money taken for a hold leaves it a hold. *)
LEMMA PaidIsStillActive ==
    ASSUME TypeOK, NEW w \in Workers, NEW h \in Holds, NEW paid \in Payments,
           TakePayment(w, h, paid)
    PROVE  \A v : ActiveOn(v)' = ActiveOn(v)
<1>1. \A g \in Holds : status'[g] \in Active <=> status[g] \in Active
  BY BoundsAssumption DEF TakePayment, TypeOK, Active
<1> QED BY <1>1 DEF ActiveOn, HoldsOn

(* What a session knows is still true of the tables: a car it releases is  *)
(* reserved, a car it is taking is free of other holds.                    *)
Knows(x, step) ==
    /\ step = "check" => x.op = "create"
    /\ step = "release" => x.op \in SweepOps
    /\ x.op \in {"cancel"} \cup SweepOps =>
          x.next = "available" /\ \A v \in x.dirty : availability[v] = "reserved"
    /\ x.op = "cancel" /\ step = "flush" =>
          \A v \in x.todo : x.seen = availability[v]
    /\ x.op = "create" /\ step = "check" =>
          \A h \in x.rows, v \in x.todo : CarOf[h] = v
    /\ x.op = "create" /\ step = "commit" =>
          \A h \in x.rows : ~Held(CarOf[h])

SessionsKnow == \A w \in Workers : Knows(txn[w], pc[w])

(* A move that touches no table leaves the new session's knowledge true. *)
LEMMA MoveKnows ==
    ASSUME TypeOK, NEW w \in Workers, NEW x \in Txn, NEW step,
           Goto(w, x, step), UNCHANGED db, Knows(x, step)
    PROVE  Knows(txn[w], pc[w])'
<1>2. txn'[w] = x /\ pc'[w] = step
  BY DEF Goto, TypeOK
<1>3. availability' = availability /\ status' = status
  BY DEF db
<1> QED
  BY <1>2, <1>3 DEF Knows, Held, ActiveOn

LEMMA RestKnows ==
    ASSUME TypeOK, NEW w \in Workers, Rollback(w)
    PROVE  Knows(txn[w], pc[w])'
<1>2. txn'[w] = NoTxn /\ pc'[w] = "idle"
  BY DEF Rollback, Goto, TypeOK
<1> QED
  BY <1>2 DEF Knows, NoTxn, SweepOps

(* After drop_tokens' commit the session has nothing left to write. *)
LEMMA FlushedKnows ==
    ASSUME TypeOK, NEW w \in Workers, NEW x \in Txn, NEW told, NEW step,
           step \notin {"check", "flush"}, step = "release" => x.op \in SweepOps,
           x.op \in {"cancel"} \cup SweepOps => x.next = "available",
           Goto(w, [x EXCEPT !.rows = {}, !.dirty = {}, !.told = told], step)
    PROVE  Knows(txn[w], pc[w])'
<1> DEFINE y == [x EXCEPT !.rows = {}, !.dirty = {}, !.told = told]
<1>2. txn'[w] = y /\ pc'[w] = step
  BY DEF Goto, TypeOK
<1>3. y.op = x.op /\ y.next = x.next /\ y.rows = {} /\ y.dirty = {}
  BY DEF Txn
<1> HIDE DEF y
<1> QED
  BY <1>2, <1>3 DEF Knows, SweepOps

LEMMA SetAvailabilityKnows ==
    ASSUME TypeOK, NEW w \in Workers, NEW v \in Vehicles,
           NEW previous, NEW x \in Txn, NEW strict, NEW step,
           step \in {"release", "commit"},
           SetAvailability(w, v, previous, x, strict, step), Knows(x, step),
           x.op \in {"cancel"} \cup SweepOps => availability[v] = "reserved"
    PROVE  Knows(txn[w], pc[w])'
<1> DEFINE y == [x EXCEPT !.dirty = @ \cup {v}]
           z == [y EXCEPT !.told = @ \cup {v}]
<1>1. /\ y \in Txn /\ y.op = x.op /\ y.next = x.next /\ y.rows = x.rows
      /\ y.dirty = x.dirty \cup {v} /\ y.todo = x.todo /\ y.seen = x.seen
      /\ y.told = x.told
  BY DEF Txn
<1> HIDE DEF y
<1>2. /\ z \in Txn /\ z.op = y.op /\ z.next = y.next /\ z.rows = y.rows
      /\ z.dirty = y.dirty /\ z.todo = y.todo /\ z.seen = y.seen
  BY <1>1 DEF Txn
<1> HIDE DEF z
<1>3. Knows(y, step) /\ Knows(z, step)
  BY <1>1, <1>2 DEF Knows
<1>4. CASE Goto(w, x, step) /\ UNCHANGED <<db, alerted>>
  BY <1>4, MoveKnows
<1>5. CASE Goto(w, y, step) /\ UNCHANGED db
  BY <1>1, <1>3, <1>5, MoveKnows
<1>6. CASE Goto(w, z, step) /\ UNCHANGED db
  BY <1>2, <1>3, <1>6, MoveKnows
<1>7. CASE Rollback(w)
  BY <1>7, RestKnows
<1>8. CASE Goto(w, [y EXCEPT !.rows = {}, !.dirty = {}, !.told = {v}], step)
  <2>1. /\ y.op \in {"cancel"} \cup SweepOps => y.next = "available"
        /\ step = "release" => y.op \in SweepOps
    BY <1>3 DEF Knows
  <2> QED
    BY <1>1, <1>8, <2>1, FlushedKnows
<1> QED
  BY <1>4, <1>5, <1>6, <1>7, <1>8 DEF SetAvailability, Alert, y, z

(* One step of one worker. *)
LEMMA StepKnows ==
    ASSUME TypeOK, SessionsKnow, NEW w \in Workers,
           Sweep(w) \/ Customer(w) \/ Desk(w) \/ Abort(w)
    PROVE  Knows(txn[w], pc[w])'
<1>h. \A h \in Holds : CarOf[h] \in Vehicles /\ status[h] \in HoldStatus \cup {"none"}
  BY CarOfAssumption DEF TypeOK
<1>r. ASSUME Rollback(w)
      PROVE  Knows(txn[w], pc[w])'
  BY <1>r, RestKnows
<1>c. ASSUME NEW op, Commit(w, op)
      PROVE  Knows(txn[w], pc[w])'
  BY <1>c, RestKnows DEF Commit
<1>1. ASSUME NEW h \in Holds, CreateRead(w, h)
      PROVE  Knows(txn[w], pc[w])'
  <2> DEFINE x == [NoTxn EXCEPT !.op = "create", !.rows = {h}, !.mark = "pending",
                                !.todo = {CarOf[h]}, !.next = "reserved",
                                !.seen = availability[CarOf[h]]]
  <2>1. x \in Txn
    BY <1>h DEF TypeOK, NoTxn, Txn, HoldStatus, Active, Ended, Availability
  <2>2. x.op = "create" /\ x.rows = {h} /\ x.todo = {CarOf[h]}
    BY DEF NoTxn
  <2>3. Goto(w, x, "check") /\ UNCHANGED db
    BY <1>1 DEF CreateRead
  <2> HIDE DEF x
  <2>4. Knows(x, "check")
    BY <2>2 DEF Knows, SweepOps
  <2> QED
    BY <2>1, <2>3, <2>4, MoveKnows
<1>2. ASSUME CreateCheck(w)
      PROVE  Knows(txn[w], pc[w])'
  <2> DEFINE x == [txn[w] EXCEPT !.todo = {}]
  <2>1. PICK v \in txn[w].todo :
            \/ Rollback(w)
            \/ ~Held(v) /\ SetAvailability(w, v, txn[w].seen, x, FALSE, "commit")
    BY <1>2 DEF CreateCheck
  <2>2. /\ v \in Vehicles /\ x \in Txn /\ x.op = txn[w].op
        /\ x.rows = txn[w].rows /\ x.dirty = txn[w].dirty /\ x.next = txn[w].next
    BY <2>1 DEF TypeOK, Txn
  <2>3. txn[w].op = "create" /\ \A h \in x.rows : CarOf[h] = v
    BY <1>2, <2>1, <2>2 DEF SessionsKnow, Knows, CreateCheck
  <2> HIDE DEF x
  <2>4. CASE ~Held(v) /\ SetAvailability(w, v, txn[w].seen, x, FALSE, "commit")
    <3>1. Knows(x, "commit")
      BY <2>2, <2>3, <2>4 DEF Knows, SweepOps
    <3> QED
      BY <2>2, <2>3, <2>4, <3>1, SetAvailabilityKnows DEF SweepOps
  <2> QED
    BY <1>r, <2>1, <2>4
<1>3. ASSUME NEW h \in Holds, CancelRead(w, h)
      PROVE  Knows(txn[w], pc[w])'
  <2> DEFINE x == [NoTxn EXCEPT !.op = "cancel", !.rows = {h}, !.mark = "cancelled",
                                !.todo = {CarOf[h]},
                                !.seen = availability[CarOf[h]],
                                !.lose = lead[h] = "open"]
  <2>1. x \in Txn
    BY <1>h DEF TypeOK, NoTxn, Txn, HoldStatus, Active, Ended, Availability
  <2>2. /\ x.op = "cancel" /\ x.todo = {CarOf[h]} /\ x.dirty = {}
        /\ x.next = "available" /\ x.seen = availability[CarOf[h]]
    BY DEF NoTxn
  <2>3. Goto(w, x, "flush") /\ UNCHANGED db
    BY <1>3 DEF CancelRead
  <2> HIDE DEF x
  <2>4. Knows(x, "flush")
    BY <2>2 DEF Knows
  <2> QED
    BY <2>1, <2>3, <2>4, MoveKnows
<1>4. ASSUME CancelFlush(w)
      PROVE  Knows(txn[w], pc[w])'
  <2> DEFINE x == [txn[w] EXCEPT !.todo = {}]
  <2>1. PICK v \in txn[w].todo :
            \/ /\ x.seen = "reserved"
               /\ SetAvailability(w, v, x.seen, x, FALSE, "commit")
            \/ Goto(w, x, "commit") /\ UNCHANGED <<db, alerted>>
    BY <1>4 DEF CancelFlush
  <2>2. /\ v \in Vehicles /\ x \in Txn /\ x.op = "cancel" /\ x.seen = txn[w].seen
        /\ x.rows = txn[w].rows /\ x.dirty = txn[w].dirty /\ x.next = txn[w].next
    BY <1>4, <2>1 DEF TypeOK, Txn, CancelFlush
  <2>3. txn[w].op = "cancel" /\ pc[w] = "flush"
    BY <1>4 DEF CancelFlush
  <2> HIDE DEF x
  <2>4. Knows(x, "commit") /\ x.seen = availability[v]
    BY <2>1, <2>2, <2>3 DEF SessionsKnow, Knows
  <2> QED
    BY <2>1, <2>2, <2>4, SetAvailabilityKnows, MoveKnows
<1>5. ASSUME NEW op \in SweepRuns, SweepRead(w, op)
      PROVE  Knows(txn[w], pc[w])'
  <2> DEFINE due == {h \in Holds : status[h] \in Releasable /\ lapsed[h]}
             x == [NoTxn EXCEPT !.op = op, !.rows = due, !.mark = "expired",
                                !.todo = {CarOf[h] : h \in due}]
  <2>1. x \in Txn
    BY <1>h, BoundsAssumption
       DEF NoTxn, Txn, HoldStatus, Active, Ended, Availability
  <2>2. x.op \in {"sweep", "dry"} /\ x.dirty = {} /\ x.next = "available"
    BY BoundsAssumption DEF NoTxn
  <2>3. Goto(w, x, "flush") /\ UNCHANGED db
    BY <1>5 DEF SweepRead
  <2> HIDE DEF x, due
  <2>4. Knows(x, "flush")
    BY <2>2 DEF Knows
  <2> QED
    BY <2>1, <2>3, <2>4, MoveKnows
<1>6. ASSUME SweepFlush(w)
      PROVE  Knows(txn[w], pc[w])'
  <2>1. txn[w] \in Txn /\ Goto(w, txn[w], "release") /\ UNCHANGED db
    BY <1>6 DEF TypeOK, SweepFlush
  <2>2. Knows(txn[w], "release")
    BY <1>6 DEF SessionsKnow, Knows, SweepFlush, SweepOps
  <2> QED
    BY <2>1, <2>2, MoveKnows
<1>7. ASSUME NEW v \in Vehicles, SweepRelease(w, v)
      PROVE  Knows(txn[w], pc[w])'
  <2> DEFINE x == [txn[w] EXCEPT !.todo = @ \ {v}]
             step == IF x.todo = {} THEN "commit" ELSE "release"
  <2>1. \/ /\ availability[v] = "reserved"
           /\ SetAvailability(w, v, availability[v], x, FALSE, step)
        \/ Goto(w, x, step) /\ UNCHANGED <<db, alerted>>
    BY <1>7 DEF SweepRelease
  <2>2. /\ x \in Txn /\ x.op = txn[w].op /\ step \in {"release", "commit"}
        /\ x.rows = txn[w].rows /\ x.dirty = txn[w].dirty /\ x.next = txn[w].next
    BY DEF TypeOK, Txn
  <2>3. pc[w] = "release"
    BY <1>7 DEF SweepRelease
  <2> HIDE DEF x, step
  <2>4. x.op \in SweepOps /\ Knows(x, step)
    BY <2>2, <2>3 DEF SessionsKnow, Knows, SweepOps
  <2> QED
    BY <2>1, <2>2, <2>4, SetAvailabilityKnows, MoveKnows
<1>8. ASSUME NEW v \in Vehicles, NEW next \in DeskChoices,
             NEW strict \in BOOLEAN, StatusRead(w, v, next, strict)
      PROVE  Knows(txn[w], pc[w])'
  <2> DEFINE x == [NoTxn EXCEPT !.op = "status", !.next = next]
  <2>1. x \in Txn /\ x.op = "status"
    BY BoundsAssumption DEF NoTxn, Txn, HoldStatus, Active, Ended, Availability
  <2>2. SetAvailability(w, v, availability[v], x, strict, "commit")
    BY <1>8 DEF StatusRead
  <2> HIDE DEF x
  <2>3. Knows(x, "commit")
    BY <2>1 DEF Knows, SweepOps
  <2> QED
    BY <2>1, <2>2, <2>3, SetAvailabilityKnows DEF SweepOps
<1>9. ASSUME UNCHANGED <<availability, status, pc, txn>>
      PROVE  Knows(txn[w], pc[w])'
  BY <1>9 DEF SessionsKnow, Knows, Held, ActiveOn
<1>10. ASSUME NEW h \in Holds, NEW paid \in Payments, TakePayment(w, h, paid)
       PROVE  Knows(txn[w], pc[w])'
  BY <1>10, PaidIsStillActive DEF SessionsKnow, Knows, Held, TakePayment
<1>11. CASE Sweep(w)
  BY <1>11, <1>c, <1>r, <1>5, <1>6, <1>7 DEF Sweep, SweepCommit, SweepDryRun
<1>12. CASE Customer(w)
  <2>1. CASE CreateCommit(w) \/ CancelCommit(w)
    BY <1>c, <2>1 DEF CreateCommit, CancelCommit
  <2>2. ASSUME NEW v \in Watched, Subscribe(w, v) \/ Unsubscribe(w, v)
        PROVE  Knows(txn[w], pc[w])'
    BY <1>9, <2>2 DEF Subscribe, Unsubscribe
  <2> QED
    BY <1>12, <1>1, <1>2, <1>3, <1>4, <2>1, <2>2 DEF Customer
<1>13. CASE Desk(w)
  <2>1. CASE StatusCommit(w)
    BY <1>c, <2>1 DEF StatusCommit
  <2>2. ASSUME NEW h \in Holds, NEW stage \in LeadCloses, CloseLead(w, h, stage)
        PROVE  Knows(txn[w], pc[w])'
    BY <1>9, <2>2 DEF CloseLead
  <2> QED
    BY <1>13, <1>8, <1>10, <2>1, <2>2 DEF Desk
<1>14. CASE Abort(w)
  BY <1>r, <1>14 DEF Abort
<1> QED
  BY <1>11, <1>12, <1>13, <1>14

(* The others keep what they know: nobody wrote about their cars. *)
LEMMA SparedKnows ==
    ASSUME TypeOK, NEW w \in Workers, Spared(w), Knows(txn[w], pc[w])
    PROVE  Knows(txn[w], pc[w])'
<1>1. \A v \in InHand(txn[w]) : ActiveOn(v)' = ActiveOn(v)
  BY DEF Spared, ActiveOn, HoldsOn
<1>2. txn[w].dirty \cup txn[w].todo \cup {CarOf[h] : h \in txn[w].rows} \subseteq InHand(txn[w])
  BY DEF InHand
<1> QED BY <1>1, <1>2 DEF Spared, Knows, Held

LEMMA NextKnows ==
    ASSUME TypeOK, CarsApart, CarsApart', SessionsKnow, Next
    PROVE  SessionsKnow'
<1>1. ASSUME UNCHANGED <<availability, pc, txn>>, \A v \in Vehicles : ActiveOn(v)' = ActiveOn(v)
      PROVE  SessionsKnow'
  <2> SUFFICES ASSUME NEW w \in Workers PROVE Knows(txn[w], pc[w])'
    BY DEF SessionsKnow
  <2>1. Knows(txn[w], pc[w]) /\ \A h \in txn[w].rows : CarOf[h] \in Vehicles
    BY CarOfAssumption DEF SessionsKnow, TypeOK, Txn
  <2>2. \A v \in Vehicles : Held(v)' <=> Held(v)
    BY <1>1 DEF Held
  <2>3. \A h \in txn[w].rows : Held(CarOf[h])' <=> Held(CarOf[h])
    BY <2>1, <2>2
  <2>4. txn'[w] = txn[w] /\ pc'[w] = pc[w] /\ availability' = availability
    BY <1>1
  <2> QED BY <2>1, <2>3, <2>4 DEF Knows
<1>2. ASSUME NEW h \in Holds, Lapse(h) PROVE SessionsKnow'
  BY <1>1, <1>2 DEF Lapse, ActiveOn
<1>3. ASSUME NEW w \in Workers, NEW h \in Holds, NEW paid \in Payments, TakePayment(w, h, paid)
      PROVE  SessionsKnow'
  BY <1>1, <1>3, PaidIsStillActive DEF TakePayment
<1>4. ASSUME NEW w \in Workers, Sweep(w) \/ Customer(w) \/ Desk(w) \/ Abort(w),
             ~ \E h \in Holds, paid \in Payments : TakePayment(w, h, paid)
      PROVE  SessionsKnow'
  <2>1. OthersSpared(w) /\ Knows(txn[w], pc[w])'
    BY <1>4, StepKnows, OthersAreSpared
  <2> QED BY <2>1, SparedKnows DEF OthersSpared, SessionsKnow
<1> QED
  BY <1>2, <1>3, <1>4 DEF Next

(* The inductive invariant behind both results. *)
LEMMA ApartSessionsKnow == Spec /\ []CarsApart => []SessionsKnow
<1>1. Init => SessionsKnow
  BY DEF Init, SessionsKnow, Knows, NoTxn, SweepOps
<1>2. TypeOK /\ CarsApart /\ CarsApart' /\ SessionsKnow /\ [Next]_vars => SessionsKnow'
  <2>1. TypeOK /\ CarsApart /\ CarsApart' /\ SessionsKnow /\ Next => SessionsKnow'
    BY NextKnows
  <2>2. SessionsKnow /\ UNCHANGED vars => SessionsKnow'
    BY DEF vars, SessionsKnow, Knows, Held, ActiveOn
  <2> QED
    BY <2>1, <2>2
<1> QED
  BY <1>1, <1>2, TypeCorrect, PTL DEF Spec

(* Unless two handlers have one car in hand, neither a timeout nor a       *)
(* cancellation puts a sold car back on sale, however many of them run.    *)
THEOREM SoldStaysSold == Spec /\ []CarsApart => SoldNeverWalkedBack
<1>1. TypeOK /\ SessionsKnow =>
        \A w \in Workers : SweepCommit(w) \/ CancelCommit(w) =>
          \A v \in Vehicles : availability[v] = "sold" => availability'[v] = "sold"
  <2> SUFFICES ASSUME TypeOK, SessionsKnow, NEW w \in Workers,
                      SweepCommit(w) \/ CancelCommit(w),
                      NEW v \in Vehicles, availability[v] = "sold"
               PROVE  availability'[v] = "sold"
    OBVIOUS
  <2>1. /\ txn[w].op \in {"cancel", "sweep"}
        /\ availability' = [u \in Vehicles |->
              IF u \in txn[w].dirty THEN txn[w].next ELSE availability[u]]
    BY DEF SweepCommit, CancelCommit, Commit, Persist
  <2>2. v \notin txn[w].dirty
    BY <2>1 DEF SessionsKnow, Knows, SweepOps
  <2> QED
    BY <2>1, <2>2
<1>2. TypeOK /\ SessionsKnow /\ [Next]_vars =>
        [\A w \in Workers : SweepCommit(w) \/ CancelCommit(w) =>
          \A v \in Vehicles : availability[v] = "sold" => availability'[v] = "sold"]_vars
  BY <1>1
<1> QED
  BY <1>2, TypeCorrect, ApartSessionsKnow, PTL DEF Spec, SoldNeverWalkedBack

(* Unless two handlers have one car in hand, the 409 does what it is for: a *)
(* reservation never joins another live one on its car.                    *)
THEOREM NeverDoubleHeld == Spec /\ []CarsApart => NoDoubleHold
<1>1. SessionsKnow =>
        \A w \in Workers : CreateCommit(w) =>
          \A h \in txn[w].rows : ~Held(CarOf[h])
  BY DEF SessionsKnow, Knows, CreateCommit, Commit
<1>2. SessionsKnow /\ [Next]_vars =>
        [\A w \in Workers : CreateCommit(w) =>
          \A h \in txn[w].rows : ~Held(CarOf[h])]_vars
  BY <1>1
<1> QED
  BY <1>2, ApartSessionsKnow, PTL DEF Spec, NoDoubleHold

--------------------------------------------------------------------------------
(* Notify Me.  A session closes only subscriptions whose subscriber it has *)
(* reached, and nobody opens one anew in between: that is all that         *)
(* NobodyResubscribes is needed for.  Handlers may overlap, on one car    *)
(* too.                                                                    *)

ToldInv ==
    /\ ToldMeansAlerted
    /\ \A w \in Workers : /\ \A v \in txn[w].told : alerted[v]
                          /\ pc[w] = "idle" => txn[w].told = {}

(* A move that reaches nobody, or the subscriber it adds. *)
LEMMA MoveTold ==
    ASSUME TypeOK, ToldInv, NEW w \in Workers, NEW x, NEW step, Goto(w, x, step),
           x.told = {} \/ (x.told \subseteq Vehicles /\ step # "idle"),
           \A v \in Vehicles : sub'[v] = "notified" => sub[v] = "notified" \/ alerted'[v],
           \A v \in Vehicles : alerted[v] \/ v \in x.told => alerted'[v]
    PROVE  ToldInv'
<1>1. /\ txn'[w] = x /\ pc'[w] = step
      /\ \A u \in Workers \ {w} : txn'[u] = txn[u] /\ pc'[u] = pc[u]
  BY GotoMovesOne
<1>2. \A u \in Workers : txn[u].told \subseteq Vehicles
  BY DEF TypeOK, Txn
<1>3. ToldMeansAlerted'
  BY DEF ToldInv, ToldMeansAlerted
<1> QED BY <1>1, <1>2, <1>3 DEF ToldInv

LEMMA RestTold ==
    ASSUME TypeOK, ToldInv, NEW w \in Workers, Rollback(w),
           \A v \in Vehicles : sub'[v] = "notified" => sub[v] = "notified" \/ alerted'[v],
           \A v \in Vehicles : alerted[v] => alerted'[v]
    PROVE  ToldInv'
<1> DEFINE x == NoTxn
<1>1. Goto(w, x, "idle") /\ x.told = {}
  BY DEF Rollback, NoTxn
<1> HIDE DEF x
<1> QED BY <1>1, MoveTold

LEMMA QuietTold ==
    ASSUME TypeOK, ToldInv, NEW w \in Workers, NEW x, NEW step, Goto(w, x, step),
           UNCHANGED <<db, alerted>>, x.told = {} \/ (x.told = txn[w].told /\ step # "idle")
    PROVE  ToldInv'
<1>1. txn[w].told \subseteq Vehicles /\ \A v \in txn[w].told : alerted[v]
  BY DEF TypeOK, Txn, ToldInv
<1> QED BY <1>1, MoveTold DEF db

LEMMA SetAvailabilityTold ==
    ASSUME TypeOK, ToldInv, NEW w \in Workers, NEW v \in Vehicles,
           NEW previous, NEW x \in Txn, NEW strict, NEW step, step # "idle",
           x.told \subseteq txn[w].told \/ x.told = {},
           SetAvailability(w, v, previous, x, strict, step)
    PROVE  ToldInv'
<1> DEFINE y == [x EXCEPT !.dirty = @ \cup {v}]
           z == [y EXCEPT !.told = @ \cup {v}]
           e == [y EXCEPT !.rows = {}, !.dirty = {}, !.told = {v}]
<1>1. y \in Txn /\ y.told = x.told
  BY DEF Txn
<1> HIDE DEF y
<1>2. z.told = x.told \cup {v} /\ e.told = {v} /\ x.told \subseteq Vehicles
  BY <1>1 DEF Txn
<1> HIDE DEF z, e
<1>3. \A u \in x.told : alerted[u]
  BY DEF ToldInv
<1>4. CASE Goto(w, x, step) /\ UNCHANGED <<db, alerted>>
  BY <1>2, <1>3, <1>4, MoveTold DEF db
<1>5. CASE Goto(w, y, step) /\ UNCHANGED db /\ \A u \in Vehicles : alerted[u] => alerted'[u]
  BY <1>1, <1>2, <1>3, <1>5, MoveTold DEF db
<1>6. CASE Goto(w, z, step) /\ UNCHANGED db /\ alerted' = [alerted EXCEPT ![v] = TRUE]
  BY <1>1, <1>2, <1>3, <1>6, MoveTold DEF db, TypeOK
<1>7. CASE Rollback(w) /\ UNCHANGED db /\ \A u \in Vehicles : alerted[u] => alerted'[u]
  BY <1>7, RestTold DEF db
<1>8. CASE Persist(y) /\ Goto(w, e, step) /\ alerted' = [alerted EXCEPT ![v] = TRUE]
  <2>1. \A u \in Vehicles : alerted[u] => alerted'[u]
    BY <1>8 DEF TypeOK
  <2>2. \A u \in Vehicles : sub'[u] = "notified" => sub[u] = "notified" \/ u \in x.told
    BY <1>1, <1>8 DEF Persist
  <2> QED BY <1>2, <1>3, <1>8, <2>1, <2>2, MoveTold DEF TypeOK
<1>9. \A sent \in BOOLEAN : alerted' = [alerted EXCEPT ![v] = @ \/ sent] =>
        \A u \in Vehicles : alerted[u] => alerted'[u]
  BY DEF TypeOK
<1> QED
  BY <1>4, <1>5, <1>6, <1>7, <1>8, <1>9, PushAssumption DEF SetAvailability, Alert, y, z, e

LEMMA NextTold ==
    ASSUME TypeOK, ToldInv, NobodyResubscribes, Next
    PROVE  ToldInv'
<1>2. ASSUME NEW w \in Workers, NEW op, Commit(w, op) PROVE ToldInv'
  <2>1. \A v \in txn[w].told : alerted[v]
    BY DEF ToldInv
  <2>2. \A v \in Vehicles : sub'[v] = "notified" => sub[v] = "notified" \/ alerted[v]
    BY <1>2, <2>1 DEF Commit, Persist
  <2> QED BY <1>2, <2>2, RestTold DEF Commit
<1>3. ASSUME NEW w \in Workers, Rollback(w), UNCHANGED <<db, alerted>> PROVE ToldInv'
  BY <1>3, RestTold DEF db
<1>4. ASSUME NEW w \in Workers, Sweep(w) PROVE ToldInv'
  <2>1. CASE \E op \in SweepRuns : SweepRead(w, op)
    <3>1. PICK op \in SweepRuns : SweepRead(w, op)
      BY <2>1
    <3>2. PICK x : Goto(w, x, "flush") /\ x.told = {} /\ UNCHANGED <<db, alerted>>
      BY <3>1 DEF SweepRead, NoTxn
    <3> QED BY <3>2, QuietTold
  <2>2. CASE SweepFlush(w)
    <3>1. txn[w].told = txn[w].told /\ "release" # "idle"
      OBVIOUS
    <3> QED BY <2>2, <3>1, QuietTold DEF SweepFlush
  <2>3. CASE SweepCommit(w)
    BY <1>2, <2>3 DEF SweepCommit
  <2>4. CASE SweepDryRun(w)
    BY <1>3, <2>4 DEF SweepDryRun
  <2>5. ASSUME NEW v \in Vehicles, SweepRelease(w, v) PROVE ToldInv'
    <3> DEFINE x == [txn[w] EXCEPT !.todo = @ \ {v}]
               step == IF x.todo = {} THEN "commit" ELSE "release"
    <3>1. x \in Txn /\ x.told = txn[w].told /\ step # "idle"
      BY DEF TypeOK, Txn
    <3>2. CASE SetAvailability(w, v, availability[v], x, FALSE, step)
      <4> HIDE DEF x, step
      <4> QED BY <3>1, <3>2, SetAvailabilityTold
    <3>3. CASE Goto(w, x, step) /\ UNCHANGED <<db, alerted>>
      <4> HIDE DEF x, step
      <4> QED BY <3>1, <3>3, QuietTold
    <3> QED BY <2>5, <3>2, <3>3 DEF SweepRelease
  <2> QED BY <1>4, <2>1, <2>2, <2>3, <2>4, <2>5 DEF Sweep
<1>5. ASSUME NEW w \in Workers, NEW h \in Holds, CreateRead(w, h) \/ CancelRead(w, h) PROVE ToldInv'
  <2>1. PICK x, step : Goto(w, x, step) /\ x.told = {} /\ UNCHANGED <<db, alerted>>
    BY <1>5 DEF CreateRead, CancelRead, NoTxn
  <2> QED BY <2>1, QuietTold
<1>6. ASSUME NEW w \in Workers, CreateCheck(w) \/ CancelFlush(w) PROVE ToldInv'
  <2> DEFINE x == [txn[w] EXCEPT !.todo = {}]
  <2>1. x \in Txn /\ x.told = txn[w].told
    BY DEF TypeOK, Txn
  <2>2. txn[w].todo \subseteq Vehicles
    BY DEF TypeOK, Txn
  <2>3. CASE Goto(w, x, "commit") /\ UNCHANGED <<db, alerted>>
    <3> HIDE DEF x
    <3> QED BY <2>1, <2>3, QuietTold
  <2>4. CASE \E v \in txn[w].todo : \E p : SetAvailability(w, v, p, x, FALSE, "commit")
    <3> HIDE DEF x
    <3> QED BY <2>1, <2>2, <2>4, SetAvailabilityTold
  <2> QED BY <1>3, <1>6, <2>3, <2>4 DEF CreateCheck, CancelFlush
<1>7. ASSUME NEW w \in Workers, NEW v \in Watched, Subscribe(w, v) PROVE ToldInv'
  <2>1. v \in Vehicles /\ sub[v] # "open" /\ sub'[v] = "open" /\ UNCHANGED txn
    BY <1>7, BoundsAssumption DEF Subscribe, TypeOK
  <2>2. \A u \in Workers : v \notin txn[u].told /\ txn[u].told \subseteq Vehicles
    BY <2>1 DEF NobodyResubscribes, TypeOK, Txn
  <2> QED BY <1>7, <2>1, <2>2 DEF Subscribe, ToldInv, ToldMeansAlerted, TypeOK
<1>8. ASSUME NEW w \in Workers, NEW v \in Watched, Unsubscribe(w, v) PROVE ToldInv'
  BY <1>8, BoundsAssumption DEF Unsubscribe, ToldInv, ToldMeansAlerted, TypeOK
<1>9. ASSUME NEW w \in Workers, Desk(w) PROVE ToldInv'
  <2>1. ASSUME NEW v \in Vehicles, NEW next \in DeskChoices, NEW strict \in BOOLEAN,
               StatusRead(w, v, next, strict)
        PROVE  ToldInv'
    <3> DEFINE x == [NoTxn EXCEPT !.op = "status", !.next = next]
    <3>1. x \in Txn /\ x.told = {}
      BY NoTxnTyped, BoundsAssumption DEF Txn, NoTxn, Availability
    <3>2. SetAvailability(w, v, availability[v], x, strict, "commit")
      BY <2>1 DEF StatusRead
    <3> HIDE DEF x
    <3> QED BY <3>1, <3>2, SetAvailabilityTold
  <2>2. CASE StatusCommit(w)
    BY <1>2, <2>2 DEF StatusCommit
  <2>3. ASSUME UNCHANGED <<sub, alerted, pc, txn>> PROVE ToldInv'
    BY <2>3 DEF ToldInv, ToldMeansAlerted
  <2> QED BY <1>9, <2>1, <2>2, <2>3 DEF Desk, CloseLead, TakePayment
<1>10. ASSUME NEW h \in Holds, Lapse(h) PROVE ToldInv'
  BY <1>10 DEF Lapse, ToldInv, ToldMeansAlerted
<1>11. ASSUME NEW w \in Workers, Customer(w) PROVE ToldInv'
  BY <1>2, <1>5, <1>6, <1>7, <1>8, <1>11 DEF Customer, CreateCommit, CancelCommit
<1>12. ASSUME NEW w \in Workers, Abort(w) PROVE ToldInv'
  BY <1>3, <1>12 DEF Abort
<1> QED BY <1>4, <1>9, <1>10, <1>11, <1>12 DEF Next

(* Nobody's subscription is closed unheard, unless it is withdrawn and     *)
(* opened anew between the alert and the commit: for any number of cars    *)
(* and handlers, whatever delivery does and wherever a handler stops.      *)
THEOREM NobodyIsClosedUnheard ==
    Spec /\ [][NobodyResubscribes]_vars => []ToldMeansAlerted
<1>1. Init => ToldInv
  BY DEF Init, ToldInv, ToldMeansAlerted, NoTxn
<1>2. TypeOK /\ ToldInv /\ [Next]_vars /\ [NobodyResubscribes]_vars => ToldInv'
  <2>1. TypeOK /\ ToldInv /\ Next /\ NobodyResubscribes => ToldInv'
    BY NextTold
  <2>2. ToldInv /\ UNCHANGED vars => ToldInv'
    BY DEF vars, ToldInv, ToldMeansAlerted
  <2> QED BY <2>1, <2>2
<1>3. ToldInv => ToldMeansAlerted
  BY DEF ToldInv
<1> QED BY <1>1, <1>2, <1>3, TypeCorrect, PTL DEF Spec

--------------------------------------------------------------------------------
(* The book of holds.  Of any car one handler at a time, a session carries *)
(* exactly what one step of the book does, and every commit is that step:  *)
(* the one a handler ends with, and the one that drop_tokens of the Expo   *)
(* transport makes on its way.  With several cars in a sweep the latter    *)
(* leaves some to free, which the book allows if it is kept Piecemeal.     *)

Enters(x, step) ==
    \E h \in Holds :
        /\ x.rows = {h} /\ x.mark = "pending" /\ x.next = "reserved"
        /\ status[h] = "none" /\ availability[CarOf[h]] \in {"available", "reserved"}
        /\ step = "check" =>
              x.todo = {CarOf[h]} /\ x.seen = availability[CarOf[h]] /\ x.dirty = {}
        /\ step = "commit" =>
              /\ ActiveOn(CarOf[h]) = {}
              /\ \/ x.dirty = {CarOf[h]}
                 \/ x.dirty = {} /\ availability[CarOf[h]] = "reserved"

Closes(x, step) ==
    /\ x.rows # {} /\ (\A h \in x.rows : status[h] = "pending") /\ x.next = "available"
    /\ x.op = "cancel" => x.mark = "cancelled" /\ \E h \in Holds : x.rows = {h}
    /\ x.op # "cancel" => x.mark = "expired"
    /\ x.todo \subseteq {CarOf[h] : h \in x.rows}
    /\ step = "flush" => x.dirty = {} /\ x.todo = {CarOf[h] : h \in x.rows}
    /\ step = "flush" /\ x.op = "cancel" => \A v \in x.todo : x.seen = availability[v]
    /\ step \in {"release", "commit"} => x.dirty = Book!Freed(x.rows) \ x.todo
    /\ step = "commit" => x.todo = {}

(* What is left of a session that drop_tokens committed. *)
Written(x, step) == step = "commit" /\ x.rows = {} /\ x.dirty = {}

Resumes(x, step) ==
    /\ PushEnabled /\ step \in {"release", "commit"}
    /\ x.rows = {} /\ x.next = "available"
    /\ \A v \in x.dirty : ActiveOn(v) = {} /\ availability[v] = "reserved"

Carries(x, step) ==
    /\ step = "idle" => x.op = "none"
    /\ step = "check" => x.op = "create"
    /\ step \in {"flush", "release"} => x.op \in {"cancel"} \cup SweepOps
    /\ step = "release" => x.op \in SweepOps
    /\ x.op = "create" => Enters(x, step) \/ Written(x, step)
    /\ x.op \in {"cancel"} \cup SweepOps => Closes(x, step) \/ Resumes(x, step)
    /\ x.op = "status" => x.rows = {} /\ \E v \in Vehicles : x.dirty \subseteq {v}

SessionsCarry == \A w \in Workers : Carries(txn[w], pc[w])

(* A step that touches no table. *)
LEMMA MoveCarries ==
    ASSUME TypeOK, NEW w \in Workers, NEW x, NEW step, Goto(w, x, step),
           UNCHANGED <<status, availability>>, Carries(x, step)
    PROVE  Carries(txn[w], pc[w])'
<1>1. txn'[w] = x /\ pc'[w] = step
  BY GotoMovesOne
<1>2. Enters(txn[w], pc[w])' <=> Enters(x, step)
  BY <1>1 DEF Enters, ActiveOn
<1>3. Book!Freed(txn[w].rows)' = Book!Freed(x.rows)
  BY <1>1 DEF Book!Freed, Book!ActiveOn
<1>4. Closes(txn[w], pc[w])' <=> Closes(x, step)
  BY <1>1, <1>3 DEF Closes
<1>5. Resumes(txn[w], pc[w])' <=> Resumes(x, step)
  BY <1>1 DEF Resumes, ActiveOn
<1> QED BY <1>1, <1>2, <1>4, <1>5 DEF Carries, Written

(* Between two handlers a session is empty, whatever the tables hold. *)
LEMMA IdleCarries ==
    ASSUME NEW w \in Workers, txn'[w].op = "none", pc'[w] = "idle"
    PROVE  Carries(txn[w], pc[w])'
  BY DEF Carries, SweepOps

LEMMA RestCarries ==
    ASSUME TypeOK, NEW w \in Workers, Rollback(w)
    PROVE  Carries(txn[w], pc[w])'
<1>1. txn'[w] = NoTxn /\ pc'[w] = "idle"
  BY DEF Rollback, Goto, TypeOK
<1> QED BY <1>1, IdleCarries DEF NoTxn

(* What a session that carries a step of the book writes is that step, or, *)
(* if it has cars yet to free, one that leaves them for later.             *)
LEMMA PersistIsEntered ==
    ASSUME TypeOK, NEW x \in Txn, NEW step \in {"release", "commit"}, Carries(x, step),
           step = "commit" \/ PushEnabled, x.op # "none", Persist(x)
    PROVE  [Book!Next]_<<status, availability>>
<1>1. /\ status' = [h \in Holds |-> IF h \in x.rows THEN x.mark ELSE status[h]]
      /\ availability' = [v \in Vehicles |-> IF v \in x.dirty THEN x.next ELSE availability[v]]
  BY DEF Persist, StatusAfter
<1>2. /\ status = [h \in Holds |-> status[h]]
      /\ availability = [v \in Vehicles |-> availability[v]]
  BY DEF TypeOK
<1>3. x.op \in {"create", "cancel", "status"} \cup SweepOps
  BY DEF Txn, SweepOps
<1>4. CASE x.rows = {} /\ x.dirty = {}
  <2>1. UNCHANGED <<status, availability>>
    BY <1>1, <1>2, <1>4
  <2> QED BY <2>1
<1>5. CASE x.op = "create" /\ Enters(x, "commit")
  <2>1. PICK h \in Holds :
           /\ x.rows = {h} /\ x.mark = "pending" /\ x.next = "reserved"
           /\ status[h] = "none" /\ availability[CarOf[h]] \in {"available", "reserved"}
           /\ ActiveOn(CarOf[h]) = {}
           /\ \/ x.dirty = {CarOf[h]}
              \/ x.dirty = {} /\ availability[CarOf[h]] = "reserved"
    BY <1>5 DEF Enters
  <2>2. Book!ActiveOn(CarOf[h]) = {}
    BY <2>1 DEF ActiveOn, HoldsOn, Active, Book!ActiveOn, Book!Active
  <2>3. status' = [status EXCEPT ![h] = "pending"]
    BY <1>1, <1>2, <2>1
  <2>4. availability' = [availability EXCEPT ![CarOf[h]] = "reserved"]
    BY <1>1, <1>2, <2>1, CarOfAssumption
  <2>5. Book!Reserve(h)
    BY <2>1, <2>2, <2>3, <2>4 DEF Book!Reserve
  <2> QED BY <2>5 DEF Book!Next
<1>6. CASE x.op \in {"cancel"} \cup SweepOps /\ Closes(x, step)
  <2>1. x.dirty = Book!Freed(x.rows) \ x.todo /\ x.next = "available"
    BY <1>6 DEF Closes
  <2>2. Book!End(x.rows, x.mark) /\ Book!BackOnSale(x.dirty)
    BY <1>1, <1>6, <2>1 DEF Book!End, Book!BackOnSale, Closes
  <2>3. x.todo = {} \/ PushEnabled
    BY <1>6 DEF Closes
  <2>4. CASE x.op = "cancel"
    <3>1. step = "commit" /\ x.todo = {} /\ x.dirty = Book!Freed(x.rows)
      BY <1>6, <2>1, <2>4 DEF Closes, Carries, SweepOps
    <3>2. PICK h \in Holds : x.rows = {h}
      BY <1>6, <2>4 DEF Closes
    <3>3. Book!Cancel(h)
      BY <1>6, <2>2, <2>4, <3>1, <3>2 DEF Book!Cancel, Closes
    <3> QED BY <3>3 DEF Book!Next
  <2>5. CASE x.op \in SweepOps
    <3>1. x.mark = "expired" /\ x.rows \in SUBSET Holds
      BY <1>6, <2>5 DEF Closes, SweepOps, Txn
    <3>2. x.dirty \in SUBSET Book!Freed(x.rows) /\ (x.dirty = Book!Freed(x.rows) \/ PushEnabled)
      BY <2>1, <2>3
    <3>3. Book!Expire(x.rows)
      BY <2>2, <3>1, <3>2 DEF Book!Expire
    <3> QED BY <3>1, <3>3 DEF Book!Next
  <2> QED BY <1>6, <2>4, <2>5
<1>7. CASE x.op \in {"cancel"} \cup SweepOps /\ Resumes(x, step)
  <2>1. PushEnabled /\ x.rows = {} /\ x.next = "available"
    BY <1>7 DEF Resumes
  <2>2. x.dirty \in SUBSET {v \in Vehicles : Book!ActiveOn(v) = {} /\ availability[v] = "reserved"}
    BY <1>7 DEF Resumes, ActiveOn, HoldsOn, Active, Book!ActiveOn, Book!Active, Txn
  <2>3. Book!BackOnSale(x.dirty) /\ UNCHANGED status
    BY <1>1, <1>2, <2>1 DEF Book!BackOnSale
  <2>4. Book!Release
    BY <2>1, <2>2, <2>3 DEF Book!Release
  <2> QED BY <2>4 DEF Book!Next
<1>8. CASE x.op = "status"
  <2>1. PICK v \in Vehicles : x.rows = {} /\ x.dirty \subseteq {v}
    BY <1>8 DEF Carries
  <2>2. UNCHANGED status
    BY <1>1, <1>2, <2>1
  <2>3. CASE x.dirty = {v}
    <3>1. availability' = [availability EXCEPT ![v] = x.next]
      BY <1>1, <1>2, <2>3
    <3>2. x.next \in {"available", "reserved", "sold", "transferred"}
      BY DEF Txn, Availability
    <3>3. Book!Desk(v, x.next)
      BY <2>2, <3>1 DEF Book!Desk
    <3> QED BY <3>2, <3>3 DEF Book!Next
  <2> QED BY <1>4, <2>1, <2>3
<1> QED BY <1>3, <1>4, <1>5, <1>6, <1>7, <1>8 DEF Carries, Written, SweepOps

(* Session y is x with another set of cars to write. *)
Like(y, x, dirty) ==
    /\ y.op = x.op /\ y.rows = x.rows /\ y.mark = x.mark /\ y.todo = x.todo
    /\ y.seen = x.seen /\ y.next = x.next /\ y.dirty = dirty

(* set_availability, whatever becomes of its alert: the session carries on *)
(* with the car or without, is lost, or is committed and carries on.       *)
LEMMA AlertCarries ==
    ASSUME TypeOK, NEW w \in Workers, NEW v \in Vehicles, NEW previous, NEW x \in Txn,
           NEW strict, NEW step \in {"release", "commit"},
           SetAvailability(w, v, previous, x, strict, step), x.op # "none",
           previous = x.next => Carries(x, step),
           previous # x.next => \A y \in Txn : Like(y, x, x.dirty \cup {v}) => Carries(y, step)
    PROVE  Carries(txn[w], pc[w])' /\ [Book!Next]_<<status, availability>>
<1> DEFINE y == [x EXCEPT !.dirty = @ \cup {v}]
           z == [y EXCEPT !.told = @ \cup {v}]
           e == [y EXCEPT !.rows = {}, !.dirty = {}, !.told = {v}]
<1>1. y \in Txn /\ Like(y, x, x.dirty \cup {v})
  BY DEF Txn, Like
<1> HIDE DEF y
<1>2. z \in Txn /\ Like(z, x, x.dirty \cup {v})
  BY <1>1 DEF Txn, Like
<1>3. e.op = x.op /\ e.next = x.next /\ e.rows = {} /\ e.dirty = {}
  BY <1>1 DEF Txn, Like
<1> HIDE DEF z, e
<1>4. CASE Goto(w, x, step) /\ UNCHANGED db /\ previous = x.next
  BY <1>4, MoveCarries DEF db
<1>5. CASE (Goto(w, y, step) \/ Goto(w, z, step)) /\ UNCHANGED db /\ previous # x.next
  BY <1>1, <1>2, <1>5, MoveCarries DEF db
<1>6. CASE Rollback(w) /\ UNCHANGED db
  BY <1>6, RestCarries DEF db
<1>7. CASE PushEnabled /\ Persist(y) /\ Goto(w, e, step) /\ previous # x.next
  <2>1. Carries(y, step) /\ y.op = x.op /\ y.next = x.next
    BY <1>1, <1>7 DEF Like
  <2>2. [Book!Next]_<<status, availability>>
    BY <1>1, <1>7, <2>1, PersistIsEntered
  <2>3. txn'[w] = e /\ pc'[w] = step
    BY <1>7, GotoMovesOne
  <2>4. /\ step = "release" => e.op \in SweepOps
        /\ e.op \in {"cancel"} \cup SweepOps => e.next = "available"
    BY <1>3, <2>1 DEF Carries, Closes, Resumes
  <2>5. Carries(txn[w], pc[w])'
    BY <1>3, <1>7, <2>3, <2>4 DEF Carries, Written, Resumes, SweepOps
  <2> QED BY <2>2, <2>5
<1> QED BY <1>4, <1>5, <1>6, <1>7 DEF SetAvailability, Alert, y, z, e, db

(* The handlers, read by read. *)
LEMMA ReserveCarries ==
    ASSUME TypeOK, SessionsCarry, NEW w \in Workers,
           (\E h \in Holds : CreateRead(w, h)) \/ CreateCheck(w)
    PROVE  Carries(txn[w], pc[w])' /\ [Book!Next]_<<status, availability>>
<1>1. ASSUME NEW h \in Holds, CreateRead(w, h)
      PROVE  Carries(txn[w], pc[w])' /\ UNCHANGED <<status, availability>>
  <2>1. PICK x : x = [NoTxn EXCEPT !.op = "create", !.rows = {h}, !.mark = "pending",
                                  !.todo = {CarOf[h]}, !.next = "reserved",
                                  !.seen = availability[CarOf[h]]]
    OBVIOUS
  <2>2. /\ x.op = "create" /\ x.rows = {h} /\ x.mark = "pending" /\ x.todo = {CarOf[h]}
        /\ x.next = "reserved" /\ x.seen = availability[CarOf[h]] /\ x.dirty = {}
    BY <2>1 DEF NoTxn
  <2>3. Goto(w, x, "check") /\ UNCHANGED <<status, availability>> /\ status[h] = "none"
        /\ availability[CarOf[h]] \in {"available", "reserved"}
    BY <1>1, <2>1 DEF CreateRead, db
  <2>4. Carries(x, "check")
    BY <2>2, <2>3 DEF Carries, Enters, SweepOps
  <2> QED BY <2>3, <2>4, MoveCarries
<1>2. ASSUME CreateCheck(w)
      PROVE  Carries(txn[w], pc[w])' /\ [Book!Next]_<<status, availability>>
  <2>1. txn[w] \in Txn /\ txn[w].op = "create" /\ Enters(txn[w], "check")
    BY <1>2 DEF CreateCheck, SessionsCarry, Carries, Written, TypeOK
  <2>2. PICK h \in Holds :
           /\ txn[w].rows = {h} /\ txn[w].mark = "pending" /\ txn[w].next = "reserved"
           /\ status[h] = "none" /\ availability[CarOf[h]] \in {"available", "reserved"}
           /\ txn[w].todo = {CarOf[h]} /\ txn[w].seen = availability[CarOf[h]] /\ txn[w].dirty = {}
    BY <2>1 DEF Enters
  <2> DEFINE v == CarOf[h]
             x == [txn[w] EXCEPT !.todo = {}]
  <2>3. v \in Vehicles
    BY CarOfAssumption
  <2>4. CASE Held(v)
    BY <1>2, <2>2, <2>4, RestCarries DEF CreateCheck, db
  <2>5. CASE ~Held(v)
    <3>1. SetAvailability(w, v, txn[w].seen, x, FALSE, "commit")
      BY <1>2, <2>2, <2>5 DEF CreateCheck
    <3>2. /\ x \in Txn /\ x.op = "create" /\ x.rows = {h} /\ x.mark = "pending"
          /\ x.next = "reserved" /\ x.dirty = {}
      BY <2>1, <2>2 DEF Txn
    <3> HIDE DEF x, v
    <3>3. ActiveOn(v) = {}
      BY <2>5 DEF Held
    <3>4. ASSUME NEW y, Like(y, x, {v}) \/ (y = x /\ availability[v] = "reserved")
          PROVE  Carries(y, "commit")
      BY <2>2, <3>2, <3>3, <3>4 DEF Carries, Enters, Like, SweepOps, v
    <3>5. x.dirty \cup {v} = {v} /\ (txn[w].seen = x.next => availability[v] = "reserved")
      BY <2>2, <3>2 DEF v
    <3>6. PICK previous : previous = txn[w].seen
      OBVIOUS
    <3> QED BY <2>3, <3>1, <3>2, <3>4, <3>5, <3>6, AlertCarries
  <2> QED BY <2>4, <2>5
<1> QED BY <1>1, <1>2

LEMMA CancelCarries ==
    ASSUME TypeOK, SessionsCarry, NEW w \in Workers,
           (\E h \in Holds : CancelRead(w, h)) \/ CancelFlush(w)
    PROVE  Carries(txn[w], pc[w])' /\ [Book!Next]_<<status, availability>>
<1>1. ASSUME NEW h \in Holds, CancelRead(w, h)
      PROVE  Carries(txn[w], pc[w])' /\ UNCHANGED <<status, availability>>
  <2>1. PICK x : x = [NoTxn EXCEPT !.op = "cancel", !.rows = {h}, !.mark = "cancelled",
                                  !.todo = {CarOf[h]},
                                  !.seen = availability[CarOf[h]],
                                  !.lose = lead[h] = "open"]
    OBVIOUS
  <2>2. /\ x.op = "cancel" /\ x.rows = {h} /\ x.mark = "cancelled" /\ x.todo = {CarOf[h]}
        /\ x.next = "available" /\ x.seen = availability[CarOf[h]] /\ x.dirty = {}
    BY <2>1 DEF NoTxn
  <2>3. Goto(w, x, "flush") /\ UNCHANGED <<status, availability>> /\ status[h] = "pending"
    BY <1>1, <2>1 DEF CancelRead, CustomerCancellable, db
  <2>4. Closes(x, "flush")
    BY <2>2, <2>3 DEF Closes
  <2>5. Carries(x, "flush")
    BY <2>2, <2>4 DEF Carries, SweepOps
  <2> QED BY <2>3, <2>5, MoveCarries
<1>2. ASSUME CancelFlush(w)
      PROVE  Carries(txn[w], pc[w])' /\ [Book!Next]_<<status, availability>>
  <2>1. txn[w] \in Txn /\ txn[w].op = "cancel" /\ Closes(txn[w], "flush")
    BY <1>2 DEF CancelFlush, SessionsCarry, Carries, Resumes, TypeOK
  <2>2. PICK h \in Holds : txn[w].rows = {h}
    BY <2>1 DEF Closes
  <2>3. /\ status[h] = "pending" /\ txn[w].mark = "cancelled" /\ txn[w].next = "available"
        /\ txn[w].todo = {CarOf[h]} /\ txn[w].seen = availability[CarOf[h]] /\ txn[w].dirty = {}
    BY <2>1, <2>2 DEF Closes
  <2> DEFINE v == CarOf[h]
             x == [txn[w] EXCEPT !.todo = {}]
             free == ActiveOn(v) \ {h} = {} /\ availability[v] = "reserved"
  <2>4. v \in Vehicles
    BY CarOfAssumption
  <2>5. Book!Freed({h}) = IF free THEN {v} ELSE {}
    BY <2>4 DEF Book!Freed, Book!ActiveOn, ActiveOn, HoldsOn, Active, Book!Active
  <2>6. /\ x \in Txn /\ x.op = "cancel" /\ x.rows = {h} /\ x.mark = "cancelled"
        /\ x.next = "available" /\ x.dirty = {} /\ x.todo = {} /\ x.seen = availability[v]
    BY <2>1, <2>2, <2>3 DEF Txn
  <2>7. IF free THEN SetAvailability(w, v, x.seen, x, FALSE, "commit")
        ELSE Goto(w, x, "commit") /\ UNCHANGED <<db, alerted>>
    <3>1. PICK u \in txn[w].todo : IF ActiveOn(u) \ x.rows = {} /\ x.seen = "reserved"
                                   THEN SetAvailability(w, u, x.seen, x, FALSE, "commit")
                                   ELSE Goto(w, x, "commit") /\ UNCHANGED <<db, alerted>>
      BY <1>2 DEF CancelFlush
    <3>2. u = v
      BY <2>3, <3>1
    <3> QED BY <2>6, <3>1, <3>2
  <2> HIDE DEF x, v, free
  <2>8. ASSUME NEW y, Like(y, x, IF free THEN {v} ELSE {}) PROVE Carries(y, "commit")
    <3>1. Closes(y, "commit")
      BY <2>3, <2>5, <2>6, <2>8 DEF Closes, Like
    <3> QED BY <2>6, <2>8, <3>1 DEF Carries, SweepOps, Like
  <2>9. CASE free
    <3>1. PICK previous : previous = x.seen
      OBVIOUS
    <3>2. SetAvailability(w, v, previous, x, FALSE, "commit") /\ previous # x.next
      BY <2>6, <2>7, <2>9, <3>1 DEF free
    <3>3. x.dirty \cup {v} = {v}
      BY <2>6
    <3> QED BY <2>4, <2>6, <2>8, <2>9, <3>2, <3>3, AlertCarries
  <2>10. CASE ~free
    <3>1. Carries(x, "commit")
      BY <2>6, <2>8, <2>10 DEF Like
    <3> QED BY <2>7, <2>10, <3>1, MoveCarries DEF db
  <2> QED BY <2>9, <2>10
<1> QED BY <1>1, <1>2

LEMMA SweepCarries ==
    ASSUME TypeOK, SessionsCarry, NEW w \in Workers,
           \/ \E op \in SweepRuns : SweepRead(w, op)
           \/ SweepFlush(w) \/ \E v \in Vehicles : SweepRelease(w, v)
    PROVE  Carries(txn[w], pc[w])' /\ [Book!Next]_<<status, availability>>
<1>1. ASSUME NEW op \in SweepRuns, SweepRead(w, op)
      PROVE  Carries(txn[w], pc[w])' /\ UNCHANGED <<status, availability>>
  <2> DEFINE due == {h \in Holds : status[h] \in Releasable /\ lapsed[h]}
  <2>1. PICK x : x = [NoTxn EXCEPT !.op = op, !.rows = due, !.mark = "expired",
                                  !.todo = {CarOf[h] : h \in due}]
    OBVIOUS
  <2>2. /\ x.op = op /\ x.rows = due /\ x.mark = "expired" /\ x.todo = {CarOf[h] : h \in due}
        /\ x.next = "available" /\ x.dirty = {}
    BY <2>1 DEF NoTxn
  <2>3. Goto(w, x, "flush") /\ UNCHANGED <<status, availability>> /\ due # {}
    BY <1>1, <2>1 DEF SweepRead, db
  <2>4. op \in SweepOps /\ op \notin {"none", "create", "cancel", "status"}
    BY BoundsAssumption DEF SweepOps
  <2>5. \A h \in due : status[h] = "pending"
    BY DEF Releasable
  <2> HIDE DEF due
  <2>6. Closes(x, "flush")
    BY <2>2, <2>3, <2>4, <2>5 DEF Closes
  <2>7. Carries(x, "flush")
    BY <2>2, <2>4, <2>6 DEF Carries
  <2> QED BY <2>3, <2>7, MoveCarries
<1>2. ASSUME SweepFlush(w)
      PROVE  Carries(txn[w], pc[w])' /\ UNCHANGED <<status, availability>>
  <2>1. PICK y : y = txn[w]
    OBVIOUS
  <2>2. y.op \in SweepOps /\ Closes(y, "flush") /\ Goto(w, y, "release") /\ UNCHANGED <<status, availability>>
    BY <1>2, <2>1 DEF SweepFlush, SessionsCarry, Carries, Resumes, db
  <2>3. Book!Freed(y.rows) \ y.todo = {}
    BY <2>2 DEF Closes, Book!Freed
  <2>4. Closes(y, "release")
    BY <2>2, <2>3 DEF Closes
  <2>5. Carries(y, "release")
    BY <2>2, <2>4 DEF Carries, SweepOps
  <2> QED BY <2>2, <2>5, MoveCarries
<1>3. ASSUME NEW v \in Vehicles, SweepRelease(w, v)
      PROVE  Carries(txn[w], pc[w])' /\ [Book!Next]_<<status, availability>>
  <2> DEFINE x == [txn[w] EXCEPT !.todo = @ \ {v}]
             step == IF x.todo = {} THEN "commit" ELSE "release"
             free == ActiveOn(v) \ x.rows = {} /\ availability[v] = "reserved"
  <2>1. /\ txn[w] \in Txn /\ txn[w].op \in SweepOps /\ v \in txn[w].todo
        /\ Closes(txn[w], "release") \/ Resumes(txn[w], "release")
    BY <1>3 DEF SweepRelease, SessionsCarry, Carries, TypeOK
  <2>2. /\ x \in Txn /\ x.op = txn[w].op /\ x.rows = txn[w].rows /\ x.mark = txn[w].mark
        /\ x.next = txn[w].next /\ x.dirty = txn[w].dirty /\ x.todo = txn[w].todo \ {v}
    BY <2>1 DEF Txn
  <2>3. v \in Book!Freed(x.rows) <=> free /\ \E h \in x.rows : CarOf[h] = v
    <3>1. Book!ActiveOn(v) \subseteq x.rows <=> ActiveOn(v) \ x.rows = {}
      BY DEF Book!ActiveOn, ActiveOn, HoldsOn, Active, Book!Active
    <3> HIDE DEF x
    <3> QED BY <3>1 DEF Book!Freed
  <2>4. IF free THEN SetAvailability(w, v, availability[v], x, FALSE, step)
        ELSE Goto(w, x, step) /\ UNCHANGED <<db, alerted>>
    BY <1>3 DEF SweepRelease
  <2>5. step \in {"release", "commit"} /\ (step = "commit" => x.todo = {})
    OBVIOUS
  <2> HIDE DEF x, free, step
  <2>6. ASSUME NEW y, Like(y, x, IF free THEN x.dirty \cup {v} ELSE x.dirty)
        PROVE  Carries(y, step)
    <3>1. ASSUME Closes(txn[w], "release") PROVE Closes(y, step)
      <4>1. y.dirty = Book!Freed(y.rows) \ y.todo
        BY <2>1, <2>2, <2>3, <2>6, <3>1 DEF Closes, Like
      <4> QED BY <2>1, <2>2, <2>5, <2>6, <3>1, <4>1 DEF Closes, Like
    <3>2. ASSUME Resumes(txn[w], "release") PROVE Resumes(y, step)
      BY <2>2, <2>5, <2>6, <3>2 DEF Resumes, Like, free
    <3> QED BY <2>1, <2>2, <2>5, <2>6, <3>1, <3>2 DEF Carries, SweepOps, Like
  <2>7. CASE free
    <3>1. availability[v] # x.next
      BY <2>1, <2>2, <2>7 DEF free, Closes, Resumes
    <3>2. SetAvailability(w, v, availability[v], x, FALSE, step) /\ x.op # "none"
      BY <2>1, <2>2, <2>4, <2>7 DEF SweepOps
    <3>3. PICK previous : previous = availability[v]
      OBVIOUS
    <3>4. SetAvailability(w, v, previous, x, FALSE, step) /\ previous # x.next
      BY <3>1, <3>2, <3>3
    <3>5. \A y \in Txn : Like(y, x, x.dirty \cup {v}) => Carries(y, step)
      BY <2>6, <2>7
    <3>6. PICK s \in {"release", "commit"} : s = step
      BY <2>5
    <3>7. x \in Txn /\ x.op # "none"
      BY <2>2, <3>2
    <3>8. SetAvailability(w, v, previous, x, FALSE, s)
      BY <3>4, <3>6
    <3>9. \A y \in Txn : Like(y, x, x.dirty \cup {v}) => Carries(y, s)
      BY <3>5, <3>6
    <3> QED BY <3>4, <3>7, <3>8, <3>9, AlertCarries
  <2>8. CASE ~free
    <3>1. Carries(x, step)
      BY <2>6, <2>8 DEF Like
    <3> QED BY <2>4, <2>8, <3>1, MoveCarries DEF db
  <2> QED BY <2>7, <2>8
<1> QED BY <1>1, <1>2, <1>3

LEMMA DeskCarries ==
    ASSUME TypeOK, SessionsCarry, NEW w \in Workers,
           NEW v \in Vehicles, NEW next \in DeskChoices, NEW strict \in BOOLEAN,
           StatusRead(w, v, next, strict)
    PROVE  Carries(txn[w], pc[w])' /\ [Book!Next]_<<status, availability>>
<1> DEFINE x == [NoTxn EXCEPT !.op = "status", !.next = next]
<1>1. x \in Txn /\ x.op = "status" /\ x.rows = {} /\ x.dirty = {}
  BY NoTxnTyped, BoundsAssumption DEF Txn, NoTxn, Availability
<1>2. SetAvailability(w, v, availability[v], x, strict, "commit")
  BY DEF StatusRead
<1> HIDE DEF x
<1>3. ASSUME NEW y, y = x \/ Like(y, x, x.dirty \cup {v}) PROVE Carries(y, "commit")
  BY <1>1, <1>3 DEF Carries, SweepOps, Like
<1> QED BY <1>1, <1>2, <1>3, AlertCarries

(* A commit is a step of the book. *)
LEMMA CommitIsEntered ==
    ASSUME TypeOK, SessionsCarry, NEW w \in Workers, NEW op, Commit(w, op),
           op \in {"create", "cancel", "sweep", "status"}
    PROVE  Carries(txn[w], pc[w])' /\ [Book!Next]_<<status, availability>>
<1>1. PICK x \in Txn : x = txn[w]
  BY DEF TypeOK
<1>2. Carries(x, "commit") /\ x.op # "none" /\ Persist(x)
  BY <1>1 DEF Commit, SessionsCarry
<1> QED BY <1>2, PersistIsEntered, RestCarries DEF Commit

LEMMA StepIsEntered ==
    ASSUME TypeOK, SessionsCarry, NEW w \in Workers,
           Sweep(w) \/ Customer(w) \/ Desk(w) \/ Abort(w)
    PROVE  Carries(txn[w], pc[w])' /\ [Book!Next]_<<status, availability>>
<1>1. ASSUME Rollback(w), UNCHANGED db
      PROVE  Carries(txn[w], pc[w])' /\ UNCHANGED <<status, availability>>
  BY <1>1, RestCarries DEF db
<1>2. ASSUME Idle(w), UNCHANGED <<pc, txn>> PROVE Carries(txn[w], pc[w])'
  BY <1>2, IdleCarries DEF SessionsCarry, Carries, Idle
<1>3. ASSUME Sweep(w)
      PROVE  Carries(txn[w], pc[w])' /\ [Book!Next]_<<status, availability>>
  BY <1>1, <1>3, SweepCarries, CommitIsEntered DEF Sweep, SweepCommit, SweepDryRun, db
<1>4. ASSUME Customer(w)
      PROVE  Carries(txn[w], pc[w])' /\ [Book!Next]_<<status, availability>>
  <2>1. ASSUME NEW v \in Watched, Subscribe(w, v) \/ Unsubscribe(w, v)
        PROVE  Carries(txn[w], pc[w])' /\ UNCHANGED <<status, availability>>
    BY <1>2, <2>1 DEF Subscribe, Unsubscribe
  <2>2. CASE CreateCommit(w) \/ CancelCommit(w)
    BY <2>2, CommitIsEntered DEF CreateCommit, CancelCommit
  <2>3. CASE (\E h \in Holds : CreateRead(w, h)) \/ CreateCheck(w)
    BY <2>3, ReserveCarries
  <2>4. CASE (\E h \in Holds : CancelRead(w, h)) \/ CancelFlush(w)
    BY <2>4, CancelCarries
  <2> QED BY <1>4, <2>1, <2>2, <2>3, <2>4 DEF Customer
<1>5. ASSUME Desk(w)
      PROVE  Carries(txn[w], pc[w])' /\ [Book!Next]_<<status, availability>>
  <2>1. ASSUME NEW h \in Holds, NEW stage \in LeadCloses, CloseLead(w, h, stage)
        PROVE  Carries(txn[w], pc[w])' /\ UNCHANGED <<status, availability>>
    BY <1>2, <2>1 DEF CloseLead
  <2>2. ASSUME NEW h \in Holds, NEW paid \in Payments, TakePayment(w, h, paid)
        PROVE  Carries(txn[w], pc[w])' /\ Book!Next
    <3>1. Carries(txn[w], pc[w])'
      BY <1>2, <2>2 DEF TakePayment
    <3>2. Book!Pay(h, paid) /\ paid \in {"deposit_paid", "confirmed"}
      BY <2>2, BoundsAssumption DEF TakePayment, Book!Pay, Book!Active, Active
    <3> QED BY <3>1, <3>2 DEF Book!Next
  <2>3. CASE StatusCommit(w)
    BY <2>3, CommitIsEntered DEF StatusCommit
  <2>4. CASE \E v \in Vehicles, next \in DeskChoices, strict \in BOOLEAN : StatusRead(w, v, next, strict)
    BY <2>4, DeskCarries
  <2> QED BY <1>5, <2>1, <2>2, <2>3, <2>4 DEF Desk
<1>6. ASSUME Abort(w)
      PROVE  Carries(txn[w], pc[w])' /\ UNCHANGED <<status, availability>>
  BY <1>1, <1>6 DEF Abort
<1> QED BY <1>3, <1>4, <1>5, <1>6

(* A session that finds its cars and its rows as it left them carries what *)
(* it carried.                                                             *)
LEMMA KeptCarries ==
    ASSUME TypeOK, NEW w \in Workers, Carries(txn[w], pc[w]),
           txn'[w] = txn[w], pc'[w] = pc[w],
           \A v \in InHand(txn[w]) : availability'[v] = availability[v] /\ ActiveOn(v)' = ActiveOn(v),
           \A h \in txn[w].rows : status'[h] = status[h]
    PROVE  Carries(txn[w], pc[w])'
<1> DEFINE x == txn[w]
<1>1. x \in Txn /\ \A h \in x.rows : h \in Holds /\ CarOf[h] \in InHand(x)
  BY DEF TypeOK, Txn, InHand
<1>2. Book!Freed(x.rows)' = Book!Freed(x.rows)
  <2>1. \A v \in Vehicles : Book!ActiveOn(v) = ActiveOn(v) /\ Book!ActiveOn(v)' = ActiveOn(v)'
    BY DEF Book!ActiveOn, ActiveOn, HoldsOn, Active, Book!Active
  <2>2. \A v \in Vehicles : (\E h \in x.rows : CarOf[h] = v) => v \in InHand(x)
    BY <1>1
  <2>3. x' = x
    OBVIOUS
  <2>4. \A v \in Vehicles : (\E h \in x.rows : CarOf[h] = v) =>
            availability'[v] = availability[v] /\ Book!ActiveOn(v)' = Book!ActiveOn(v)
    BY <2>1, <2>2
  <2> HIDE DEF x
  <2> QED BY <2>3, <2>4 DEF Book!Freed
<1>3. ASSUME Enters(x, pc[w]) PROVE Enters(x, pc[w])'
  <2>1. PICK h \in Holds :
        /\ x.rows = {h} /\ x.mark = "pending" /\ x.next = "reserved"
        /\ status[h] = "none" /\ availability[CarOf[h]] \in {"available", "reserved"}
        /\ pc[w] = "check" =>
              x.todo = {CarOf[h]} /\ x.seen = availability[CarOf[h]] /\ x.dirty = {}
        /\ pc[w] = "commit" =>
              /\ ActiveOn(CarOf[h]) = {}
              /\ \/ x.dirty = {CarOf[h]}
                 \/ x.dirty = {} /\ availability[CarOf[h]] = "reserved"
    BY <1>3 DEF Enters
  <2>2. /\ status'[h] = status[h] /\ availability'[CarOf[h]] = availability[CarOf[h]]
        /\ ActiveOn(CarOf[h])' = ActiveOn(CarOf[h]) /\ x' = x
    BY <1>1, <2>1
  <2> HIDE DEF x
  <2> QED BY <2>1, <2>2 DEF Enters
<1>4. ASSUME Closes(x, pc[w]) PROVE Closes(x, pc[w])'
  <2>1. \A v \in x.todo : v \in InHand(x)
    BY DEF InHand
  <2>2. x' = x /\ \A v \in x.todo : availability'[v] = availability[v]
    BY <2>1
  <2>3. \A h \in x.rows : status'[h] = status[h]
    OBVIOUS
  <2> HIDE DEF x
  <2> QED BY <1>2, <1>4, <2>2, <2>3 DEF Closes
<1>5. ASSUME Resumes(x, pc[w]) PROVE Resumes(x, pc[w])'
  <2>1. \A v \in x.dirty : v \in InHand(x)
    BY DEF InHand
  <2>2. x' = x /\ \A v \in x.dirty : availability'[v] = availability[v] /\ ActiveOn(v)' = ActiveOn(v)
    BY <2>1
  <2> HIDE DEF x
  <2> QED BY <1>5, <2>2 DEF Resumes
<1>6. x' = x
  OBVIOUS
<1> QED BY <1>3, <1>4, <1>5, <1>6 DEF Carries, Written

LEMMA RestingCarries ==
    ASSUME TypeOK, SessionsCarry, UNCHANGED <<status, availability, pc, txn>>
    PROVE  SessionsCarry'
<1>1. \A v : ActiveOn(v)' = ActiveOn(v)
  BY DEF ActiveOn
<1> QED BY <1>1, KeptCarries DEF SessionsCarry

LEMMA NextIsEntered ==
    ASSUME TypeOK, CarsApart, CarsApart', LoadedHoldsStay, SessionsCarry, Next
    PROVE  SessionsCarry' /\ [Book!Next]_<<status, availability>>
<1>1. ASSUME NEW w \in Workers, Spared(w) PROVE Carries(txn[w], pc[w])'
  <2>1. \A v \in InHand(txn[w]) : ActiveOn(v)' = ActiveOn(v)
    BY <1>1 DEF Spared, ActiveOn, HoldsOn
  <2>2. \A h \in txn[w].rows : status'[h] = status[h]
    BY <1>1 DEF Spared, InHand, TypeOK, Txn
  <2> QED BY <1>1, <2>1, <2>2, KeptCarries DEF Spared, SessionsCarry
<1>2. ASSUME NEW w \in Workers, Sweep(w) \/ Customer(w) \/ Desk(w) \/ Abort(w),
             ~ \E h \in Holds, paid \in Payments : TakePayment(w, h, paid)
      PROVE  SessionsCarry' /\ [Book!Next]_<<status, availability>>
  <2>1. OthersSpared(w) /\ Carries(txn[w], pc[w])' /\ [Book!Next]_<<status, availability>>
    BY <1>2, StepIsEntered, OthersAreSpared
  <2> QED BY <1>1, <2>1 DEF OthersSpared, SessionsCarry
<1>3. ASSUME NEW w \in Workers, NEW h \in Holds, NEW paid \in Payments, TakePayment(w, h, paid)
      PROVE  SessionsCarry' /\ [Book!Next]_<<status, availability>>
  <2>1. /\ UNCHANGED <<availability, txn, pc>> /\ \A v : ActiveOn(v)' = ActiveOn(v)
        /\ \A u \in Workers : \A g \in txn[u].rows : status'[g] = status[g]
    BY <1>3, PaidIsStillActive DEF TakePayment, LoadedHoldsStay
  <2>2. SessionsCarry'
    BY <2>1, KeptCarries DEF SessionsCarry
  <2>3. [Book!Next]_<<status, availability>>
    BY <1>3, StepIsEntered DEF Desk
  <2> QED BY <2>2, <2>3
<1>4. ASSUME NEW h \in Holds, Lapse(h)
      PROVE  SessionsCarry' /\ UNCHANGED <<status, availability>>
  <2>1. UNCHANGED <<status, availability, pc, txn>>
    BY <1>4 DEF Lapse
  <2> QED BY <2>1, RestingCarries
<1> QED BY <1>2, <1>3, <1>4 DEF Next

(* Reservations implements HoldBook, for any number of cars, holds and     *)
(* handlers and any resting database: while no two handlers have one car   *)
(* in hand and none takes money for a hold that is being ended, every step *)
(* of the endpoints, the sweep and the desk is a step of the book, or none.*)
THEOREM HandlersKeepTheBook ==
    Spec /\ []CarsApart /\ [][LoadedHoldsStay]_vars => ImplementsHoldBook
<1>1. Init => Book!Init /\ SessionsCarry
  BY DEF Init, Book!Init, Book!Active, SessionsCarry, Carries, NoTxn, SweepOps, HoldStatus, Active, Ended,
         Availability
<1>2. /\ TypeOK /\ CarsApart /\ CarsApart' /\ [LoadedHoldsStay]_vars /\ SessionsCarry
      /\ [Next]_vars
      => SessionsCarry' /\ [Book!Next]_<<status, availability>>
  <2>1. TypeOK /\ CarsApart /\ CarsApart' /\ LoadedHoldsStay /\ SessionsCarry /\ Next
        => SessionsCarry' /\ [Book!Next]_<<status, availability>>
    BY NextIsEntered
  <2>2. ASSUME TypeOK, SessionsCarry, UNCHANGED vars
        PROVE  SessionsCarry' /\ UNCHANGED <<status, availability>>
    <3>1. UNCHANGED <<status, availability, pc, txn>>
      BY <2>2 DEF vars
    <3> QED BY <2>2, <3>1, RestingCarries
  <2> QED BY <2>1, <2>2
<1> QED BY <1>1, <1>2, TypeCorrect, PTL DEF Spec, ImplementsHoldBook

--------------------------------------------------------------------------------
(* Without a push provider nothing in a session writes to the tables before *)
(* its commit, and a dry run has no commit: that needs no assumption on how *)
(* many handlers run at once.                                               *)

LEMMA QuietAvailability ==
    ASSUME ~PushEnabled, NEW w \in Workers, NEW v \in Vehicles, NEW previous,
           NEW x, NEW strict, NEW step,
           SetAvailability(w, v, previous, x, strict, step)
    PROVE  UNCHANGED db
  BY DEF SetAvailability, Alert

LEMMA SweepIsQuiet ==
    ASSUME ~PushEnabled, NEW w \in Workers, Sweep(w), ~SweepCommit(w)
    PROVE  UNCHANGED db
<1>1. CASE (\E op \in SweepRuns : SweepRead(w, op)) \/ SweepFlush(w) \/ SweepDryRun(w)
  BY <1>1 DEF SweepRead, SweepFlush, SweepDryRun
<1>2. ASSUME NEW v \in Vehicles, SweepRelease(w, v) PROVE UNCHANGED db
  BY <1>2, QuietAvailability DEF SweepRelease
<1> QED BY <1>1, <1>2 DEF Sweep

LEMMA TodoInVehicles ==
    ASSUME TypeOK, NEW w \in Workers, NEW v \in txn[w].todo
    PROVE  v \in Vehicles
  BY DEF TypeOK, Txn

LEMMA CustomerIsQuiet ==
    ASSUME TypeOK, ~PushEnabled, NEW w \in Workers, Customer(w),
           ~CreateCommit(w), ~CancelCommit(w)
    PROVE  UNCHANGED db \/ UNCHANGED txn
<1>1. ASSUME NEW h \in Holds, CreateRead(w, h) \/ CancelRead(w, h) PROVE UNCHANGED db
  BY <1>1 DEF CreateRead, CancelRead
<1>2. CASE CreateCheck(w)
  <2>1. PICK v \in Vehicles :
            \/ UNCHANGED db
            \/ SetAvailability(w, v, txn[w].seen, [txn[w] EXCEPT !.todo = {}],
                               FALSE, "commit")
    BY <1>2, TodoInVehicles DEF CreateCheck
  <2> QED BY <2>1, QuietAvailability
<1>3. CASE CancelFlush(w)
  <2>1. PICK v \in Vehicles :
            \/ UNCHANGED db
            \/ SetAvailability(w, v, txn[w].seen, [txn[w] EXCEPT !.todo = {}],
                               FALSE, "commit")
    <3>1. PICK v \in txn[w].todo :
              LET x == [txn[w] EXCEPT !.todo = {}]
              IN IF ActiveOn(v) \ x.rows = {} /\ x.seen = "reserved"
                 THEN SetAvailability(w, v, x.seen, x, FALSE, "commit")
                 ELSE Goto(w, x, "commit") /\ UNCHANGED <<db, alerted>>
      BY <1>3, Zenon DEF CancelFlush
    <3>2. v \in Vehicles
      BY TodoInVehicles
    <3>3. [txn[w] EXCEPT !.todo = {}].seen = txn[w].seen
      BY DEF TypeOK, Txn
    <3> QED BY <3>1, <3>2, <3>3
  <2> QED BY <2>1, QuietAvailability
<1>4. ASSUME NEW v \in Watched, Subscribe(w, v) \/ Unsubscribe(w, v) PROVE UNCHANGED txn
  BY <1>4 DEF Subscribe, Unsubscribe
<1> QED BY <1>1, <1>2, <1>3, <1>4 DEF Customer

LEMMA DeskIsQuiet ==
    ASSUME ~PushEnabled, NEW w \in Workers, Desk(w), ~StatusCommit(w)
    PROVE  UNCHANGED db \/ UNCHANGED txn
<1>1. ASSUME NEW v \in Vehicles, NEW next \in DeskChoices, NEW strict \in BOOLEAN,
             StatusRead(w, v, next, strict)
      PROVE  UNCHANGED db
  BY <1>1, QuietAvailability, BoundsAssumption DEF StatusRead
<1>2. ASSUME NEW h \in Holds, NEW stage \in LeadCloses, CloseLead(w, h, stage)
      PROVE  UNCHANGED txn
  BY <1>2 DEF CloseLead
<1>3. ASSUME NEW h \in Holds, NEW paid \in Payments, TakePayment(w, h, paid)
      PROVE  UNCHANGED txn
  BY <1>3 DEF TakePayment
<1> QED BY <1>1, <1>2, <1>3 DEF Desk

(* A commit moves one session, and that session is not a dry run.          *)
LEMMA CommitSparesDryRuns ==
    ASSUME TypeOK, NEW u \in Workers, NEW op, op # "dry", Commit(u, op),
           NEW w \in Workers, txn[w].op = "dry"
    PROVE  txn'[w] = txn[w]
<1>1. txn' = [txn EXCEPT ![u] = NoTxn] /\ txn[u].op = op
  BY DEF Commit, Rollback, Goto
<1>2. u # w
  BY <1>1
<1> QED BY <1>1, <1>2 DEF TypeOK

(* expire_reservations --dry-run reports and changes nothing: while no push *)
(* provider can make a dropped token commit the session, whatever else is   *)
(* running, a step of a dry run leaves every table as it was. With one it   *)
(* may not, which is what the run dry_run_not_dry shows.                    *)
THEOREM DryRunsChangeNothing == ASSUME ~PushEnabled PROVE Spec => DryRunChangesNothing
<1>1. ASSUME TypeOK, [Next]_vars
      PROVE  \A w \in Workers :
                 txn[w].op = "dry" /\ txn'[w] # txn[w] => UNCHANGED db
  <2> SUFFICES ASSUME NEW w \in Workers, txn[w].op = "dry", txn'[w] # txn[w]
               PROVE  UNCHANGED db
    OBVIOUS
  <2>1. ASSUME NEW u \in Workers, Sweep(u) PROVE UNCHANGED db
    BY <1>1, <2>1, SweepIsQuiet, CommitSparesDryRuns DEF SweepCommit
  <2>2. ASSUME NEW u \in Workers, Customer(u) PROVE UNCHANGED db
    BY <1>1, <2>2, CustomerIsQuiet, CommitSparesDryRuns DEF CreateCommit, CancelCommit
  <2>3. ASSUME NEW u \in Workers, Desk(u) PROVE UNCHANGED db
    BY <1>1, <2>3, DeskIsQuiet, CommitSparesDryRuns DEF StatusCommit
  <2>4. ASSUME NEW u \in Workers, Abort(u) PROVE UNCHANGED db
    BY <2>4 DEF Abort
  <2>5. ASSUME NEW h \in Holds, Lapse(h) PROVE UNCHANGED txn
    BY <2>5 DEF Lapse
  <2>6. CASE UNCHANGED vars
    BY <2>6 DEF vars, db
  <2> QED BY <1>1, <2>1, <2>2, <2>3, <2>4, <2>5, <2>6 DEF Next
<1> QED BY <1>1, TypeCorrect, PTL DEF Spec, DryRunChangesNothing

=============================================================================

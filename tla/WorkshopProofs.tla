---------------------------- MODULE WorkshopProofs ----------------------------
(***************************************************************************)
(* Proofs about Workshop, for any number of vehicles, appointments, works  *)
(* and workers.                                                            *)
(*                                                                         *)
(* The argument is one for all of them: nothing a handler reads is locked, *)
(* but a row nobody committed while it was in memory is still what was     *)
(* read.  So each session is described by what its commit would leave: the *)
(* columns it would write, on top of the tables as they are now.  Loading  *)
(* establishes that description, and no step breaks it without putting the *)
(* row among the raced ones.                                               *)
(***************************************************************************)
EXTENDS Workshop, TLAPS

To(new, old) == IF new = "same" THEN old ELSE new

ApptAfter(x, a) == To(x.apptTo, appt[a])
JobAfter(x, a) == To(x.jobTo, job[a])
WorkAfter(x, k) == IF k \in x.works THEN To(x.workTo, work[k]) ELSE work[k]

(* StatusesAgree, of one appointment's status and its job's. *)
Agree(s, j) ==
    /\ s \in {"absent", "requested", "confirmed"} => j = "none"
    /\ s = "cancelled" => j \in {"none", "cancelled"}
    /\ s \in {"in_progress", "awaiting_approval", "completed"} => j = s

Pending(a) == \E k \in WorksOf(a) : work[k] = "pending_approval"

(* What a session x would leave if it committed now. *)
LeavesAgreeing(x) == \A a \in x.appts \ raced : Agree(ApptAfter(x, a), JobAfter(x, a))
LeavesRunning(x) == \A a \in x.appts \ raced : JobAfter(x, a) # "awaiting_approval"
LeavesOwed(x) ==
    \A a \in x.appts \ raced :
        JobAfter(x, a) = "awaiting_approval" =>
            \E k \in WorksOf(a) : WorkAfter(x, k) = "pending_approval"
LeavesHigher(x) ==
    \A v \in x.vehicles \ raced : x.reading # 0 => x.reading >= odometer[v]

(* A session has at most one appointment, and writes only to its work. *)
OwnWork(x) ==
    /\ \A a, b \in x.appts : a = b
    /\ \A k \in x.works : ApptOf[k] \in x.appts

Good(x, step) ==
    /\ x \in Txn
    /\ OwnWork(x)
    /\ LeavesAgreeing(x)
    /\ step = "decide" => LeavesRunning(x)
    /\ LeavesOwed(x)
    /\ LeavesHigher(x)

IInv ==
    /\ TypeOK
    /\ StatusesAgree
    /\ WaitingIsOwed
    /\ \A w \in Workers : Good(txn[w], pc[w])

--------------------------------------------------------------------------------
(* Lemmas *)

LEMMA NoTxnTyped == NoTxn \in Txn
  BY DEF NoTxn, Txn, Ops

(* A session that writes nothing leaves what is there. *)
LEMMA NoTxnGood == ASSUME NEW step PROVE Good(NoTxn, step)
  BY NoTxnTyped DEF Good, OwnWork, LeavesAgreeing, LeavesRunning, LeavesOwed,
                    LeavesHigher, NoTxn

LEMMA AgreeIsStatusesAgree ==
    StatusesAgree <=> \A a \in Appts \ raced : Agree(appt[a], job[a])
  BY DEF StatusesAgree, Agree

LEMMA InitIInv == Init => IInv
<1> SUFFICES ASSUME Init PROVE IInv
  OBVIOUS
<1>1. TypeOK
  BY NoTxnTyped DEF Init, TypeOK, ApptStatus, JobStatus, WorkStatus
<1>2. StatusesAgree /\ WaitingIsOwed
  BY DEF Init, StatusesAgree, WaitingIsOwed
<1>3. ASSUME NEW w \in Workers PROVE Good(txn[w], pc[w])
  <2>1. txn[w] = NoTxn
    BY DEF Init
  <2> QED
    BY <2>1, NoTxnGood
<1> QED
  BY <1>1, <1>2, <1>3 DEF IInv

--------------------------------------------------------------------------------
(* The steps, by what they do to the sessions and the tables *)

(* A step that only changes worker w's session and where it stands. *)
Keeps(w, x, step) ==
    /\ pc' = [pc EXCEPT ![w] = step]
    /\ txn' = [txn EXCEPT ![w] = x]
    /\ UNCHANGED <<tables, raced, moved, struck>>

LEMMA KeepsIInv ==
    ASSUME IInv, NEW w \in Workers, NEW x, NEW step \in {"idle", "decide", "commit"},
           Keeps(w, x, step), Good(x, step)
    PROVE  IInv'
<1>1. TypeOK'
  BY DEF IInv, TypeOK, Keeps, Good, tables
<1>2. StatusesAgree' /\ WaitingIsOwed'
  BY DEF IInv, Keeps, StatusesAgree, WaitingIsOwed, tables
<1>3. ASSUME NEW u \in Workers PROVE Good(txn[u], pc[u])'
  <2>1. Good(txn[u], pc[u])
    BY DEF IInv
  <2>2. UNCHANGED <<appt, job, work, odometer, raced>>
    BY DEF Keeps, tables
  <2>3. CASE u = w
    <3>1. txn'[u] = x /\ pc'[u] = step
      BY <2>3 DEF Keeps, IInv, TypeOK
    <3> QED
      BY <2>2, <3>1 DEF Good, OwnWork, LeavesAgreeing, LeavesRunning, LeavesOwed,
                        LeavesHigher, ApptAfter, JobAfter, WorkAfter, WorksOf
  <2>4. CASE u # w
    <3>1. txn'[u] = txn[u] /\ pc'[u] = pc[u]
      BY <2>4 DEF Keeps, IInv, TypeOK
    <3> QED
      BY <2>1, <2>2, <3>1 DEF Good, OwnWork, LeavesAgreeing, LeavesRunning, LeavesOwed,
                              LeavesHigher, ApptAfter, JobAfter, WorkAfter, WorksOf
  <2> QED
    BY <2>3, <2>4
<1> QED
  BY <1>1, <1>2, <1>3 DEF IInv

(* Staff moving an appointment or deleting a history item touches nothing  *)
(* a session is described by.                                              *)
LEMMA AsideIInv ==
    ASSUME IInv, TypeOK', UNCHANGED <<appt, job, work, odometer, raced, pc, txn>>
    PROVE  IInv'
<1>1. StatusesAgree' /\ WaitingIsOwed'
  BY DEF IInv, StatusesAgree, WaitingIsOwed, WorksOf
<1>2. ASSUME NEW u \in Workers PROVE Good(txn[u], pc[u])'
  BY DEF IInv, Good, OwnWork, LeavesAgreeing, LeavesRunning, LeavesOwed,
         LeavesHigher, ApptAfter, JobAfter, WorkAfter, WorksOf
<1> QED
  BY <1>1, <1>2 DEF IInv

(* What a commit leaves: its own rows as its session says, the others as   *)
(* they were; and a row of it that anybody else has in memory is raced.    *)
LEMMA CommitLeaves ==
    ASSUME IInv, NEW w \in Workers, Commit(w)
    PROVE  LET x == txn[w]
           IN /\ \A a \in Appts : IF a \in x.appts
                                 THEN appt'[a] = ApptAfter(x, a) /\ job'[a] = JobAfter(x, a)
                                 ELSE appt'[a] = appt[a] /\ job'[a] = job[a]
              /\ \A k \in Works : work'[k] = WorkAfter(x, k)
              /\ \A v \in Vehicles : odometer'[v] = IF v \in x.vehicles /\ x.reading # 0
                                                    THEN x.reading ELSE odometer[v]
              /\ raced \subseteq raced'
              /\ \A u \in Workers \ {w} : Rows(x) \cap Rows(txn[u]) \subseteq raced'
              /\ txn'[w] = NoTxn /\ \A u \in Workers \ {w} : txn'[u] = txn[u] /\ pc'[u] = pc[u]
  BY DEF Commit, IInv, TypeOK, Rollback, ApptAfter, JobAfter, WorkAfter, To

LEMMA CommitTyped ==
    ASSUME TypeOK, NEW w \in Workers, Commit(w)
    PROVE  TypeOK'
<1>1. txn[w] \in Txn
  BY DEF TypeOK
<1>2. appt' \in [Appts -> ApptStatus] /\ job' \in [Appts -> JobStatus]
  BY <1>1 DEF Commit, TypeOK, Txn
<1>3. work' \in [Works -> WorkStatus] /\ slot' \in [Appts -> Nat]
  BY <1>1 DEF Commit, TypeOK, Txn
<1>4. invoiced' \subseteq Appts /\ invoice' \in [Appts -> SUBSET Works]
  BY <1>1 DEF Commit, TypeOK, Txn
<1>5. history' \in [Appts -> 0 .. 2]
  BY <1>1 DEF Commit, TypeOK, Txn
<1>6. odometer' \in [Vehicles -> Nat]
  BY <1>1 DEF Commit, TypeOK, Txn
<1>7. raced' \subseteq Appts \cup Vehicles /\ moved' \subseteq Appts /\ struck' \subseteq Appts
  BY <1>1 DEF Commit, TypeOK, Txn, Rows
<1>8. pc' \in [Workers -> {"idle", "decide", "commit"}] /\ txn' \in [Workers -> Txn]
  BY NoTxnTyped DEF Commit, Rollback, TypeOK
<1> QED
  BY <1>2, <1>3, <1>4, <1>5, <1>6, <1>7, <1>8 DEF TypeOK

LEMMA CommitIInv ==
    ASSUME IInv, NEW w \in Workers, Commit(w)
    PROVE  IInv'
<1> DEFINE x == txn[w]
<1>1. TypeOK'
  BY CommitTyped DEF IInv
<1>2. Good(x, "commit") /\ pc[w] = "commit"
  BY DEF IInv, Commit
<1>3. /\ \A a \in Appts : IF a \in x.appts
                         THEN appt'[a] = ApptAfter(x, a) /\ job'[a] = JobAfter(x, a)
                         ELSE appt'[a] = appt[a] /\ job'[a] = job[a]
      /\ \A k \in Works : work'[k] = WorkAfter(x, k)
      /\ \A v \in Vehicles : odometer'[v] = IF v \in x.vehicles /\ x.reading # 0
                                            THEN x.reading ELSE odometer[v]
      /\ raced \subseteq raced'
      /\ \A u \in Workers \ {w} : Rows(x) \cap Rows(txn[u]) \subseteq raced'
      /\ txn'[w] = NoTxn /\ \A u \in Workers \ {w} : txn'[u] = txn[u] /\ pc'[u] = pc[u]
  BY CommitLeaves
<1>4. x \in Txn /\ OwnWork(x)
  BY <1>2 DEF Good
<1>o. \A a \in Appts \ x.appts : \A k \in WorksOf(a) : work'[k] = work[k]
  BY <1>3, <1>4 DEF OwnWork, WorksOf, WorkAfter
<1>5. StatusesAgree'
  <2> SUFFICES ASSUME NEW a \in Appts, a \notin raced'
               PROVE  Agree(appt'[a], job'[a])
    BY DEF StatusesAgree, Agree
  <2>1. a \notin raced /\ Agree(appt[a], job[a])
    BY <1>3, AgreeIsStatusesAgree DEF IInv
  <2>2. CASE a \in x.appts
    BY <1>2, <1>3, <2>1, <2>2 DEF Good, LeavesAgreeing
  <2>3. CASE a \notin x.appts
    BY <1>3, <2>1, <2>3
  <2> QED
    BY <2>2, <2>3
<1>6. WaitingIsOwed'
  <2> SUFFICES ASSUME NEW a \in Appts, a \notin raced', job'[a] = "awaiting_approval"
               PROVE  \E k \in WorksOf(a) : work'[k] = "pending_approval"
    BY DEF WaitingIsOwed, WorksOf
  <2>1. a \notin raced
    BY <1>3
  <2>2. CASE a \in x.appts
    <3>1. \E k \in WorksOf(a) : WorkAfter(x, k) = "pending_approval"
      BY <1>2, <1>3, <2>1, <2>2 DEF Good, LeavesOwed
    <3> QED
      BY <1>3, <3>1 DEF WorksOf
  <2>3. CASE a \notin x.appts
    <3>1. \E k \in WorksOf(a) : work[k] = "pending_approval"
      BY <1>3, <2>1, <2>3 DEF IInv, WaitingIsOwed
    <3> QED
      BY <1>o, <2>3, <3>1
  <2> QED
    BY <2>2, <2>3
<1>7. ASSUME NEW u \in Workers PROVE Good(txn[u], pc[u])'
  <2>1. CASE u = w
    <3>1. txn'[u] = NoTxn
      BY <1>3, <2>1
    <3> QED
      BY <3>1, NoTxnTyped DEF Good, OwnWork, LeavesAgreeing, LeavesRunning, LeavesOwed,
                              LeavesHigher, NoTxn
  <2>2. CASE u # w
    <3> DEFINE y == txn[u]
    <3>1. y \in Txn /\ Good(y, pc[u]) /\ txn'[u] = y /\ pc'[u] = pc[u]
      BY <1>3, <2>2 DEF IInv, Good
    <3>2. \A a \in y.appts \ raced' :
              /\ a \in Appts /\ a \notin raced /\ a \notin x.appts
              /\ appt'[a] = appt[a] /\ job'[a] = job[a]
              /\ \A k \in WorksOf(a) : work'[k] = work[k]
      BY <1>3, <1>o, <2>2, <3>1 DEF Rows, Txn
    <3>3. \A v \in y.vehicles \ raced' : v \notin raced /\ odometer'[v] = odometer[v]
      BY <1>3, <2>2, <3>1 DEF Rows, Txn
    <3> HIDE DEF y
    <3>4. LeavesAgreeing(txn[u])'
      BY <3>1, <3>2 DEF Good, LeavesAgreeing, ApptAfter, JobAfter
    <3>5. (pc[u] = "decide" => LeavesRunning(txn[u]))'
      BY <3>1, <3>2 DEF Good, LeavesRunning, JobAfter
    <3>6. LeavesOwed(txn[u])'
      BY <3>1, <3>2 DEF Good, LeavesOwed, JobAfter, WorkAfter, WorksOf
    <3>7. LeavesHigher(txn[u])'
      BY <3>1, <3>3 DEF Good, LeavesHigher
    <3> QED
      BY <3>1, <3>4, <3>5, <3>6, <3>7 DEF Good, OwnWork
  <2> QED
    BY <2>1, <2>2
<1> QED
  BY <1>1, <1>5, <1>6, <1>7 DEF IInv

--------------------------------------------------------------------------------
(* What each handler's session would leave, when it is loaded *)

LEMMA GoodAbout ==
    ASSUME NEW x \in Txn, NEW a \in Appts, NEW step,
           x.appts = {a}, x.works \subseteq WorksOf(a),
           (a \notin raced) => Agree(ApptAfter(x, a), JobAfter(x, a)),
           (a \notin raced /\ step = "decide") => (JobAfter(x, a) # "awaiting_approval"),
           (a \notin raced /\ JobAfter(x, a) = "awaiting_approval") =>
               (\E k \in WorksOf(a) : WorkAfter(x, k) = "pending_approval"),
           LeavesHigher(x)
    PROVE  Good(x, step)
<1>1. OwnWork(x)
  BY DEF OwnWork, WorksOf
<1>2. LeavesAgreeing(x) /\ LeavesOwed(x)
  BY DEF LeavesAgreeing, LeavesOwed
<1>3. (step = "decide") => LeavesRunning(x)
  BY DEF LeavesRunning
<1> QED
  BY <1>1, <1>2, <1>3 DEF Good

(* The tables about an appointment nobody raced for. *)
LEMMA Settled ==
    ASSUME IInv, NEW a \in Appts, a \notin raced
    PROVE  /\ Agree(appt[a], job[a])
           /\ (job[a] = "awaiting_approval") => Pending(a)
           /\ appt[a] \in ApptStatus /\ job[a] \in JobStatus
  BY AgreeIsStatusesAgree DEF IInv, WaitingIsOwed, Pending, TypeOK

LEMMA RaiseTyped ==
    ASSUME IInv, NEW v \in Vehicles, NEW m \in Nat
    PROVE  Raise(v, m) \in Nat /\ (Raise(v, m) # 0 => Raise(v, m) >= odometer[v])
  BY DEF IInv, TypeOK, Raise

LEMMA BookGood ==
    ASSUME IInv, NEW w \in Workers, NEW a \in Appts, NEW s \in Slots[a], Book(w, a, s)
    PROVE  IInv'
<1> DEFINE x == [VehicleSession("book", a) EXCEPT !.apptTo = "requested", !.slotTo = s]
<1>1. s \in Nat
  BY NumbersAssumption
<1>2. x \in Txn /\ x.appts = {a} /\ x.works = {} /\ x.reading = 0
      /\ x.apptTo = "requested" /\ x.jobTo = "same"
  BY <1>1, RowsAssumption
     DEF VehicleSession, Session, NoTxn, Txn, Ops, ApptStatus, JobStatus, WorkStatus
<1>3. Keeps(w, x, "commit") /\ appt[a] = "absent"
  BY DEF Book, Load, Keeps, Unused
<1> HIDE DEF x
<1>4. Good(x, "commit")
  BY <1>2, <1>3, Settled, GoodAbout
     DEF Agree, ApptAfter, JobAfter, To, LeavesHigher
<1> QED
  BY <1>3, <1>4, KeepsIInv

LEMMA RescheduleGood ==
    ASSUME IInv, NEW w \in Workers, NEW a \in Appts, NEW s \in Slots[a],
           RescheduleLoad(w, a, s)
    PROVE  IInv'
<1> DEFINE x == [VehicleSession("reschedule", a) EXCEPT !.slotTo = s]
<1>1. s \in Nat
  BY NumbersAssumption
<1>2. x \in Txn /\ x.appts = {a} /\ x.works = {} /\ x.reading = 0
      /\ x.apptTo = "same" /\ x.jobTo = "same"
  BY <1>1, RowsAssumption
     DEF VehicleSession, Session, NoTxn, Txn, Ops, ApptStatus, JobStatus, WorkStatus
<1>3. Keeps(w, x, "decide") /\ appt[a] \in {"requested", "confirmed"}
  BY DEF RescheduleLoad, Load, Keeps
<1> HIDE DEF x
<1>4. Good(x, "decide")
  BY <1>2, <1>3, Settled, GoodAbout
     DEF Agree, ApptAfter, JobAfter, To, LeavesHigher
<1> QED
  BY <1>3, <1>4, KeepsIInv

LEMMA ConfirmGood ==
    ASSUME IInv, NEW w \in Workers, NEW a \in Appts, Confirm(w, a)
    PROVE  IInv'
<1> DEFINE x == [Session("status", a) EXCEPT !.apptTo = "confirmed"]
<1>2. x \in Txn /\ x.appts = {a} /\ x.works = {} /\ x.vehicles = {}
      /\ x.apptTo = "confirmed" /\ x.jobTo = "same"
  BY DEF Session, NoTxn, Txn, Ops, ApptStatus, JobStatus, WorkStatus
<1>3. Keeps(w, x, "commit") /\ appt[a] = "requested"
  BY DEF Confirm, Load, Keeps
<1> HIDE DEF x
<1>4. Good(x, "commit")
  BY <1>2, <1>3, Settled, GoodAbout
     DEF Agree, ApptAfter, JobAfter, To, LeavesHigher
<1> QED
  BY <1>3, <1>4, KeepsIInv

LEMMA StartGood ==
    ASSUME IInv, NEW w \in Workers, NEW a \in Appts, StartJob(w, a)
    PROVE  IInv'
<1> DEFINE x == [Session("start", a) EXCEPT !.apptTo = "in_progress",
                                            !.jobTo = "in_progress"]
<1>2. x \in Txn /\ x.appts = {a} /\ x.works = {} /\ x.vehicles = {}
      /\ x.apptTo = "in_progress" /\ x.jobTo = "in_progress"
  BY DEF Session, NoTxn, Txn, Ops, ApptStatus, JobStatus, WorkStatus
<1>3. Keeps(w, x, "commit")
  BY DEF StartJob, Load, Keeps
<1> HIDE DEF x
<1>4. Good(x, "commit")
  BY <1>2, GoodAbout DEF Agree, ApptAfter, JobAfter, To, LeavesHigher
<1> QED
  BY <1>3, <1>4, KeepsIInv

LEMMA CancelGood ==
    ASSUME IInv, NEW w \in Workers, NEW a \in Appts, NEW allowed,
           "completed" \notin allowed, Cancel(w, a, allowed)
    PROVE  IInv'
<1> DEFINE to == IF job[a] \in {"none", "completed", "cancelled"} THEN "same" ELSE "cancelled"
           x == [Session("status", a) EXCEPT !.apptTo = "cancelled", !.jobTo = to]
<1>1. to \in {"same", "cancelled"}
  OBVIOUS
<1>2. x \in Txn /\ x.appts = {a} /\ x.works = {} /\ x.vehicles = {}
      /\ x.apptTo = "cancelled" /\ x.jobTo = to
  BY <1>1 DEF Session, NoTxn, Txn, Ops, ApptStatus, JobStatus, WorkStatus
<1>3. Keeps(w, x, "commit") /\ appt[a] # "completed"
  BY DEF Cancel, Load, Keeps
<1> HIDE DEF x
<1>4. (a \notin raced) => (To(to, job[a]) \in {"none", "cancelled"})
  BY <1>3, Settled DEF Agree, To, ApptStatus, JobStatus
<1>5. LeavesHigher(x)
  BY <1>2 DEF LeavesHigher
<1> HIDE DEF to
<1>6. Good(x, "commit")
  BY <1>2, <1>4, <1>5, GoodAbout DEF Agree, ApptAfter, JobAfter, To
<1> QED
  BY <1>3, <1>6, KeepsIInv

LEMMA CompleteLoadGood ==
    ASSUME IInv, NEW w \in Workers, NEW a \in Appts, NEW m \in Nat, CompleteLoad(w, a, m)
    PROVE  IInv'
<1> DEFINE to == IF job[a] = "none" THEN "same" ELSE "completed"
           v == VehicleOf[a]
           r == Raise(v, m)
           x == [VehicleSession("complete", a) EXCEPT
                   !.apptTo = "completed", !.jobTo = to, !.reading = r]
<1>1. v \in Vehicles /\ r \in Nat /\ ((r # 0) => (r >= odometer[v]))
  <2>1. v \in Vehicles
    BY RowsAssumption
  <2> QED
    BY <2>1, RaiseTyped
<1>2. to \in {"same", "completed"}
  OBVIOUS
<1>3. Keeps(w, x, "decide") /\ appt[a] \in {"in_progress", "awaiting_approval"}
  BY DEF CompleteLoad, Load, Keeps
<1> HIDE DEF r
<1>4. x \in Txn /\ x.appts = {a} /\ x.works = {} /\ x.vehicles = {v} /\ x.reading = r
      /\ x.apptTo = "completed" /\ x.jobTo = to
  BY <1>1, <1>2
     DEF VehicleSession, Session, NoTxn, Txn, Ops, ApptStatus, JobStatus, WorkStatus
<1> HIDE DEF x
<1>5. (a \notin raced) => (to = "completed")
  BY <1>3, Settled DEF Agree
<1>6. LeavesHigher(x)
  BY <1>1, <1>4 DEF LeavesHigher
<1> HIDE DEF to
<1>7. Good(x, "decide")
  BY <1>4, <1>5, <1>6, GoodAbout DEF Agree, ApptAfter, JobAfter, To
<1> QED
  BY <1>3, <1>7, KeepsIInv

LEMMA RecordGood ==
    ASSUME IInv, NEW w \in Workers, NEW v \in Vehicles, NEW m \in Nat, Record(w, v, m)
    PROVE  IInv'
<1> DEFINE r == Raise(v, m)
           x == [NoTxn EXCEPT !.op = "record", !.vehicles = {v}, !.reading = r]
<1>1. r \in Nat /\ ((r # 0) => (r >= odometer[v]))
  BY RaiseTyped
<1>2. Keeps(w, x, "commit")
  BY DEF Record, Load, Keeps
<1> HIDE DEF r
<1>3. x \in Txn /\ x.appts = {} /\ x.works = {} /\ x.vehicles = {v} /\ x.reading = r
  BY <1>1 DEF NoTxn, Txn, Ops, ApptStatus, JobStatus, WorkStatus
<1> HIDE DEF x
<1>4. Good(x, "commit")
  BY <1>1, <1>3
     DEF Good, OwnWork, LeavesAgreeing, LeavesRunning, LeavesOwed, LeavesHigher
<1> QED
  BY <1>2, <1>4, KeepsIInv

LEMMA AddWorkGood ==
    ASSUME IInv, NEW w \in Workers, NEW k \in Works, AddWork(w, k)
    PROVE  IInv'
<1> DEFINE a == ApptOf[k]
           jto == IF job[a] = "in_progress" THEN "awaiting_approval" ELSE "same"
           ato == IF appt[a] = "in_progress" THEN "awaiting_approval" ELSE "same"
           x == [Session("add", a) EXCEPT !.works = {k}, !.workTo = "pending_approval",
                                          !.jobTo = jto, !.apptTo = ato]
<1>1. a \in Appts /\ k \in WorksOf(a)
  BY RowsAssumption DEF WorksOf
<1>2. Keeps(w, x, "commit") /\ job[a] \in {"in_progress", "awaiting_approval"}
  BY DEF AddWork, Load, Keeps
<1>3. jto \in {"same", "awaiting_approval"} /\ ato \in {"same", "awaiting_approval"}
  OBVIOUS
<1>4. x \in Txn /\ x.appts = {a} /\ x.works = {k} /\ x.vehicles = {} /\ x.reading = 0
      /\ x.apptTo = ato /\ x.jobTo = jto /\ x.workTo = "pending_approval"
  <2> HIDE DEF a, jto, ato
  <2> QED
    BY <1>1, <1>3 DEF Session, NoTxn, Txn, Ops, ApptStatus, JobStatus, WorkStatus
<1> HIDE DEF x, a
<1>5. (a \notin raced) => Agree(To(ato, appt[a]), To(jto, job[a]))
  BY <1>1, <1>2, Settled DEF Agree, To, ApptStatus
<1>6. WorkAfter(x, k) = "pending_approval"
  BY <1>4 DEF WorkAfter, To
<1>7. LeavesHigher(x)
  BY <1>4 DEF LeavesHigher
<1> HIDE DEF ato, jto
<1>8. Good(x, "commit")
  BY <1>1, <1>4, <1>5, <1>6, <1>7, GoodAbout DEF ApptAfter, JobAfter
<1> QED
  BY <1>2, <1>8, KeepsIInv

LEMMA AnswerLoadGood ==
    ASSUME IInv, NEW w \in Workers, NEW k \in Works, NEW to \in WorkStatus,
           NEW op \in {"respond", "update"}, AnswerLoad(w, k, to, op)
    PROVE  IInv'
<1> DEFINE a == ApptOf[k]
           waits == job[a] = "awaiting_approval"
           jto == IF waits THEN "in_progress" ELSE "same"
           ato == IF waits /\ appt[a] = "awaiting_approval" THEN "in_progress" ELSE "same"
           x == [Session(op, a) EXCEPT !.works = {k}, !.workTo = to,
                                       !.jobTo = jto, !.apptTo = ato]
<1>1. a \in Appts /\ k \in WorksOf(a)
  BY RowsAssumption DEF WorksOf
<1>2. Keeps(w, x, "decide")
  BY DEF AnswerLoad, Load, Keeps
<1>3. jto \in {"same", "in_progress"} /\ ato \in {"same", "in_progress"}
  OBVIOUS
<1>4. x \in Txn /\ x.appts = {a} /\ x.works = {k} /\ x.vehicles = {} /\ x.reading = 0
      /\ x.apptTo = ato /\ x.jobTo = jto
  <2> HIDE DEF a, jto, ato
  <2> QED
    BY <1>1, <1>3 DEF Session, NoTxn, Txn, Ops, ApptStatus, JobStatus, WorkStatus
<1> HIDE DEF x, a
<1>5. (a \notin raced) => Agree(To(ato, appt[a]), To(jto, job[a]))
  BY <1>1, Settled DEF Agree, To, ApptStatus
<1>6. To(jto, job[a]) # "awaiting_approval"
  BY DEF To
<1>7. LeavesHigher(x)
  BY <1>4 DEF LeavesHigher
<1> HIDE DEF ato, jto
<1>8. Good(x, "decide")
  BY <1>1, <1>4, <1>5, <1>6, <1>7, GoodAbout DEF ApptAfter, JobAfter
<1> QED
  BY <1>2, <1>8, KeepsIInv

--------------------------------------------------------------------------------
(* The second reads, the commit and what ends a handler early *)

(* A session that is dropped. *)
LEMMA DropGood ==
    ASSUME IInv, NEW w \in Workers, Rollback(w), UNCHANGED <<tables, raced, moved, struck>>
    PROVE  IInv'
  BY NoTxnGood, KeepsIInv DEF Rollback, Keeps

LEMMA RescheduleCheckGood ==
    ASSUME IInv, NEW w \in Workers, RescheduleCheck(w)
    PROVE  IInv'
<1>1. CASE Decide(w, txn[w])
  <2>1. Good(txn[w], "commit")
    BY DEF IInv, Good
  <2>2. Keeps(w, txn[w], "commit")
    BY <1>1 DEF Decide, Keeps
  <2> QED
    BY <2>1, <2>2, KeepsIInv
<1>2. CASE Rollback(w) /\ UNCHANGED <<tables, raced, moved, struck>>
  BY <1>2, DropGood
<1> QED
  BY <1>1, <1>2 DEF RescheduleCheck

LEMMA CompleteBillGood ==
    ASSUME IInv, NEW w \in Workers, CompleteBill(w)
    PROVE  IInv'
<1>1. Good(txn[w], "commit")
  BY DEF IInv, Good
<1>2. PICK a \in txn[w].appts :
        Decide(w, IF txn[w].jobTo = "same" \/ a \in invoiced THEN txn[w]
                  ELSE [txn[w] EXCEPT !.bill = TRUE, !.lines = Approved(a)])
  BY DEF CompleteBill
<1>3. CASE Decide(w, txn[w])
  <2>1. Keeps(w, txn[w], "commit")
    BY <1>3 DEF Decide, Keeps
  <2> QED
    BY <1>1, <2>1, KeepsIInv
<1>4. CASE Decide(w, [txn[w] EXCEPT !.bill = TRUE, !.lines = Approved(a)])
  <2> DEFINE y == txn[w]
             x == [y EXCEPT !.bill = TRUE, !.lines = Approved(a)]
  <2>1. Keeps(w, x, "commit")
    BY <1>4 DEF Decide, Keeps
  <2>2. Approved(a) \subseteq Works
    BY DEF Approved, WorksOf
  <2>3. y \in Txn
    BY <1>1 DEF Good
  <2> HIDE DEF y
  <2>4. x \in Txn /\ x.appts = y.appts /\ x.works = y.works /\ x.vehicles = y.vehicles
        /\ x.reading = y.reading /\ x.apptTo = y.apptTo /\ x.jobTo = y.jobTo
        /\ x.workTo = y.workTo
    BY <2>2, <2>3 DEF Txn
  <2> HIDE DEF x
  <2>5. Good(y, "commit")
    BY <1>1 DEF y
  <2>6. Good(x, "commit")
    BY <2>4, <2>5 DEF Good, OwnWork, LeavesAgreeing, LeavesOwed, LeavesHigher,
                      ApptAfter, JobAfter, WorkAfter
  <2> QED
    BY <2>1, <2>6, KeepsIInv
<1> QED
  BY <1>2, <1>3, <1>4

LEMMA AnswerGood ==
    ASSUME IInv, NEW w \in Workers, Answer(w)
    PROVE  IInv'
<1> DEFINE y == txn[w]
<1>1. Good(y, "decide")
  BY DEF Answer, IInv
<1>2. PICK k \in y.works :
        LET x == [y EXCEPT !.works = IF work[k] = y.workTo THEN {} ELSE {k}]
            pending == {j \in WorksOf(ApptOf[k]) : work[j] = "pending_approval"}
            left == pending \ {k} # {} \/ x.workTo = "pending_approval"
        IN IF y.op = "respond" /\ work[k] # "pending_approval"
           THEN Rollback(w) /\ UNCHANGED <<tables, raced, moved, struck>>
           ELSE Decide(w, IF left THEN [x EXCEPT !.jobTo = "same", !.apptTo = "same"]
                          ELSE x)
  BY DEF Answer
<1> DEFINE x == [y EXCEPT !.works = IF work[k] = y.workTo THEN {} ELSE {k}]
           waiting == [x EXCEPT !.jobTo = "same", !.apptTo = "same"]
           pending == {j \in WorksOf(ApptOf[k]) : work[j] = "pending_approval"}
           left == pending \ {k} # {} \/ y.workTo = "pending_approval"
<1> HIDE DEF y
<1>3. y \in Txn /\ k \in Works /\ ApptOf[k] \in y.appts /\ y.appts \subseteq Appts
  BY <1>1, <1>2 DEF Good, OwnWork, Txn
<1>4. x \in Txn /\ x.appts = y.appts /\ x.vehicles = y.vehicles /\ x.reading = y.reading
      /\ x.apptTo = y.apptTo /\ x.jobTo = y.jobTo /\ x.workTo = y.workTo
      /\ x.works = IF work[k] = y.workTo THEN {} ELSE {k}
  BY <1>3 DEF Txn
<1>5. waiting \in Txn /\ waiting.appts = y.appts /\ waiting.vehicles = y.vehicles
      /\ waiting.reading = y.reading /\ waiting.apptTo = "same" /\ waiting.jobTo = "same"
      /\ waiting.workTo = y.workTo /\ waiting.works = x.works
  <2> HIDE DEF x
  <2> QED
    BY <1>4 DEF Txn
<1>6. \/ Rollback(w) /\ UNCHANGED <<tables, raced, moved, struck>>
      \/ left /\ Decide(w, waiting)
      \/ ~left /\ Decide(w, x)
  <2>1. x.workTo = y.workTo
    BY <1>4
  <2> QED
    BY <1>2, <2>1
<1> HIDE DEF x, waiting
<1>7. CASE Rollback(w) /\ UNCHANGED <<tables, raced, moved, struck>>
  BY <1>7, DropGood
<1>8. CASE Decide(w, x)
  <2>1. Keeps(w, x, "commit")
    BY <1>8 DEF Decide, Keeps
  <2>2. Good(x, "commit")
    BY <1>1, <1>3, <1>4 DEF Good, OwnWork, LeavesAgreeing, LeavesOwed, LeavesRunning,
                            LeavesHigher, ApptAfter, JobAfter
  <2> QED
    BY <2>1, <2>2, KeepsIInv
<1>9. CASE left /\ Decide(w, waiting)
  <2>1. Keeps(w, waiting, "commit")
    BY <1>9 DEF Decide, Keeps
  <2>2. OwnWork(waiting) /\ LeavesHigher(waiting)
    BY <1>1, <1>3, <1>4, <1>5 DEF Good, OwnWork, LeavesHigher
  <2>3. LeavesAgreeing(waiting)
    BY <1>3, <1>5, Settled DEF LeavesAgreeing, ApptAfter, JobAfter, To
  <2>4. LeavesOwed(waiting)
    <3> SUFFICES ASSUME NEW a \in y.appts, a \notin raced,
                        job[a] = "awaiting_approval"
                 PROVE  \E j \in WorksOf(a) : WorkAfter(waiting, j) = "pending_approval"
      BY <1>5 DEF LeavesOwed, JobAfter, To
    <3>1. a = ApptOf[k]
      BY <1>1, <1>3 DEF Good, OwnWork
    <3>2. CASE pending \ {k} # {}
      <4>1. PICK j \in WorksOf(a) : j # k /\ work[j] = "pending_approval"
        BY <3>1, <3>2
      <4> QED
        BY <1>4, <1>5, <4>1 DEF WorkAfter
    <3>3. CASE y.workTo = "pending_approval"
      <4>1. k \in WorksOf(a)
        BY <1>3, <3>1 DEF WorksOf
      <4>2. WorkAfter(waiting, k) = "pending_approval"
        BY <1>4, <1>5, <3>3 DEF WorkAfter, To
      <4> QED
        BY <4>1, <4>2
    <3> QED
      BY <1>9, <3>2, <3>3
  <2> QED
    BY <1>5, <2>1, <2>2, <2>3, <2>4, KeepsIInv DEF Good
<1> QED
  BY <1>6, <1>7, <1>8, <1>9

--------------------------------------------------------------------------------
(* Every step *)

LEMMA StaffIInv ==
    ASSUME IInv, NEW w \in Workers, Staff(w)
    PROVE  IInv'
<1>n. /\ \A a \in Appts : Readings \cup {Booked[a]} \subseteq Nat
      /\ \A a \in Appts : Slots[a] \subseteq Nat
  BY NumbersAssumption
<1>1. ASSUME NEW a \in Appts, Confirm(w, a) PROVE IInv'
  BY <1>1, ConfirmGood
<1>2. ASSUME NEW a \in Appts, StartJob(w, a) PROVE IInv'
  BY <1>2, StartGood
<1>3. ASSUME NEW a \in Appts, CancelByStaff(w, a) PROVE IInv'
  BY <1>3, CancelGood DEF CancelByStaff
<1>4. ASSUME NEW a \in Appts, DeleteHistory(w, a) PROVE IInv'
  <2>1. \A n \in 0 .. 2 : n > 0 => n - 1 \in 0 .. 2
    OBVIOUS
  <2>2. TypeOK'
    BY <1>4, <2>1 DEF DeleteHistory, IInv, TypeOK
  <2> QED
    BY <1>4, <2>2, AsideIInv DEF DeleteHistory
<1>5. ASSUME NEW a \in Appts, NEW m \in Readings \cup {Booked[a]}, CompleteLoad(w, a, m)
      PROVE  IInv'
  BY <1>n, <1>5, CompleteLoadGood
<1>6. ASSUME NEW a \in Appts, NEW s \in Slots[a], Move(w, a, s) PROVE IInv'
  <2>1. TypeOK'
    BY <1>n, <1>6 DEF Move, IInv, TypeOK
  <2> QED
    BY <1>6, <2>1, AsideIInv DEF Move
<1>7. ASSUME NEW v \in Vehicles, NEW m \in Readings, Record(w, v, m) PROVE IInv'
  BY <1>7, RecordGood, NumbersAssumption
<1>8. ASSUME NEW k \in Works, AddWork(w, k) PROVE IInv'
  BY <1>8, AddWorkGood
<1>9. ASSUME NEW k \in Works, NEW to \in {"pending_approval", "approved", "rejected"},
             AnswerLoad(w, k, to, "update")
      PROVE  IInv'
  BY <1>9, AnswerLoadGood DEF WorkStatus
<1>10. ASSUME CompleteBill(w) PROVE IInv'
  BY <1>10, CompleteBillGood
<1> QED
  BY <1>1, <1>2, <1>3, <1>4, <1>5, <1>6, <1>7, <1>8, <1>9, <1>10 DEF Staff

LEMMA CustomerIInv ==
    ASSUME IInv, NEW w \in Workers, Customer(w)
    PROVE  IInv'
<1>1. ASSUME NEW a \in Appts, NEW s \in Slots[a], Book(w, a, s) PROVE IInv'
  BY <1>1, BookGood
<1>2. ASSUME NEW a \in Appts, NEW s \in Slots[a], RescheduleLoad(w, a, s) PROVE IInv'
  BY <1>2, RescheduleGood
<1>3. ASSUME NEW a \in Appts, CancelByCustomer(w, a) PROVE IInv'
  BY <1>3, CancelGood DEF CancelByCustomer
<1>4. ASSUME NEW k \in Works, NEW to \in {"approved", "rejected"},
             AnswerLoad(w, k, to, "respond")
      PROVE  IInv'
  BY <1>4, AnswerLoadGood DEF WorkStatus
<1>5. ASSUME RescheduleCheck(w) PROVE IInv'
  BY <1>5, RescheduleCheckGood
<1> QED
  BY <1>1, <1>2, <1>3, <1>4, <1>5 DEF Customer

LEMMA NextIInv ==
    ASSUME IInv, [Next]_vars
    PROVE  IInv'
<1>1. ASSUME NEW w \in Workers, Staff(w) PROVE IInv'
  BY <1>1, StaffIInv
<1>2. ASSUME NEW w \in Workers, Customer(w) PROVE IInv'
  BY <1>2, CustomerIInv
<1>3. ASSUME NEW w \in Workers, Answer(w) PROVE IInv'
  BY <1>3, AnswerGood
<1>4. ASSUME NEW w \in Workers, Commit(w) PROVE IInv'
  BY <1>4, CommitIInv
<1>5. ASSUME NEW w \in Workers, Abort(w) PROVE IInv'
  BY <1>5, DropGood DEF Abort
<1>6. CASE UNCHANGED vars
  <2>1. TypeOK'
    BY <1>6 DEF vars, IInv, TypeOK
  <2> QED
    BY <1>6, <2>1, AsideIInv DEF vars
<1> QED
  BY <1>1, <1>2, <1>3, <1>4, <1>5, <1>6 DEF Next

(* The strengthening is an invariant: what each session would leave stays  *)
(* consistent, for the rows nobody raced for.                              *)
THEOREM Inductive == Spec => []IInv
<1>1. IInv /\ [Next]_vars => IInv'
  BY NextIInv
<1> QED
  BY <1>1, InitIInv, PTL DEF Spec

--------------------------------------------------------------------------------
(* Theorems *)

(* Every table and session has its type in every reachable state: no      *)
(* handler's session holds anything the columns could not take.            *)
THEOREM TypeCorrect == Spec => []TypeOK
<1>1. IInv => TypeOK
  BY DEF IInv
<1> QED
  BY <1>1, Inductive, PTL

(* However many handlers are at work, an appointment and its job stand at  *)
(* the same point of the service, unless two of them raced for it.         *)
THEOREM BoardAndJobAgree == Spec => []StatusesAgree
<1>1. IInv => StatusesAgree
  BY DEF IInv
<1> QED
  BY <1>1, Inductive, PTL

(* And a job waits for approval only while some of its work is pending.    *)
THEOREM NobodyWaitsForNothing == Spec => []WaitingIsOwed
<1>1. IInv => WaitingIsOwed
  BY DEF IInv
<1> QED
  BY <1>1, Inductive, PTL

(* The odometer of a vehicle nobody raced for is never turned back: the    *)
(* reading a handler decided to write is still no less than the one stored.*)
THEOREM OdometerOnlyRises == Spec => OdometerNeverBack
<1>1. ASSUME IInv, [Next]_vars, NEW v \in Vehicles \ raced
      PROVE  odometer'[v] >= odometer[v]
  <2>1. odometer[v] \in Nat
    BY <1>1 DEF IInv, TypeOK
  <2>2. CASE odometer' = odometer
    BY <2>1, <2>2
  <2>3. ASSUME NEW w \in Workers, Commit(w)
        PROVE  odometer'[v] >= odometer[v]
    <3>1. odometer'[v] = IF v \in txn[w].vehicles /\ txn[w].reading # 0
                         THEN txn[w].reading ELSE odometer[v]
      BY <1>1, <2>3, CommitLeaves
    <3>2. LeavesHigher(txn[w])
      BY <1>1 DEF IInv, Good
    <3> QED
      BY <2>1, <3>1, <3>2 DEF LeavesHigher
  <2>4. ASSUME NEW w \in Workers, Staff(w) \/ Customer(w) \/ Answer(w) \/ Abort(w)
        PROVE  odometer' = odometer
    BY <2>4 DEF Staff, Customer, Answer, Abort, Confirm, StartJob, CancelByStaff,
                CancelByCustomer, Cancel, DeleteHistory, CompleteLoad, Move, Record, AddWork,
                AnswerLoad, CompleteBill, Book, RescheduleLoad, RescheduleCheck, Load, Decide,
                tables
  <2> QED
    BY <1>1, <2>2, <2>3, <2>4 DEF Next, vars
<1>2. IInv /\ [Next]_vars => [\A v \in Vehicles \ raced : odometer'[v] >= odometer[v]]_vars
  BY <1>1
<1> QED
  BY <1>2, Inductive, PTL DEF OdometerNeverBack, Spec

--------------------------------------------------------------------------------
(* Bills, history and slots: a second invariant beside the first *)

Running == {"in_progress", "awaiting_approval", "completed"}
Active(a) == appt[a] \notin {"absent", "cancelled"}

(* A session that moves an appointment on leaves it with a job; and the    *)
(* one that completes it, once it has looked, with an invoice.             *)
LeavesJob(x) ==
    /\ x.jobTo # "none"
    /\ x.apptTo \in Running => x.jobTo # "same" \/ \A a \in x.appts : job[a] # "none"
LeavesInvoice(x, step) ==
    /\ x.apptTo = "completed" <=> x.op = "complete"
    /\ x.op = "complete" => x.jobTo # "same"
    /\ x.bill => x.op = "complete"
    /\ x.op = "complete" /\ step = "commit" => x.bill \/ x.appts \subseteq invoiced

(* Of the rows nobody raced for: a session changes the status of services  *)
(* that are not over, and bills what stands approved.                      *)
LeavesRecorded(x, step) ==
    \A a \in x.appts \ raced :
        /\ x.apptTo # "same" => appt[a] # "completed"
        /\ x.op = "complete" /\ step = "commit" => x.bill /\ x.lines = Approved(a)

(* A session that gives a time has the vehicle in memory, and once it has  *)
(* looked, nothing else is booked then; one that gives none revives        *)
(* nothing.                                                                *)
Rival(a, b) ==
    /\ VehicleOf[b] = VehicleOf[a] /\ VehicleOf[a] \notin raced
    /\ b \notin moved \cup raced /\ Active(b)
LeavesSlot(x, step) ==
    /\ x.slotTo # 0 => x.op \in {"book", "reschedule"}
    /\ \A a \in x.appts :
          /\ x.slotTo # 0 => VehicleOf[a] \in x.vehicles
          /\ a \notin raced /\ ~Active(a) /\ x.apptTo \notin {"same", "cancelled"} =>
                x.slotTo # 0
          /\ x.slotTo # 0 /\ step = "commit" =>
                \A b \in Appts \ {a} : Rival(a, b) => slot[b] # x.slotTo

Books(x, step) ==
    /\ LeavesJob(x) /\ LeavesInvoice(x, step)
    /\ LeavesRecorded(x, step) /\ LeavesSlot(x, step)

RunningHasJob == \A a \in Appts : appt[a] \in Running => job[a] # "none"
InvoicedIsOver == \A a \in invoiced \ raced : appt[a] = "completed"

BooksInv ==
    /\ RunningHasJob /\ InvoicedIsOver /\ ServiceRecorded /\ OneVehicleOneSlot
    /\ \A w \in Workers : Books(txn[w], pc[w])

LEMMA NoTxnBooks == ASSUME NEW step PROVE Books(NoTxn, step)
  BY DEF Books, LeavesJob, LeavesInvoice, LeavesRecorded, LeavesSlot, NoTxn, Running

LEMMA InitBooks == Init => BooksInv
<1> SUFFICES ASSUME Init PROVE BooksInv
  OBVIOUS
<1>1. RunningHasJob /\ InvoicedIsOver
  BY DEF Init, RunningHasJob, InvoicedIsOver, Running
<1>2. ServiceRecorded /\ OneVehicleOneSlot
  BY DEF Init, ServiceRecorded, OneVehicleOneSlot
<1>3. ASSUME NEW w \in Workers PROVE Books(txn[w], pc[w])
  <2>1. txn[w] = NoTxn
    BY DEF Init
  <2> QED
    BY <2>1, NoTxnBooks
<1> QED
  BY <1>1, <1>2, <1>3 DEF BooksInv

(* Nothing but w's session changes: the tables say what they said.         *)
LEMMA KeepsBooks ==
    ASSUME IInv, BooksInv, NEW w \in Workers, NEW x, NEW step,
           Keeps(w, x, step), Books(x, step)
    PROVE  BooksInv'
<1>1. /\ UNCHANGED <<appt, slot, job, work, invoiced, invoice, history, raced, moved, struck>>
      /\ txn'[w] = x /\ pc'[w] = step
      /\ \A u \in Workers \ {w} : txn'[u] = txn[u] /\ pc'[u] = pc[u]
  BY DEF Keeps, tables, IInv, TypeOK
<1>2. RunningHasJob' /\ InvoicedIsOver' /\ ServiceRecorded' /\ OneVehicleOneSlot'
  BY <1>1 DEF BooksInv, RunningHasJob, InvoicedIsOver, ServiceRecorded, OneVehicleOneSlot
<1>3. ASSUME NEW u \in Workers PROVE Books(txn[u], pc[u])'
  <2>1. Books(txn'[u], pc'[u])
    BY <1>1 DEF BooksInv
  <2> QED
    BY <1>1, <2>1 DEF Books, LeavesJob, LeavesInvoice, LeavesRecorded, LeavesSlot,
                      Active, Rival, Approved, WorksOf
<1> QED
  BY <1>2, <1>3 DEF BooksInv

(* Staff deleting a history item, and moving an appointment. *)
LEMMA AsideBooks ==
    ASSUME IInv, BooksInv, NEW w \in Workers, NEW a \in Appts,
           \/ DeleteHistory(w, a)
           \/ \E s \in Slots[a] : Move(w, a, s)
    PROVE  BooksInv'
<1>1. /\ UNCHANGED <<appt, job, work, invoiced, raced, pc, txn>>
      /\ moved \subseteq moved' /\ struck \subseteq struck'
      /\ \A b \in Appts : (b \notin moved') => (slot'[b] = slot[b])
      /\ \A b \in Appts : (b \notin struck') => (history'[b] = history[b])
  <2>1. CASE DeleteHistory(w, a)
    BY <2>1 DEF DeleteHistory, IInv, TypeOK
  <2>2. CASE \E s \in Slots[a] : Move(w, a, s)
    BY <2>2 DEF Move, IInv, TypeOK
  <2> QED
    BY <2>1, <2>2
<1>2. RunningHasJob' /\ InvoicedIsOver' /\ OneVehicleOneSlot'
  BY <1>1 DEF BooksInv, RunningHasJob, InvoicedIsOver, OneVehicleOneSlot
<1>3. ServiceRecorded'
  BY <1>1 DEF BooksInv, ServiceRecorded
<1>4. ASSUME NEW u \in Workers PROVE Books(txn[u], pc[u])'
  <2>1. Books(txn[u], pc[u]) /\ txn'[u] = txn[u] /\ pc'[u] = pc[u]
    BY <1>1 DEF BooksInv
  <2>2. LeavesSlot(txn[u], pc[u])'
    BY <1>1, <2>1 DEF Books, LeavesSlot, Rival, Active
  <2> QED
    BY <1>1, <2>1, <2>2 DEF Books, LeavesJob, LeavesInvoice, LeavesRecorded,
                            Approved, WorksOf
<1> QED
  BY <1>2, <1>3, <1>4 DEF BooksInv


(* What a commit does to the bills, the history and the times. *)
LEMMA CommitBooksLeaves ==
    ASSUME IInv, NEW w \in Workers, Commit(w)
    PROVE  LET x == txn[w]
           IN /\ \A a \in Appts : slot'[a] = IF a \in x.appts /\ x.slotTo # 0
                                             THEN x.slotTo ELSE slot[a]
              /\ invoiced' = IF x.bill THEN invoiced \cup x.appts ELSE invoiced
              /\ \A a \in Appts : invoice'[a] = IF a \in x.appts /\ x.bill
                                                THEN x.lines ELSE invoice[a]
              /\ \A a \in Appts : history'[a] = IF a \in Records(x) /\ history[a] < 2
                                                THEN history[a] + 1 ELSE history[a]
              /\ moved' = IF x.slotTo # 0 THEN moved \ x.appts ELSE moved
              /\ struck' = struck
  BY DEF Commit, IInv, TypeOK

(* A commit keeps its own promises, and those of every other session about *)
(* the rows the two did not share.                                         *)
LEMMA CommitBooksIInv ==
    ASSUME IInv, BooksInv, NEW w \in Workers, Commit(w)
    PROVE  BooksInv'
<1> DEFINE x == txn[w]
<1>1. x \in Txn /\ OwnWork(x) /\ Books(x, "commit")
  BY DEF IInv, Good, BooksInv, Commit
<1>2. /\ \A a \in Appts : IF a \in x.appts
                         THEN appt'[a] = ApptAfter(x, a) /\ job'[a] = JobAfter(x, a)
                         ELSE appt'[a] = appt[a] /\ job'[a] = job[a]
      /\ \A k \in Works : work'[k] = WorkAfter(x, k)
      /\ raced \subseteq raced'
      /\ \A u \in Workers \ {w} : Rows(x) \cap Rows(txn[u]) \subseteq raced'
      /\ txn'[w] = NoTxn /\ \A u \in Workers \ {w} : txn'[u] = txn[u] /\ pc'[u] = pc[u]
  BY CommitLeaves
<1>3. /\ \A a \in Appts : slot'[a] = IF a \in x.appts /\ x.slotTo # 0
                                     THEN x.slotTo ELSE slot[a]
      /\ invoiced' = IF x.bill THEN invoiced \cup x.appts ELSE invoiced
      /\ \A a \in Appts : history'[a] = IF a \in Records(x) /\ history[a] < 2
                                        THEN history[a] + 1 ELSE history[a]
      /\ moved' = IF x.slotTo # 0 THEN moved \ x.appts ELSE moved
      /\ struck' = struck
  BY CommitBooksLeaves
<1> HIDE DEF x
<1>4. \A a \in Appts : job[a] \in JobStatus /\ history[a] \in 0 .. 2 /\ slot[a] \in Nat
  BY DEF IInv, TypeOK
<1>5. x.appts \subseteq Appts /\ x.vehicles \subseteq Vehicles /\ x.slotTo \in Nat
  BY <1>1 DEF Txn
<1>6. RunningHasJob'
  <2>1. \A a \in x.appts : appt'[a] \in Running => job'[a] # "none"
    BY <1>1, <1>2, <1>5
       DEF Books, LeavesJob, BooksInv, RunningHasJob, ApptAfter, JobAfter, To
  <2> QED
    BY <1>2, <2>1 DEF BooksInv, RunningHasJob
<1>7. InvoicedIsOver'
  <2> SUFFICES ASSUME NEW a \in invoiced', a \notin raced' PROVE appt'[a] = "completed"
    BY DEF InvoicedIsOver
  <2>1. a \in Appts /\ a \notin raced
    BY <1>2, <1>3, <1>5 DEF IInv, TypeOK
  <2>2. CASE a \in x.appts /\ x.bill
    BY <1>1, <1>2, <2>1, <2>2 DEF Books, LeavesInvoice, ApptAfter, To
  <2>3. CASE a \in invoiced
    <3>1. appt[a] = "completed"
      BY <2>1, <2>3 DEF BooksInv, InvoicedIsOver
    <3>2. (a \in x.appts) => (x.apptTo = "same")
      BY <1>1, <2>1, <3>1 DEF Books, LeavesRecorded
    <3> QED
      BY <1>2, <2>1, <3>1, <3>2 DEF ApptAfter, To
  <2> QED
    BY <1>3, <2>2, <2>3
<1>8. ServiceRecorded'
  <2> SUFFICES ASSUME NEW a \in Appts
               PROVE  /\ (appt'[a] = "completed") => (a \in invoiced')
                      /\ (appt'[a] = "completed" /\ a \notin struck') => (history'[a] >= 1)
                      /\ (a \notin raced' \cup struck') =>
                            (history'[a] = IF appt'[a] = "completed" THEN 1 ELSE 0)
    BY DEF ServiceRecorded
  <2>0. /\ (appt[a] = "completed") => (a \in invoiced)
        /\ (appt[a] = "completed" /\ a \notin struck) => (history[a] >= 1)
        /\ (a \notin raced \cup struck) =>
              (history[a] = IF appt[a] = "completed" THEN 1 ELSE 0)
    BY DEF BooksInv, ServiceRecorded
  <2>1. CASE a \notin x.appts
    <3>1. history'[a] = history[a] /\ appt'[a] = appt[a]
      BY <1>2, <1>3, <2>1 DEF Records
    <3>2. (a \in invoiced) => (a \in invoiced')
      BY <1>3
    <3> QED
      BY <1>2, <1>3, <2>0, <3>1, <3>2
  <2>2. CASE a \in x.appts /\ x.op = "complete"
    <3>1. appt'[a] = "completed" /\ a \in invoiced'
      BY <1>1, <1>2, <1>3, <2>2 DEF Books, LeavesInvoice, ApptAfter, To
    <3>2. history'[a] = IF history[a] < 2 THEN history[a] + 1 ELSE history[a]
      BY <1>3, <2>2 DEF Records
    <3>3. (a \notin raced) => (appt[a] # "completed")
      BY <1>1, <2>2 DEF Books, LeavesInvoice, LeavesRecorded
    <3> QED
      BY <1>2, <1>3, <1>4, <2>0, <3>1, <3>2, <3>3
  <2>3. CASE a \in x.appts /\ x.op # "complete"
    <3>1. history'[a] = history[a] /\ x.apptTo # "completed" /\ invoiced' = invoiced
      BY <1>1, <1>3, <2>3 DEF Records, Books, LeavesInvoice
    <3>2. (appt'[a] = "completed") => (appt[a] = "completed")
      BY <1>2, <2>3, <3>1 DEF ApptAfter, To
    <3>3. (a \notin raced /\ appt[a] = "completed") => (appt'[a] = "completed")
      BY <1>1, <1>2, <2>3 DEF Books, LeavesRecorded, ApptAfter, To
    <3> QED
      BY <1>2, <1>3, <2>0, <3>1, <3>2, <3>3
  <2> QED
    BY <2>1, <2>2, <2>3
<1>9. OneVehicleOneSlot'
  <2>1. ASSUME NEW a \in Appts, NEW b \in Appts, a # b, VehicleOf[a] = VehicleOf[b],
               VehicleOf[a] \notin raced', Active(a)', Active(b)',
               a \notin moved' \cup raced', b \notin moved' \cup raced', b \notin x.appts
        PROVE  slot'[a] # slot'[b]
    <3>1. /\ VehicleOf[a] \notin raced /\ a \notin raced /\ b \notin moved \cup raced
          /\ Active(b) /\ slot'[b] = slot[b]
      BY <1>2, <1>3, <2>1 DEF Active
    <3>2. CASE a \in x.appts /\ x.slotTo # 0
      <4>1. slot[b] # x.slotTo
        BY <1>1, <2>1, <3>1, <3>2 DEF Books, LeavesSlot, Rival
      <4> QED
        BY <1>3, <3>1, <3>2, <4>1
    <3>3. CASE ~(a \in x.appts /\ x.slotTo # 0)
      <4>1. slot'[a] = slot[a] /\ a \notin moved
        BY <1>1, <1>3, <2>1, <3>3
      <4>2. Active(a)
        BY <1>1, <1>2, <2>1, <3>1, <3>3 DEF Books, LeavesSlot, Active, ApptAfter, To
      <4> QED
        BY <2>1, <3>1, <4>1, <4>2 DEF BooksInv, OneVehicleOneSlot, Active
    <3> QED
      BY <3>2, <3>3
  <2> SUFFICES ASSUME NEW a \in Appts, NEW b \in Appts,
                      a \notin moved' \cup raced', b \notin moved' \cup raced',
                      a # b, VehicleOf[a] = VehicleOf[b], VehicleOf[a] \notin raced',
                      Active(a)', Active(b)'
               PROVE  slot'[a] # slot'[b]
    BY DEF OneVehicleOneSlot, Active
  <2>2. a \notin x.appts \/ b \notin x.appts
    BY <1>1 DEF OwnWork
  <2> QED
    BY <2>1, <2>2
<1>10. ASSUME NEW u \in Workers PROVE Books(txn[u], pc[u])'
  <2>1. CASE u = w
    <3>1. txn'[u] = NoTxn
      BY <1>2, <2>1
    <3> QED
      BY <3>1 DEF Books, LeavesJob, LeavesInvoice, LeavesRecorded, LeavesSlot, NoTxn, Running
  <2>2. CASE u # w
    <3> DEFINE y == txn[u]
    <3>1. y \in Txn /\ Books(y, pc[u]) /\ txn'[u] = y /\ pc'[u] = pc[u]
      BY <1>2, <2>2 DEF IInv, Good, BooksInv
    <3>2. /\ \A a \in y.appts \ raced' :
                /\ a \in Appts /\ a \notin raced /\ a \notin x.appts
                /\ appt'[a] = appt[a] /\ \A k \in WorksOf(a) : work'[k] = work[k]
          /\ \A v \in y.vehicles \ raced' : v \notin raced /\ v \notin x.vehicles
      BY <1>1, <1>2, <2>2, <3>1 DEF Rows, Txn, OwnWork, WorksOf, WorkAfter
    <3>3. y.appts \subseteq Appts
      BY <3>1 DEF Txn
    <3> HIDE DEF y
    <3>4. LeavesJob(txn[u])'
      <4>1. \A a \in Appts : (job[a] # "none") => (job'[a] # "none")
        BY <1>1, <1>2 DEF Books, LeavesJob, JobAfter, To
      <4> QED
        BY <3>1, <3>3, <4>1 DEF Books, LeavesJob
    <3>5. LeavesInvoice(txn[u], pc[u])'
      <4>1. invoiced \subseteq invoiced'
        BY <1>3
      <4> QED
        BY <3>1, <4>1 DEF Books, LeavesInvoice
    <3>6. LeavesRecorded(txn[u], pc[u])'
      <4>1. \A a \in y.appts \ raced' : Approved(a)' = Approved(a)
        BY <3>2 DEF Approved, WorksOf
      <4> QED
        BY <3>1, <3>2, <4>1 DEF Books, LeavesRecorded
    <3>7. LeavesSlot(txn[u], pc[u])'
      <4>1. ASSUME NEW a \in y.appts, NEW b \in Appts \ {a}, y.slotTo # 0, Rival(a, b)'
            PROVE  Rival(a, b) /\ slot'[b] = slot[b]
        <5>1. VehicleOf[a] \in y.vehicles
          BY <3>1, <4>1 DEF Books, LeavesSlot
        <5>2. VehicleOf[b] = VehicleOf[a] /\ VehicleOf[a] \notin raced'
              /\ b \notin raced' /\ b \notin moved' /\ Active(b)'
          BY <4>1 DEF Rival
        <5>3. VehicleOf[b] \notin x.vehicles
          BY <3>2, <5>1, <5>2
        <5>4. (b \in x.appts) => (x.slotTo = 0)
          BY <1>1, <5>3 DEF Books, LeavesSlot
        <5>5. slot'[b] = slot[b] /\ b \notin moved /\ b \notin raced
              /\ VehicleOf[a] \notin raced
          BY <1>2, <1>3, <5>2, <5>4
        <5>6. Active(b)
          BY <1>1, <1>2, <5>2, <5>4, <5>5
             DEF Books, LeavesSlot, Active, ApptAfter, To
        <5> QED
          BY <5>2, <5>5, <5>6 DEF Rival
      <4>2. \A a \in y.appts : (a \notin raced') => (Active(a)' = Active(a) /\ a \notin raced)
        BY <3>2 DEF Active
      <4> QED
        BY <3>1, <4>1, <4>2 DEF Books, LeavesSlot
    <3> QED
      BY <3>4, <3>5, <3>6, <3>7 DEF Books
  <2> QED
    BY <2>1, <2>2
<1> QED
  BY <1>6, <1>7, <1>8, <1>9, <1>10 DEF BooksInv


(* Handlers that neither complete a service nor give a time.               *)
LEMMA PlainBooks ==
    ASSUME NEW x, NEW a \in Appts, NEW step, x.appts = {a}, x.slotTo = 0, ~x.bill,
           x.op # "complete", x.apptTo # "completed", x.jobTo # "none",
           (x.apptTo \in Running) => (x.jobTo # "same" \/ job[a] # "none"),
           (a \notin raced /\ x.apptTo # "same") => (appt[a] # "completed"),
           (a \notin raced /\ x.apptTo \notin {"same", "cancelled"}) => Active(a)
    PROVE  Books(x, step)
  BY DEF Books, LeavesJob, LeavesInvoice, LeavesRecorded, LeavesSlot

LEMMA FreeSlotRivals ==
    ASSUME NEW a \in Appts, NEW s, SlotFree(VehicleOf[a], s, a)
    PROVE  \A b \in Appts \ {a} : Rival(a, b) => slot[b] # s
  BY DEF SlotFree, Rival, Active

(* A reschedule that goes on has found the time free. *)
LEMMA RescheduleCheckBooks ==
    ASSUME IInv, BooksInv, NEW w \in Workers, RescheduleCheck(w)
    PROVE  BooksInv'
<1>1. PICK a \in txn[w].appts :
          \/ SlotFree(VehicleOf[a], txn[w].slotTo, a) /\ Decide(w, txn[w])
          \/ Rollback(w) /\ UNCHANGED <<tables, raced, moved, struck>>
  BY DEF RescheduleCheck
<1>2. /\ Books(txn[w], "decide") /\ OwnWork(txn[w]) /\ txn[w].appts \subseteq Appts
      /\ txn[w].op = "reschedule"
  BY DEF RescheduleCheck, IInv, Good, BooksInv, Txn
<1>3. CASE SlotFree(VehicleOf[a], txn[w].slotTo, a) /\ Decide(w, txn[w])
  <2>1. \A b \in Appts \ {a} : Rival(a, b) => slot[b] # txn[w].slotTo
    BY <1>2, <1>3, FreeSlotRivals
  <2>2. Books(txn[w], "commit")
    BY <1>2, <2>1
       DEF OwnWork, Books, LeavesJob, LeavesInvoice, LeavesRecorded, LeavesSlot
  <2>3. Keeps(w, txn[w], "commit")
    BY <1>3 DEF Decide, Keeps
  <2> QED
    BY <2>2, <2>3, KeepsBooks
<1>4. CASE Rollback(w) /\ UNCHANGED <<tables, raced, moved, struck>>
  BY <1>4, NoTxnBooks, KeepsBooks DEF Rollback, Keeps
<1> QED
  BY <1>1, <1>3, <1>4

(* A service nobody raced for has no invoice when it is completed, so the  *)
(* handler makes one, of what stands approved as it looks.                 *)
LEMMA CompleteBillBooks ==
    ASSUME IInv, BooksInv, NEW w \in Workers, CompleteBill(w)
    PROVE  BooksInv'
<1> DEFINE y == txn[w]
<1>1. /\ Books(y, "decide") /\ y \in Txn /\ OwnWork(y) /\ y.appts \subseteq Appts
      /\ y.op = "complete"
  BY DEF CompleteBill, IInv, Good, BooksInv, Txn
<1>2. PICK a \in y.appts :
        Decide(w, IF y.jobTo = "same" \/ a \in invoiced THEN y
                  ELSE [y EXCEPT !.bill = TRUE, !.lines = Approved(a)])
  BY DEF CompleteBill
<1> DEFINE x == [y EXCEPT !.bill = TRUE, !.lines = Approved(a)]
<1> HIDE DEF y
<1>3. y.jobTo # "same" /\ y.slotTo = 0 /\ y.appts = {a} /\ a \in Appts
      /\ y.apptTo = "completed"
  BY <1>1 DEF Books, LeavesInvoice, LeavesSlot, OwnWork
<1>4. CASE a \in invoiced /\ Decide(w, y)
  <2>1. a \in raced
    BY <1>1, <1>3, <1>4 DEF Books, LeavesRecorded, BooksInv, InvoicedIsOver
  <2>2. Books(y, "commit")
    BY <1>1, <1>3, <1>4, <2>1
       DEF Books, LeavesJob, LeavesInvoice, LeavesRecorded, LeavesSlot
  <2>3. Keeps(w, y, "commit")
    BY <1>4 DEF Decide, Keeps
  <2> QED
    BY <2>2, <2>3, KeepsBooks
<1>5. CASE Decide(w, x)
  <2>1. /\ x.appts = y.appts /\ x.vehicles = y.vehicles /\ x.slotTo = y.slotTo
        /\ x.op = y.op /\ x.apptTo = y.apptTo /\ x.jobTo = y.jobTo
        /\ x.bill /\ x.lines = Approved(a)
    BY <1>1 DEF Txn
  <2> HIDE DEF x
  <2>2. Books(x, "commit")
    BY <1>1, <1>3, <2>1 DEF Books, LeavesJob, LeavesInvoice, LeavesRecorded, LeavesSlot
  <2>3. Keeps(w, x, "commit")
    BY <1>5 DEF Decide, Keeps
  <2> QED
    BY <2>2, <2>3, KeepsBooks
<1> QED
  BY <1>2, <1>3, <1>4, <1>5

LEMMA AnswerBooks ==
    ASSUME IInv, BooksInv, NEW w \in Workers, Answer(w)
    PROVE  BooksInv'
<1> DEFINE y == txn[w]
<1>1. Books(y, "decide") /\ y \in Txn /\ y.op \in {"respond", "update"}
  BY DEF Answer, IInv, Good, BooksInv
<1>2. PICK k \in y.works :
        LET x == [y EXCEPT !.works = IF work[k] = y.workTo THEN {} ELSE {k}]
            pending == {j \in WorksOf(ApptOf[k]) : work[j] = "pending_approval"}
            left == pending \ {k} # {} \/ x.workTo = "pending_approval"
        IN IF y.op = "respond" /\ work[k] # "pending_approval"
           THEN Rollback(w) /\ UNCHANGED <<tables, raced, moved, struck>>
           ELSE Decide(w, IF left THEN [x EXCEPT !.jobTo = "same", !.apptTo = "same"]
                          ELSE x)
  BY DEF Answer
<1> DEFINE x == [y EXCEPT !.works = IF work[k] = y.workTo THEN {} ELSE {k}]
           waiting == [x EXCEPT !.jobTo = "same", !.apptTo = "same"]
<1> HIDE DEF y
<1>3. \/ Rollback(w) /\ UNCHANGED <<tables, raced, moved, struck>>
      \/ Decide(w, waiting) \/ Decide(w, x)
  BY <1>2
<1>4. x.appts = y.appts /\ x.slotTo = y.slotTo /\ x.bill = y.bill
      /\ x.op = y.op /\ x.apptTo = y.apptTo /\ x.jobTo = y.jobTo /\ x.vehicles = y.vehicles
  BY <1>1 DEF Txn
<1>5. waiting.appts = y.appts /\ waiting.slotTo = y.slotTo /\ waiting.bill = y.bill
      /\ waiting.op = y.op /\ waiting.apptTo = "same" /\ waiting.jobTo = "same"
      /\ waiting.vehicles = y.vehicles
  BY <1>1 DEF Txn
<1> HIDE DEF x, waiting
<1>6. Books(x, "commit")
  BY <1>1, <1>4 DEF Books, LeavesJob, LeavesInvoice, LeavesRecorded, LeavesSlot
<1>7. Books(waiting, "commit")
  BY <1>1, <1>5 DEF Books, LeavesJob, LeavesInvoice, LeavesRecorded, LeavesSlot, Running
<1>8. CASE Rollback(w) /\ UNCHANGED <<tables, raced, moved, struck>>
  BY <1>8, NoTxnBooks, KeepsBooks DEF Rollback, Keeps
<1>9. CASE Decide(w, x)
  <2>1. Keeps(w, x, "commit")
    BY <1>9 DEF Decide, Keeps
  <2> QED
    BY <1>6, <2>1, KeepsBooks
<1>10. CASE Decide(w, waiting)
  <2>1. Keeps(w, waiting, "commit")
    BY <1>10 DEF Decide, Keeps
  <2> QED
    BY <1>7, <2>1, KeepsBooks
<1> QED
  BY <1>3, <1>8, <1>9, <1>10


(* The first statement of each handler. *)
LEMMA BookBooks ==
    ASSUME IInv, BooksInv, NEW w \in Workers, NEW a \in Appts, NEW s \in Slots[a], Book(w, a, s)
    PROVE  BooksInv'
<1> DEFINE x == [VehicleSession("book", a) EXCEPT !.apptTo = "requested", !.slotTo = s]
<1>1. s # 0
  BY NumbersAssumption
<1>2. /\ x.appts = {a} /\ x.vehicles = {VehicleOf[a]} /\ x.slotTo = s /\ ~x.bill
      /\ x.op = "book" /\ x.apptTo = "requested" /\ x.jobTo = "same"
  BY DEF VehicleSession, Session, NoTxn
<1>3. Keeps(w, x, "commit") /\ appt[a] = "absent" /\ SlotFree(VehicleOf[a], s, a)
  BY DEF Book, Load, Keeps, Unused
<1> HIDE DEF x
<1>4. \A b \in Appts \ {a} : Rival(a, b) => slot[b] # s
  BY <1>3, FreeSlotRivals
<1>5. Books(x, "commit")
  BY <1>1, <1>2, <1>3, <1>4
     DEF Books, LeavesJob, LeavesInvoice, LeavesRecorded, LeavesSlot, Running
<1> QED
  BY <1>3, <1>5, KeepsBooks

LEMMA RescheduleBooks ==
    ASSUME IInv, BooksInv, NEW w \in Workers, NEW a \in Appts, NEW s \in Slots[a],
           RescheduleLoad(w, a, s)
    PROVE  BooksInv'
<1> DEFINE x == [VehicleSession("reschedule", a) EXCEPT !.slotTo = s]
<1>1. /\ x.appts = {a} /\ x.vehicles = {VehicleOf[a]} /\ x.slotTo = s /\ ~x.bill
      /\ x.op = "reschedule" /\ x.apptTo = "same" /\ x.jobTo = "same"
  BY DEF VehicleSession, Session, NoTxn
<1>2. Keeps(w, x, "decide")
  BY DEF RescheduleLoad, Load, Keeps
<1> HIDE DEF x
<1>3. Books(x, "decide")
  BY <1>1 DEF Books, LeavesJob, LeavesInvoice, LeavesRecorded, LeavesSlot, Running
<1> QED
  BY <1>2, <1>3, KeepsBooks

LEMMA ConfirmBooks ==
    ASSUME IInv, BooksInv, NEW w \in Workers, NEW a \in Appts, Confirm(w, a)
    PROVE  BooksInv'
<1> DEFINE x == [Session("status", a) EXCEPT !.apptTo = "confirmed"]
<1>1. /\ x.appts = {a} /\ x.slotTo = 0 /\ ~x.bill /\ x.op = "status"
      /\ x.apptTo = "confirmed" /\ x.jobTo = "same"
  BY DEF Session, NoTxn
<1>2. Keeps(w, x, "commit") /\ appt[a] = "requested"
  BY DEF Confirm, Load, Keeps
<1> HIDE DEF x
<1>3. Books(x, "commit")
  BY <1>1, <1>2, PlainBooks DEF Running, Active
<1> QED
  BY <1>2, <1>3, KeepsBooks

LEMMA StartBooks ==
    ASSUME IInv, BooksInv, NEW w \in Workers, NEW a \in Appts, StartJob(w, a)
    PROVE  BooksInv'
<1> DEFINE x == [Session("start", a) EXCEPT !.apptTo = "in_progress",
                                            !.jobTo = "in_progress"]
<1>1. /\ x.appts = {a} /\ x.slotTo = 0 /\ ~x.bill /\ x.op = "start"
      /\ x.apptTo = "in_progress" /\ x.jobTo = "in_progress"
  BY DEF Session, NoTxn
<1>2. Keeps(w, x, "commit") /\ appt[a] = "confirmed"
  BY DEF StartJob, Load, Keeps
<1> HIDE DEF x
<1>3. Books(x, "commit")
  BY <1>1, <1>2, PlainBooks DEF Active
<1> QED
  BY <1>2, <1>3, KeepsBooks

LEMMA CancelBooks ==
    ASSUME IInv, BooksInv, NEW w \in Workers, NEW a \in Appts, NEW allowed,
           "completed" \notin allowed, Cancel(w, a, allowed)
    PROVE  BooksInv'
<1> DEFINE to == IF job[a] \in {"none", "completed", "cancelled"} THEN "same" ELSE "cancelled"
           x == [Session("status", a) EXCEPT !.apptTo = "cancelled", !.jobTo = to]
<1>1. to # "none"
  OBVIOUS
<1> HIDE DEF to
<1>2. /\ x.appts = {a} /\ x.slotTo = 0 /\ ~x.bill /\ x.op = "status"
      /\ x.apptTo = "cancelled" /\ x.jobTo = to
  BY DEF Session, NoTxn
<1>3. Keeps(w, x, "commit") /\ appt[a] # "completed"
  BY DEF Cancel, Load, Keeps, to
<1> HIDE DEF x
<1>4. Books(x, "commit")
  BY <1>1, <1>2, <1>3, PlainBooks DEF Running
<1> QED
  BY <1>3, <1>4, KeepsBooks

(* A service in progress has a job, so completing it completes the job.    *)
LEMMA CompleteLoadBooks ==
    ASSUME IInv, BooksInv, NEW w \in Workers, NEW a \in Appts, NEW m \in Nat,
           CompleteLoad(w, a, m)
    PROVE  BooksInv'
<1> DEFINE r == Raise(VehicleOf[a], m)
           to == IF job[a] = "none" THEN "same" ELSE "completed"
           x == [VehicleSession("complete", a) EXCEPT
                   !.apptTo = "completed", !.jobTo = to, !.reading = r]
<1>1. appt[a] \in {"in_progress", "awaiting_approval"} /\ Keeps(w, x, "decide")
  BY DEF CompleteLoad, Load, Keeps
<1>2. to = "completed"
  BY <1>1 DEF BooksInv, RunningHasJob, Running
<1> HIDE DEF r, to
<1>3. /\ x.appts = {a} /\ x.slotTo = 0 /\ ~x.bill /\ x.op = "complete"
      /\ x.apptTo = "completed" /\ x.jobTo = to
  BY DEF VehicleSession, Session, NoTxn
<1> HIDE DEF x
<1>4. Books(x, "decide")
  BY <1>1, <1>2, <1>3
     DEF Books, LeavesJob, LeavesInvoice, LeavesRecorded, LeavesSlot, Running, Active
<1> QED
  BY <1>1, <1>4, KeepsBooks

LEMMA RecordBooks ==
    ASSUME IInv, BooksInv, NEW w \in Workers, NEW v \in Vehicles, NEW m \in Nat, Record(w, v, m)
    PROVE  BooksInv'
<1> DEFINE r == Raise(v, m)
           x == [NoTxn EXCEPT !.op = "record", !.vehicles = {v}, !.reading = r]
<1>1. Keeps(w, x, "commit")
  BY DEF Record, Load, Keeps
<1> HIDE DEF r
<1>2. /\ x.appts = {} /\ x.slotTo = 0 /\ ~x.bill /\ x.op = "record"
      /\ x.apptTo = "same" /\ x.jobTo = "same"
  BY DEF NoTxn
<1> HIDE DEF x
<1>3. Books(x, "commit")
  BY <1>2 DEF Books, LeavesJob, LeavesInvoice, LeavesRecorded, LeavesSlot, Running
<1> QED
  BY <1>1, <1>3, KeepsBooks

LEMMA AddWorkBooks ==
    ASSUME IInv, BooksInv, NEW w \in Workers, NEW k \in Works, AddWork(w, k)
    PROVE  BooksInv'
<1> DEFINE a == ApptOf[k]
           jto == IF job[a] = "in_progress" THEN "awaiting_approval" ELSE "same"
           ato == IF appt[a] = "in_progress" THEN "awaiting_approval" ELSE "same"
           x == [Session("add", a) EXCEPT !.works = {k}, !.workTo = "pending_approval",
                                          !.jobTo = jto, !.apptTo = ato]
<1>1. a \in Appts
  BY RowsAssumption
<1>2. Keeps(w, x, "commit") /\ job[a] \in {"in_progress", "awaiting_approval"}
  BY DEF AddWork, Load, Keeps
<1>3. /\ jto # "none" /\ ato \in {"same", "awaiting_approval"}
      /\ (ato # "same") => (appt[a] = "in_progress")
  OBVIOUS
<1> HIDE DEF a, jto, ato
<1>4. /\ x.appts = {a} /\ x.slotTo = 0 /\ ~x.bill /\ x.op = "add"
      /\ x.apptTo = ato /\ x.jobTo = jto
  BY DEF Session, NoTxn
<1> HIDE DEF x
<1>5. Books(x, "commit")
  BY <1>1, <1>2, <1>3, <1>4, PlainBooks DEF Active
<1> QED
  BY <1>2, <1>5, KeepsBooks

LEMMA AnswerLoadBooks ==
    ASSUME IInv, BooksInv, NEW w \in Workers, NEW k \in Works, NEW to,
           NEW op \in {"respond", "update"}, AnswerLoad(w, k, to, op)
    PROVE  BooksInv'
<1> DEFINE a == ApptOf[k]
           waits == job[a] = "awaiting_approval"
           jto == IF waits THEN "in_progress" ELSE "same"
           ato == IF waits /\ appt[a] = "awaiting_approval" THEN "in_progress" ELSE "same"
           x == [Session(op, a) EXCEPT !.works = {k}, !.workTo = to,
                                       !.jobTo = jto, !.apptTo = ato]
<1>1. a \in Appts
  BY RowsAssumption
<1>2. Keeps(w, x, "decide")
  BY DEF AnswerLoad, Load, Keeps
<1>3. /\ jto # "none" /\ ato \in {"same", "in_progress"}
      /\ (ato # "same") => (appt[a] = "awaiting_approval" /\ jto # "same")
  OBVIOUS
<1> HIDE DEF a, jto, ato
<1>4. /\ x.appts = {a} /\ x.slotTo = 0 /\ ~x.bill /\ x.op = op
      /\ x.apptTo = ato /\ x.jobTo = jto
  BY DEF Session, NoTxn
<1> HIDE DEF x
<1>5. Books(x, "decide")
  <2>1. x.op # "complete" /\ x.apptTo # "completed" /\ x.jobTo # "none"
    BY <1>3, <1>4
  <2>2. (x.apptTo # "same") => (appt[a] = "awaiting_approval" /\ x.jobTo # "same")
    BY <1>3, <1>4
  <2>3. ("same" \notin Running) /\ ((appt[a] = "awaiting_approval") => Active(a))
    BY DEF Running, Active
  <2> QED
    BY <1>1, <1>4, <2>1, <2>2, <2>3, PlainBooks
<1> QED
  BY <1>2, <1>5, KeepsBooks

LEMMA NextBooks ==
    ASSUME IInv, BooksInv, [Next]_vars
    PROVE  BooksInv'
<1>n. /\ \A a \in Appts : Readings \cup {Booked[a]} \subseteq Nat
      /\ Readings \subseteq Nat
  BY NumbersAssumption
<1>1. ASSUME NEW w \in Workers, Staff(w) PROVE BooksInv'
  <2>1. ASSUME NEW a \in Appts,
               Confirm(w, a) \/ StartJob(w, a) \/ CancelByStaff(w, a) \/ DeleteHistory(w, a)
        PROVE  BooksInv'
    <3>1. CASE CancelByStaff(w, a)
      BY <3>1, CancelBooks DEF CancelByStaff
    <3> QED
      BY <2>1, <3>1, ConfirmBooks, StartBooks, AsideBooks
  <2>2. ASSUME NEW a \in Appts, NEW m \in Readings \cup {Booked[a]}, CompleteLoad(w, a, m)
        PROVE  BooksInv'
    BY <1>n, <2>2, CompleteLoadBooks
  <2>3. ASSUME NEW a \in Appts, NEW s \in Slots[a], Move(w, a, s) PROVE BooksInv'
    BY <2>3, AsideBooks
  <2>4. ASSUME NEW v \in Vehicles, NEW m \in Readings, Record(w, v, m) PROVE BooksInv'
    BY <1>n, <2>4, RecordBooks
  <2>5. ASSUME NEW k \in Works, AddWork(w, k) PROVE BooksInv'
    BY <2>5, AddWorkBooks
  <2>6. ASSUME NEW k \in Works, NEW to \in {"pending_approval", "approved", "rejected"},
               AnswerLoad(w, k, to, "update")
        PROVE  BooksInv'
    BY <2>6, AnswerLoadBooks
  <2> QED
    BY <1>1, <2>1, <2>2, <2>3, <2>4, <2>5, <2>6, CompleteBillBooks DEF Staff
<1>2. ASSUME NEW w \in Workers, Customer(w) PROVE BooksInv'
  <2>1. ASSUME NEW a \in Appts, NEW s \in Slots[a], Book(w, a, s) \/ RescheduleLoad(w, a, s)
        PROVE  BooksInv'
    BY <2>1, BookBooks, RescheduleBooks
  <2>2. ASSUME NEW a \in Appts, CancelByCustomer(w, a) PROVE BooksInv'
    BY <2>2, CancelBooks DEF CancelByCustomer
  <2>3. ASSUME NEW k \in Works, NEW to \in {"approved", "rejected"},
               AnswerLoad(w, k, to, "respond")
        PROVE  BooksInv'
    BY <2>3, AnswerLoadBooks
  <2> QED
    BY <1>2, <2>1, <2>2, <2>3, RescheduleCheckBooks DEF Customer
<1>3. ASSUME NEW w \in Workers, Abort(w) PROVE BooksInv'
  BY <1>3, NoTxnBooks, KeepsBooks DEF Abort, Rollback, Keeps
<1>4. CASE UNCHANGED vars
  BY <1>4 DEF vars, BooksInv, RunningHasJob, InvoicedIsOver, ServiceRecorded,
              OneVehicleOneSlot, Books, LeavesJob, LeavesInvoice, LeavesRecorded,
              LeavesSlot, Active, Rival, Approved, WorksOf
<1> QED
  BY <1>1, <1>2, <1>3, <1>4, AnswerBooks, CommitBooksIInv DEF Next

LEMMA BooksInductive == Spec => []BooksInv
<1>1. IInv /\ BooksInv /\ [Next]_vars => BooksInv'
  BY NextBooks
<1> QED
  BY <1>1, InitBooks, Inductive, PTL DEF Spec

(* A completed service always has its invoice, and its history item until  *)
(* staff delete it; unless handlers raced for it, it is recorded once, and *)
(* nothing that was not completed is.                                      *)
THEOREM CompletedIsRecorded == Spec => []ServiceRecorded
<1>1. BooksInv => ServiceRecorded
  BY DEF BooksInv
<1> QED
  BY <1>1, BooksInductive, PTL

(* Two services of a vehicle are booked at one time only if staff moved    *)
(* one there, or two handlers raced.                                       *)
THEOREM NoDoubleBooking == Spec => []OneVehicleOneSlot
<1>1. BooksInv => OneVehicleOneSlot
  BY DEF BooksInv
<1> QED
  BY <1>1, BooksInductive, PTL

(* What is billed when a service is completed is what stands approved at   *)
(* that moment, unless another handler had the service in memory too.      *)
THEOREM BilledIsApproved == Spec => BilledAsApproved
<1> DEFINE Billed == \A a \in Appts \ raced :
             appt[a] # "completed" /\ appt'[a] = "completed" => invoice'[a] = Approved(a)
<1>1. ASSUME IInv, BooksInv, [Next]_vars, NEW a \in Appts \ raced,
             appt[a] # "completed", appt'[a] = "completed"
      PROVE  invoice'[a] = Approved(a)
  <2>a. ASSUME NEW w \in Workers, Staff(w) \/ Customer(w) \/ Answer(w) \/ Abort(w)
        PROVE  appt' = appt
    BY <2>a DEF Staff, Customer, Answer, Abort, Confirm, StartJob, CancelByStaff,
                CancelByCustomer, Cancel, DeleteHistory, CompleteLoad, Move, Record, AddWork,
                AnswerLoad, CompleteBill, Book, RescheduleLoad, RescheduleCheck, Load, Decide,
                tables
  <2>1. PICK w \in Workers : Commit(w)
    BY <1>1, <2>a DEF Next, vars
  <2>2. a \in txn[w].appts /\ txn[w].apptTo = "completed"
    BY <1>1, <2>1, CommitLeaves DEF ApptAfter, To
  <2>3. Books(txn[w], "commit")
    BY <1>1, <2>1 DEF BooksInv, Commit
  <2>4. txn[w].bill /\ txn[w].lines = Approved(a)
    BY <1>1, <2>2, <2>3 DEF Books, LeavesInvoice, LeavesRecorded
  <2> QED
    BY <1>1, <2>1, <2>2, <2>4, CommitBooksLeaves
<1>2. IInv /\ BooksInv /\ [Next]_vars => [Billed]_vars
  BY <1>1
<1> QED
  BY <1>2, Inductive, BooksInductive, PTL DEF BilledAsApproved, Spec

=============================================================================

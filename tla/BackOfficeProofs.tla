--------------------------- MODULE BackOfficeProofs ----------------------------
(***************************************************************************)
(* Proofs about BackOffice: what its parts promise holds of the whole, for *)
(* any sets of requests, leads, customers, vehicles and images.            *)
(***************************************************************************)
EXTENDS BackOffice, FiniteSetTheorems, SequenceTheorems, WellFoundedInduction, TLAPS

(* Each step of the whole is a step of one part. *)
LEMMA OnePartMoves ==
    ASSUME [BackOfficeNext]_backOfficeVars
    PROVE  /\ [Next]_vars
           /\ [Lead!Next]_lead /\ [Garage!Next]_garage /\ [Plan!Next]_plan /\ [Show!Next]_show
  BY DEF BackOfficeNext, backOfficeVars, lead, garage, plan, show

--------------------------------------------------------------------------------
(* The connection pool.  A session takes a connection only inside a        *)
(* request or a turn on the loop, and every step that leaves one of these  *)
(* either gives the connection back or goes to wait for its own sends or   *)
(* for its refusal.                                                        *)

(* The typing of the places and of the loop, for every step of the pool.   *)
LEMMA StepTyped == ASSUME TypeOK, Next PROVE TypeOK'
<1> USE DEF TypeOK, Places, Users
<1>1. ASSUME NEW w \in Workers, Worker(w) PROVE TypeOK'
  <2>1. CASE Request(w)
    BY <2>1 DEF Request, Move
  <2>2. CASE WorkerAcquire(w)
    BY <2>2 DEF WorkerAcquire, Acquire
  <2>3. CASE Respond(w)
    BY <2>3 DEF Respond, Move, Release
  <2>4. CASE WorkerGiveUp(w)
    BY <2>4 DEF WorkerGiveUp, Move
  <2> QED BY <1>1, <2>1, <2>2, <2>3, <2>4 DEF Worker
<1>2. ASSUME NEW c \in Coroutines, Coroutine(c) PROVE TypeOK'
  <2>1. CASE Open(c) \/ Turn(c)
    BY <2>1 DEF Open, Turn, Move
  <2>2. CASE LoopAcquire(c)
    BY <2>2 DEF LoopAcquire, Acquire
  <2>3. CASE GiveUp(c) \/ Disconnect(c) \/ Pong(c) \/ Broadcast(c)
    BY <2>3 DEF GiveUp, Disconnect, Pong, Broadcast, Move
  <2>4. CASE Accept(c) \/ Handled(c)
    BY <2>4 DEF Accept, Handled, Move, Release
  <2>5. CASE Refuse(c) \/ Sent(c)
    BY <2>5 DEF Refuse, Sent, Move, Release
  <2> QED BY <1>2, <2>1, <2>2, <2>3, <2>4, <2>5 DEF Coroutine
<1> QED BY <1>1, <1>2 DEF Next

(* Who is somebody: a request is not a coroutine, and "free" is neither.    *)
Distinct == Workers \cap Coroutines = {} /\ Free \notin Users

(* Who holds a connection, and where a coroutine stands that has its turn  *)
(* on the loop: not where one waits, which is why it may take one.         *)
Turns == {"opening", "frame", "poll"}
Sends == {"sending", "refusing"}
BusyHold ==
    /\ \A u \in pinned : \/ u \in Workers /\ at[u] = "work"
                         \/ u = loop
                         \/ u \in Sockets /\ at[u] \in Sends
    /\ loop # Free => at[loop] \in Turns

LEMMA StepReleases == ASSUME Distinct, TypeOK, BusyHold, Next PROVE BusyHold'
<1> USE DEF Distinct, TypeOK, BusyHold, Turns, Sends, Users, Coroutines
<1>1. ASSUME NEW w \in Workers, Worker(w) PROVE BusyHold'
  <2>1. CASE Request(w)
    BY <2>1 DEF Request, Move
  <2>2. CASE WorkerAcquire(w)
    BY <2>2 DEF WorkerAcquire, Acquire
  <2>3. CASE Respond(w)
    BY <2>3 DEF Respond, Move, Release
  <2>4. CASE WorkerGiveUp(w)
    BY <2>4 DEF WorkerGiveUp, Move
  <2> QED BY <1>1, <2>1, <2>2, <2>3, <2>4 DEF Worker
<1>2. ASSUME NEW c \in Coroutines, Coroutine(c) PROVE BusyHold'
  <2>1. CASE Open(c) \/ Turn(c)
    <3>1. loop = Free /\ c \notin pinned /\ loop' = c /\ pinned' = pinned
      BY <2>1 DEF Open, Turn
    <3>2. at'[c] \in Turns /\ \A u \in Users \ {c} : at'[u] = at[u]
      BY <2>1 DEF Open, Turn, Move
    <3>3. ASSUME NEW u \in pinned PROVE u # c /\ u # loop /\ u \in Users /\ at'[u] = at[u]
      BY <3>1, <3>2
    <3> QED BY <3>1, <3>2, <3>3
  <2>2. CASE LoopAcquire(c)
    BY <2>2 DEF LoopAcquire, Acquire
  <2>3. CASE GiveUp(c) \/ Disconnect(c) \/ Pong(c)
    <3>1. (loop = Free \/ loop = c) /\ c \notin pinned /\ loop' = Free /\ pinned' = pinned
      BY <2>3 DEF GiveUp, Disconnect, Pong
    <3>2. \A u \in Users \ {c} : at'[u] = at[u]
      BY <2>3 DEF GiveUp, Disconnect, Pong, Move
    <3> QED BY <3>1, <3>2
  <2>6. CASE c \in Sockets /\ Broadcast(c)
    <3>1. loop = c /\ loop' = Free /\ pinned' = pinned /\ at'[c] = "sending"
      BY <2>6 DEF Broadcast, Move
    <3>2. \A u \in Users \ {c} : at'[u] = at[u]
      BY <2>6 DEF Broadcast, Move
    <3> QED BY <2>6, <3>1, <3>2
  <2>4. CASE Accept(c) \/ Handled(c)
    BY <2>4 DEF Accept, Handled, Move, Release
  <2>5. CASE Refuse(c) \/ Sent(c)
    BY <2>5 DEF Refuse, Sent, Move, Release
  <2> QED BY <1>2, <2>1, <2>2, <2>3, <2>4, <2>5, <2>6 DEF Coroutine
<1> QED BY <1>1, <1>2 DEF Next

(* The connections that are out: a set that grows only below the limit.    *)
WithinPool == IsFiniteSet(pinned) /\ Cardinality(pinned) <= Pool

LEMMA AcquireWithin ==
    ASSUME Pool \in Nat, WithinPool, NEW u, Acquire(u) PROVE WithinPool'
<1>1. Cardinality(pinned) \in Nat
  BY FS_CardinalityType DEF WithinPool
<1>2. IsFiniteSet(pinned') /\ Cardinality(pinned') = Cardinality(pinned) + 1
  BY FS_AddElement DEF WithinPool, Acquire
<1> QED BY <1>1, <1>2 DEF WithinPool, Acquire

LEMMA ReleaseWithin ==
    ASSUME Pool \in Nat, WithinPool, pinned' \subseteq pinned PROVE WithinPool'
<1>1. IsFiniteSet(pinned') /\ Cardinality(pinned') <= Cardinality(pinned)
  BY FS_Subset DEF WithinPool
<1>2. Cardinality(pinned) \in Nat /\ Cardinality(pinned') \in Nat
  BY <1>1, FS_CardinalityType DEF WithinPool
<1> QED BY <1>1, <1>2 DEF WithinPool

LEMMA StepWithin == ASSUME Pool \in Nat, WithinPool, Next PROVE WithinPool'
<1>1. ASSUME NEW w \in Workers, Worker(w) PROVE WithinPool'
  <2>1. CASE WorkerAcquire(w)
    BY <2>1, AcquireWithin DEF WorkerAcquire
  <2>2. CASE Request(w) \/ Respond(w) \/ WorkerGiveUp(w)
    <3>1. pinned' \subseteq pinned
      BY <2>2 DEF Request, Respond, WorkerGiveUp, Release
    <3> QED BY <3>1, ReleaseWithin
  <2> QED BY <1>1, <2>1, <2>2 DEF Worker
<1>2. ASSUME NEW c \in Coroutines, Coroutine(c) PROVE WithinPool'
  <2>1. CASE LoopAcquire(c)
    BY <2>1, AcquireWithin DEF LoopAcquire
  <2>2. CASE ~LoopAcquire(c)
    <3>1. pinned' \subseteq pinned
      BY <1>2, <2>2 DEF Coroutine, Open, Turn, GiveUp, Accept, Refuse, Handled, Sent, Disconnect,
                        Pong, Broadcast, Release
    <3> QED BY <3>1, ReleaseWithin
  <2> QED BY <2>1, <2>2
<1> QED BY <1>1, <1>2 DEF Next

--------------------------------------------------------------------------------

(* A socket that waits for a frame and a stream between two polls hold no  *)
(* connection: only requests at work, the turn on the loop, and sockets    *)
(* that await their own sends or the close of a refused peer do;           *)
(* QueuePool: pool_size + max_overflow connections and no more.            *)
THEOREM OnlyBusyHold ==
    ASSUME Distinct, Pool \in Nat PROVE Spec => []OnlyTheBusyHold
<1> DEFINE Inv == TypeOK /\ BusyHold /\ WithinPool
<1>1. Init => Inv
  BY FS_EmptySet DEF Init, TypeOK, Places, Users, BusyHold, WithinPool
<1>2. Inv /\ [Next]_vars => Inv'
  <2>1. ASSUME Inv, Next PROVE Inv'
    BY <2>1, StepTyped, StepReleases, StepWithin
  <2>2. ASSUME Inv, UNCHANGED vars PROVE Inv'
    BY <2>2 DEF vars, TypeOK, BusyHold, WithinPool
  <2> QED BY <2>1, <2>2
<1>3. Inv => OnlyTheBusyHold
  BY DEF BusyHold, Sends, WithinPool, OnlyTheBusyHold
<1> QED BY <1>1, <1>2, <1>3, PTL DEF Spec

--------------------------------------------------------------------------------
(* Leads.  A session that moves a lead was told its stage when it read it; *)
(* as long as nobody else held a row of it, the stage and the booking are  *)
(* still those: a session that ends a booking closes the lead or found it  *)
(* closed, and one that moves the lead found it open, its booking not over.*)

(* What a session is, whatever the others did. *)
Formed(y) ==
    /\ \A k, l \in y.of : k = l
    /\ y.step \in {"idle", "begun"} => y.of = {} /\ y.to = "same" /\ y.event = "same" /\ y.book = "same"
    /\ y.step = "lead" \/ y.book = "expired" => y.to = "same" /\ y.event = "same"
    /\ y.step # "idle" /\ y.book # "expired" => y.at # 0
    /\ y.to # "same" => y.event = y.to
    /\ y.event \in Lead!Terminal => y.to = y.event
    /\ y.to \in Lead!Terminal => y.closed # 0

(* What a session knows of a lead that nobody raced for. *)
Knows(y, l) ==
    y.step = "commit" =>
        /\ y.to # "same" => status[l] \notin Lead!Terminal
        /\ y.book \in Lead!Over => y.to \in Lead!Terminal \/ status[l] \in Lead!Terminal
        /\ y.to \notin Lead!Terminal \cup {"same"} => y.book = "same" /\ booking[l] \notin Lead!Over

LeadInv ==
    /\ Lead!TypeOK
    /\ \A w \in Threads : Formed(leadTxn[w])
    /\ \A w \in Threads : \A l \in leadTxn[w].of : l \notin leadRaced => Knows(leadTxn[w], l)
    /\ BookingAndLeadAgree

LEMMA LeadNoSession == Lead!NoTxn \in Lead!Txn /\ Formed(Lead!NoTxn) /\ Lead!NoTxn.of = {}
  BY LeadsAssumption DEF Lead!NoTxn, Lead!Txn, Formed, Lead!Terminal

LEMMA LeadInitially == Lead!Init => LeadInv
<1> SUFFICES ASSUME Lead!Init PROVE LeadInv
  OBVIOUS
<1>1. \A w \in Threads : leadTxn[w] = Lead!NoTxn
  BY DEF Lead!Init
<1>2. Lead!TypeOK
  <2>1. closedAt \in [Leads -> [Lead!Terminal -> 0 .. Transactions]]
    BY LeadsAssumption DEF Lead!Init
  <2>2. leadTxn \in [Threads -> Lead!Txn] /\ leadRaced \subseteq Leads /\ overtaken \subseteq Leads
    BY LeadNoSession DEF Lead!Init
  <2>3. /\ now \in 0 .. Transactions /\ opened \in [Leads -> 0 .. Transactions]
        /\ \A l \in Leads : events[l] = {}
    BY LeadsAssumption DEF Lead!Init
  <2> QED BY <2>1, <2>2, <2>3 DEF Lead!Init, Lead!TypeOK
<1>3. BookingAndLeadAgree
  BY DEF Lead!Init, BookingAndLeadAgree, Lead!BookingAndLeadAgree
<1> QED BY <1>1, <1>2, <1>3, LeadNoSession DEF LeadInv

(* A session moves on, and writes nothing. *)
LEMMA LeadSessionMoves ==
    ASSUME LeadInv, NEW w \in Threads, NEW y \in Lead!Txn,
           leadTxn' = [leadTxn EXCEPT ![w] = y], now' \in 0 .. Transactions,
           UNCHANGED <<status, kind, booking, opened, events, closedAt, leadRaced, overtaken>>,
           Formed(y), \A l \in y.of : l \notin leadRaced => Knows(y, l)
    PROVE  LeadInv'
<1>1. leadTxn'[w] = y /\ \A u \in Threads \ {w} : leadTxn'[u] = leadTxn[u]
  BY DEF LeadInv, Lead!TypeOK
<1>2. Lead!TypeOK'
  BY DEF LeadInv, Lead!TypeOK
<1>3. BookingAndLeadAgree'
  BY DEF LeadInv, BookingAndLeadAgree, Lead!BookingAndLeadAgree
<1>4. ASSUME NEW u \in Threads PROVE Formed(leadTxn[u])'
  BY <1>1 DEF LeadInv, Formed
<1>5. ASSUME NEW u \in Threads, NEW l \in leadTxn'[u].of, l \notin leadRaced'
      PROVE  Knows(leadTxn[u], l)'
  BY <1>1, <1>5 DEF LeadInv, Knows
<1> QED BY <1>2, <1>3, <1>4, <1>5 DEF LeadInv

LEMMA AuthenticateKeeps == ASSUME LeadInv, NEW w \in Threads, Lead!Authenticate(w) PROVE LeadInv'
<1> DEFINE y == [leadTxn[w] EXCEPT !.step = "begun", !.at = now + 1]
<1>1. /\ leadTxn' = [leadTxn EXCEPT ![w] = y] /\ now' = now + 1 /\ leadTxn[w].step = "idle"
      /\ now + 1 \in 1 .. Transactions /\ leadTxn[w] \in Lead!Txn /\ Formed(leadTxn[w])
      /\ UNCHANGED <<status, kind, booking, opened, events, closedAt, leadRaced, overtaken>>
  BY LeadsAssumption DEF Lead!Authenticate, Lead!Idle, Lead!rows, Lead!ghosts, LeadInv, Lead!TypeOK
<1>2. now + 1 \in 0 .. Transactions /\ now + 1 # 0
  BY <1>1
<1>3. /\ y \in Lead!Txn /\ y.step = "begun" /\ y.at = now + 1 /\ y.of = {}
      /\ y.to = "same" /\ y.event = "same" /\ y.book = "same"
  BY <1>1, <1>2 DEF Lead!Txn, Formed
<1> HIDE DEF y
<1>4. Formed(y)
  BY <1>2, <1>3 DEF Formed, Lead!Terminal
<1> QED BY <1>1, <1>2, <1>3, <1>4, LeadSessionMoves

(* A new lead: nobody had it. *)
LEMMA LeadOpenKeeps ==
    ASSUME LeadInv, NEW w \in Threads, NEW l \in Leads, NEW k \in Lead!LeadKind, Lead!Open(w, l, k)
    PROVE  LeadInv'
<1>1. PICK b : b = CASE k = "test_drive"  -> "requested"
                     [] k = "reservation" -> "pending"
                     [] OTHER             -> "none"
  OBVIOUS
<1>2. b \in Lead!BookingStatus \ Lead!Over
  BY <1>1 DEF Lead!BookingStatus, Lead!TestDriveStatus, Lead!ReservationStatus, Lead!Over
<1>3. /\ UNCHANGED <<events, closedAt, now, leadRaced, overtaken>>
      /\ status' = [status EXCEPT ![l] = "new"] /\ status[l] = "absent"
      /\ booking' = [booking EXCEPT ![l] = b]
      /\ kind' = [kind EXCEPT ![l] = k]
      /\ opened' = [opened EXCEPT ![l] = leadTxn[w].at]
      /\ leadTxn' = [leadTxn EXCEPT ![w] = Lead!NoTxn]
  BY <1>1 DEF Lead!Open, Lead!ghosts
<1>4. leadTxn'[w] = Lead!NoTxn /\ \A u \in Threads \ {w} : leadTxn'[u] = leadTxn[u]
  BY <1>3 DEF LeadInv, Lead!TypeOK
<1>5. Lead!TypeOK'
  <2>1. leadTxn[w].at \in 0 .. Transactions
    BY DEF LeadInv, Lead!TypeOK, Lead!Txn
  <2>2. "new" \in Lead!LeadStatus
    BY DEF Lead!LeadStatus
  <2> QED BY <1>2, <1>3, <2>1, <2>2, LeadNoSession DEF LeadInv, Lead!TypeOK
<1>6. /\ \A j \in Leads : status[j] \in Lead!Terminal => status'[j] = status[j]
      /\ \A j \in Leads : status'[j] \in Lead!Terminal => status[j] \in Lead!Terminal
      /\ \A j \in Leads : booking'[j] \in Lead!Over => booking[j] \in Lead!Over
  BY <1>2, <1>3 DEF LeadInv, Lead!TypeOK, Lead!Terminal
<1>7. ASSUME NEW u \in Threads, NEW j \in leadTxn'[u].of, j \notin leadRaced'
      PROVE  Knows(leadTxn[u], j)'
  <2>1. u # w /\ j \in leadTxn[u].of /\ j \in Leads
    BY <1>4, LeadNoSession DEF LeadInv, Lead!TypeOK, Lead!Txn
  <2>2. Knows(leadTxn[u], j)
    BY <1>3, <1>7, <2>1 DEF LeadInv
  <2> QED BY <1>4, <1>6, <2>1, <2>2 DEF Knows
<1>8. BookingAndLeadAgree'
  <2>1. ASSUME NEW j \in Leads \ leadRaced, NEW e \in Lead!Terminal, closedAt[j][e] # 0
        PROVE  status'[j] = e
    BY <1>6, <2>1 DEF LeadInv, BookingAndLeadAgree, Lead!BookingAndLeadAgree
  <2> QED BY <1>3, <1>6, <2>1 DEF LeadInv, BookingAndLeadAgree, Lead!BookingAndLeadAgree
<1>9. \A u \in Threads : Formed(leadTxn[u])'
  BY <1>4, LeadNoSession DEF LeadInv, Formed
<1> QED BY <1>5, <1>7, <1>8, <1>9 DEF LeadInv

LEMMA AdvanceKeeps ==
    ASSUME LeadInv, NEW w \in Threads, NEW l \in Leads,
           NEW to \in Lead!LeadStatus \ Lead!Terminal, Lead!Advance(w, l, to)
    PROVE  LeadInv'
<1> DEFINE y == [leadTxn[w] EXCEPT !.step = "commit", !.of = {l}, !.event = to,
                                   !.to = IF status[l] = to THEN "same" ELSE to]
<1>1. /\ leadTxn' = [leadTxn EXCEPT ![w] = y] /\ leadTxn[w].step = "begun"
      /\ leadTxn[w] \in Lead!Txn /\ Formed(leadTxn[w]) /\ status[l] \notin Lead!Terminal
      /\ UNCHANGED <<status, kind, booking, opened, events, closedAt, now, leadRaced, overtaken>>
  BY DEF Lead!Advance, Lead!Begun, Lead!IsOpen, Lead!rows, Lead!ghosts, LeadInv, Lead!TypeOK
<1>2. y \in Lead!Txn /\ y.of = {l} /\ y.book = "same" /\ y.step = "commit"
  BY <1>1 DEF Lead!Txn, Formed
<1>3. Formed(y)
  BY <1>1 DEF Lead!Txn, Formed, Lead!Terminal, Lead!LeadStatus
<1>4. l \notin leadRaced => Knows(y, l)
  <2>1. l \notin leadRaced => booking[l] \notin Lead!Over
    BY <1>1 DEF LeadInv, BookingAndLeadAgree, Lead!BookingAndLeadAgree
  <2> HIDE DEF y
  <2> QED BY <1>1, <1>2, <2>1 DEF Knows, Lead!Over
<1>5. now \in 0 .. Transactions
  BY DEF LeadInv, Lead!TypeOK
<1> HIDE DEF y
<1> QED BY <1>1, <1>2, <1>3, <1>4, <1>5, LeadSessionMoves

(* An open lead is closed in memory: by an agent, who has no booking, or   *)
(* because its booking is over.                                            *)
LEMMA LeadCloseKeeps ==
    ASSUME LeadInv, NEW w \in Threads, NEW l \in Leads, NEW to \in Lead!Terminal,
           Lead!CloseInMemory(w, l, to),
           leadTxn[w].step \in {"begun", "lead"}, leadTxn[w].book # "expired"
    PROVE  LeadInv'
<1> DEFINE y == [leadTxn[w] EXCEPT !.step = "commit", !.of = {l}, !.to = to, !.event = to,
                                   !.closed = now + 1]
<1>1. /\ leadTxn' = [leadTxn EXCEPT ![w] = y] /\ now' = now + 1 /\ now + 1 \in 1 .. Transactions
      /\ leadTxn[w] \in Lead!Txn /\ Formed(leadTxn[w]) /\ status[l] \notin Lead!Terminal
      /\ UNCHANGED <<status, kind, booking, opened, events, closedAt, leadRaced, overtaken>>
  BY LeadsAssumption
     DEF Lead!CloseInMemory, Lead!IsOpen, Lead!rows, Lead!ghosts, LeadInv, Lead!TypeOK
<1>2. to \in Lead!LeadStatus /\ now + 1 \in 0 .. Transactions /\ now + 1 # 0
  BY <1>1 DEF Lead!Terminal, Lead!LeadStatus
<1>3. /\ y \in Lead!Txn /\ y.of = {l} /\ y.to = to /\ y.event = to /\ y.closed = now + 1
      /\ y.step = "commit" /\ y.book = leadTxn[w].book /\ y.at = leadTxn[w].at
  <2>1. /\ leadTxn[w] \in Lead!Txn /\ {l} \in SUBSET Leads
        /\ to \in Lead!LeadStatus \cup {"same"} /\ now + 1 \in 0 .. Transactions
    BY <1>1, <1>2
  <2> QED BY <2>1 DEF Lead!Txn
<1> HIDE DEF y
<1>4. Formed(y)
  BY <1>1, <1>2, <1>3 DEF Formed, Lead!Terminal
<1>5. Knows(y, l)
  BY <1>1, <1>3 DEF Knows
<1> QED BY <1>1, <1>2, <1>3, <1>4, <1>5, LeadSessionMoves

LEMMA ChangeBookingKeeps ==
    ASSUME LeadInv, NEW w \in Threads, NEW l \in Leads,
           NEW to \in Lead!TestDriveStatus, Lead!ChangeBooking(w, l, to)
    PROVE  LeadInv'
<1> DEFINE y == [leadTxn[w] EXCEPT !.step = "lead", !.of = {l},
                                   !.book = IF booking[l] = to THEN "same" ELSE to]
<1>1. /\ leadTxn' = [leadTxn EXCEPT ![w] = y] /\ leadTxn[w].step = "begun"
      /\ leadTxn[w] \in Lead!Txn /\ Formed(leadTxn[w])
      /\ UNCHANGED <<status, kind, booking, opened, events, closedAt, now, leadRaced, overtaken>>
  BY DEF Lead!ChangeBooking, Lead!Begun, Lead!rows, Lead!ghosts, LeadInv, Lead!TypeOK
<1>2. y \in Lead!Txn /\ y.step = "lead"
  BY <1>1 DEF Lead!Txn, Lead!BookingStatus
<1>3. Formed(y)
  BY <1>1 DEF Lead!Txn, Formed, Lead!Terminal, Lead!TestDriveStatus
<1>4. \A j : Knows(y, j)
  BY <1>2 DEF Knows
<1>5. now \in 0 .. Transactions
  BY DEF LeadInv, Lead!TypeOK
<1> HIDE DEF y
<1> QED BY <1>1, <1>2, <1>3, <1>4, <1>5, LeadSessionMoves

(* The lead of a booking is read: it follows if it is open. *)
LEMMA SyncLeadKeeps == ASSUME LeadInv, NEW w \in Threads, Lead!SyncLead(w) PROVE LeadInv'
<1>1. PICK l \in leadTxn[w].of :
         \/ /\ Lead!Follows(l, leadTxn[w].book)
            /\ Lead!CloseInMemory(w, l, IF leadTxn[w].book = "completed" THEN "won" ELSE "lost")
         \/ /\ ~Lead!Follows(l, leadTxn[w].book)
            /\ leadTxn' = [leadTxn EXCEPT ![w].step = "commit"]
            /\ UNCHANGED <<status, kind, booking, opened, events, closedAt, now, leadRaced, overtaken>>
  BY DEF Lead!SyncLead, Lead!rows, Lead!ghosts
<1>2. /\ leadTxn[w].step = "lead" /\ l \in Leads /\ leadTxn[w] \in Lead!Txn /\ Formed(leadTxn[w])
      /\ now \in 0 .. Transactions
  BY DEF Lead!SyncLead, LeadInv, Lead!TypeOK, Lead!Txn
<1>3. CASE Lead!Follows(l, leadTxn[w].book)
  <2>1. /\ leadTxn[w].book # "expired"
        /\ (IF leadTxn[w].book = "completed" THEN "won" ELSE "lost") \in Lead!Terminal
    BY <1>3 DEF Lead!Follows, Lead!Over, Lead!Terminal
  <2> QED BY <1>1, <1>2, <1>3, <2>1, LeadCloseKeeps
<1>4. CASE ~Lead!Follows(l, leadTxn[w].book)
  <2> DEFINE y == [leadTxn[w] EXCEPT !.step = "commit"]
  <2>1. /\ leadTxn' = [leadTxn EXCEPT ![w] = y]
        /\ UNCHANGED <<status, kind, booking, opened, events, closedAt, now, leadRaced, overtaken>>
    BY <1>1, <1>4
  <2>2. /\ y \in Lead!Txn /\ y.step = "commit" /\ y.of = leadTxn[w].of /\ y.book = leadTxn[w].book
        /\ y.to = "same" /\ y.event = "same" /\ y.at = leadTxn[w].at
    BY <1>2 DEF Lead!Txn, Formed
  <2> HIDE DEF y
  <2>3. Formed(y)
    BY <1>2, <2>2 DEF Formed, Lead!Terminal
  <2>4. Knows(y, l)
    <3>1. leadTxn[w].book \in Lead!Over => status[l] \in Lead!Terminal
      BY <1>4 DEF Lead!Follows
    <3> QED BY <2>2, <3>1 DEF Knows
  <2>5. \A j \in y.of : j = l
    BY <1>2, <2>2 DEF Formed
  <2> QED BY <1>2, <2>1, <2>2, <2>3, <2>4, <2>5, LeadSessionMoves
<1> QED BY <1>3, <1>4

LEMMA ExpireDueKeeps ==
    ASSUME LeadInv, NEW w \in Threads, NEW l \in Leads, Lead!ExpireDue(w, l) PROVE LeadInv'
<1> DEFINE y == [leadTxn[w] EXCEPT !.step = "commit", !.of = {l}, !.book = "expired"]
<1>1. /\ leadTxn' = [leadTxn EXCEPT ![w] = y] /\ leadTxn[w].step = "idle"
      /\ leadTxn[w] \in Lead!Txn /\ Formed(leadTxn[w])
      /\ UNCHANGED <<status, kind, booking, opened, events, closedAt, now, leadRaced, overtaken>>
  BY DEF Lead!ExpireDue, Lead!Idle, Lead!rows, Lead!ghosts, LeadInv, Lead!TypeOK
<1>2. /\ y \in Lead!Txn /\ y.of = {l} /\ y.book = "expired" /\ y.to = "same" /\ y.event = "same"
  BY <1>1 DEF Lead!Txn, Lead!BookingStatus, Lead!ReservationStatus, Formed
<1>3. Formed(y)
  BY <1>1 DEF Lead!Txn, Formed, Lead!Terminal
<1>4. \A j : Knows(y, j)
  BY <1>2 DEF Knows, Lead!Over
<1>5. now \in 0 .. Transactions
  BY DEF LeadInv, Lead!TypeOK
<1> HIDE DEF y
<1> QED BY <1>1, <1>2, <1>3, <1>4, <1>5, LeadSessionMoves

LEMMA LeadAbortKeeps == ASSUME LeadInv, NEW w \in Threads, Lead!Abort(w) PROVE LeadInv'
<1>1. /\ leadTxn' = [leadTxn EXCEPT ![w] = Lead!NoTxn] /\ now' \in 0 .. Transactions
      /\ UNCHANGED <<status, kind, booking, opened, events, closedAt, leadRaced, overtaken>>
  BY DEF Lead!Abort, Lead!rows, Lead!ghosts, LeadInv, Lead!TypeOK
<1> QED BY <1>1, LeadNoSession, LeadSessionMoves

(* A commit.  What it says of the lead holds of the lead, unless another   *)
(* session has a row of it; those that have one know only of leads that    *)
(* are raced.                                                              *)
LEMMA LeadCommitKeeps == ASSUME LeadInv, NEW w \in Threads, Lead!Commit(w) PROVE LeadInv'
<1>1. PICK x : x = leadTxn[w]
  OBVIOUS
<1>2. /\ x.step = "commit" /\ UNCHANGED <<kind, opened, now>>
      /\ leadTxn' = [leadTxn EXCEPT ![w] = Lead!NoTxn]
      /\ status' = [l \in Leads |-> IF l \in x.of /\ x.to # "same" THEN x.to ELSE status[l]]
      /\ booking' = [l \in Leads |-> IF l \in x.of /\ x.book # "same" THEN x.book ELSE booking[l]]
      /\ events' = [l \in Leads |-> IF l \in x.of THEN events[l] \cup Lead!Recorded(x) ELSE events[l]]
      /\ closedAt' = [l \in Leads |-> [e \in Lead!Terminal |->
                         IF l \in x.of /\ x.to = e THEN x.closed ELSE closedAt[l][e]]]
  BY <1>1 DEF Lead!Commit
<1>3. /\ leadRaced' = leadRaced \cup {l \in x.of : \E u \in Threads \ {w} :
                                         l \in leadTxn[u].of /\ Lead!ShareRow(w, u)}
      /\ overtaken' = overtaken \cup {l \in x.of : Lead!Late(x, l)}
  BY <1>1 DEF Lead!Commit
<1>4. leadTxn'[w] = Lead!NoTxn /\ \A u \in Threads \ {w} : leadTxn'[u] = leadTxn[u]
  BY <1>2 DEF LeadInv, Lead!TypeOK
<1>5. /\ Formed(x) /\ x \in Lead!Txn /\ x.of \subseteq Leads
      /\ x.at \in 0 .. Transactions /\ x.closed \in 0 .. Transactions
      /\ x.to \in Lead!LeadStatus \cup {"same"} /\ x.event \in Lead!LeadStatus \cup {"same"}
      /\ x.book \in Lead!BookingStatus \cup {"same"}
  BY <1>1 DEF LeadInv, Lead!TypeOK, Lead!Txn
<1>6. Lead!TypeOK'
  <2>1. status' \in [Leads -> Lead!LeadStatus \cup {"absent"}] /\ booking' \in [Leads -> Lead!BookingStatus]
    BY <1>2, <1>5 DEF LeadInv, Lead!TypeOK
  <2>2. closedAt' \in [Leads -> [Lead!Terminal -> 0 .. Transactions]]
    BY <1>2, <1>5 DEF LeadInv, Lead!TypeOK
  <2>3. \A l \in Leads : events'[l] \subseteq Lead!Event
    <3>1. Lead!Recorded(x) \subseteq Lead!Event
      <4>1. x.event # "same" => x.at # 0
        BY <1>2, <1>5 DEF Formed
      <4> QED BY <1>5, <4>1, LeadsAssumption DEF Lead!Recorded, Lead!Event
    <3> QED BY <1>2, <3>1 DEF LeadInv, Lead!TypeOK
  <2>4. leadTxn' \in [Threads -> Lead!Txn]
    BY <1>2, LeadNoSession DEF LeadInv, Lead!TypeOK
  <2>5. leadRaced' \subseteq Leads /\ overtaken' \subseteq Leads
    BY <1>3, <1>5 DEF LeadInv, Lead!TypeOK
  <2> QED BY <1>2, <2>1, <2>2, <2>3, <2>4, <2>5 DEF LeadInv, Lead!TypeOK
<1>7. \A u \in Threads : Formed(leadTxn[u])'
  BY <1>4, LeadNoSession DEF LeadInv, Formed
<1>8. ASSUME NEW u \in Threads, NEW l \in leadTxn'[u].of, l \notin leadRaced'
      PROVE  Knows(leadTxn[u], l)'
  <2>1. u # w /\ l \in leadTxn[u].of /\ leadTxn'[u] = leadTxn[u] /\ l \notin leadRaced
    BY <1>3, <1>4, <1>8, LeadNoSession
  <2>2. Knows(leadTxn[u], l) /\ Formed(leadTxn[u]) /\ l \in Leads
    BY <2>1 DEF LeadInv, Lead!TypeOK, Lead!Txn
  <2>3. CASE l \notin x.of
    <3>1. status'[l] = status[l] /\ booking'[l] = booking[l]
      BY <1>2, <2>2, <2>3
    <3> QED BY <2>1, <2>2, <3>1 DEF Knows
  <2>4. CASE l \in x.of
    <3>1. ~ Lead!ShareRow(w, u)
      BY <1>3, <1>8, <2>1, <2>4
    <3>2. CASE x.book = "expired"
      <4>1. status'[l] = status[l] /\ booking'[l] = "expired"
        BY <1>2, <1>5, <2>2, <2>4, <3>2 DEF Formed
      <4>2. leadTxn[u].book = "same" \/ leadTxn[u].step = "idle"
        BY <1>1, <3>1, <3>2 DEF Lead!ShareRow, Lead!HasBooking
      <4> QED BY <2>1, <2>2, <4>1, <4>2 DEF Knows, Lead!Over
    <3>3. CASE x.book # "expired"
      <4>1. leadTxn[u].step = "commit" => leadTxn[u].book = "expired"
        BY <1>1, <1>2, <3>1, <3>3 DEF Lead!ShareRow, Lead!HasLead
      <4> QED BY <2>1, <2>2, <4>1 DEF Knows, Formed, Lead!Over
    <3> QED BY <3>2, <3>3
  <2> QED BY <2>3, <2>4
<1>9. ASSUME NEW l \in Leads \ leadRaced'
      PROVE  /\ booking'[l] \in Lead!Over => status'[l] \in Lead!Terminal
             /\ \A e \in Lead!Terminal : closedAt'[l][e] # 0 => status'[l] = e
  <2>1. l \notin leadRaced
    BY <1>3, <1>9
  <2>2. /\ booking[l] \in Lead!Over => status[l] \in Lead!Terminal
        /\ \A e \in Lead!Terminal : closedAt[l][e] # 0 => status[l] = e
    BY <2>1 DEF LeadInv, BookingAndLeadAgree, Lead!BookingAndLeadAgree
  <2>3. CASE l \notin x.of
    BY <1>2, <2>2, <2>3
  <2>4. CASE l \in x.of
    <3>1. Knows(x, l)
      BY <1>1, <2>1, <2>4 DEF LeadInv
    <3>2. /\ status'[l] = (IF x.to # "same" THEN x.to ELSE status[l])
          /\ booking'[l] = (IF x.book # "same" THEN x.book ELSE booking[l])
          /\ \A e \in Lead!Terminal : closedAt'[l][e] = IF x.to = e THEN x.closed ELSE closedAt[l][e]
      BY <1>2, <2>4
    <3>3. booking'[l] \in Lead!Over => status'[l] \in Lead!Terminal
      BY <1>2, <2>2, <3>1, <3>2 DEF Knows, Lead!Terminal
    <3>4. ASSUME NEW e \in Lead!Terminal, closedAt'[l][e] # 0 PROVE status'[l] = e
      <4>1. e # "same"
        BY DEF Lead!Terminal
      <4>2. CASE x.to = e
        BY <3>2, <4>1, <4>2
      <4>3. CASE x.to # e
        <5>1. status[l] = e
          BY <2>2, <3>2, <3>4, <4>3
        <5>2. x.to = "same"
          BY <1>2, <3>1, <5>1 DEF Knows
        <5> QED BY <3>2, <5>1, <5>2
      <4> QED BY <4>2, <4>3
    <3> QED BY <3>3, <3>4
  <2> QED BY <2>3, <2>4
<1>10. BookingAndLeadAgree'
  BY <1>9 DEF BookingAndLeadAgree, Lead!BookingAndLeadAgree
<1> QED BY <1>6, <1>7, <1>8, <1>10 DEF LeadInv

LEMMA LeadNextKeeps == ASSUME LeadInv, [Lead!Next]_lead PROVE LeadInv'
<1>1. CASE UNCHANGED lead
  BY <1>1 DEF lead, LeadInv, Formed, Knows, Lead!TypeOK, BookingAndLeadAgree, Lead!BookingAndLeadAgree
<1>2. CASE Lead!Next
  <2>1. PICK w \in Threads :
            \/ Lead!Authenticate(w) \/ Lead!Agent(w) \/ Lead!Customer(w) \/ Lead!Sweep(w)
            \/ Lead!SyncLead(w) \/ Lead!Commit(w) \/ Lead!Abort(w)
    BY <1>2 DEF Lead!Next
  <2>2. ASSUME NEW l \in Leads, NEW to \in Lead!TestDriveStatus, Lead!ChangeTestDrive(w, l, to)
        PROVE  LeadInv'
    BY <2>2, ChangeBookingKeeps DEF Lead!ChangeTestDrive
  <2>3. CASE Lead!Agent(w)
    <3>1. ASSUME NEW l \in Leads, Lead!CreateLead(w, l) PROVE LeadInv'
      BY <3>1, LeadOpenKeeps DEF Lead!CreateLead, Lead!LeadKind
    <3>2. ASSUME NEW l \in Leads, NEW to \in Stages, Lead!Advance(w, l, to) PROVE LeadInv'
      <4>1. to \in Lead!LeadStatus \ Lead!Terminal
        BY LeadsAssumption DEF Lead!LeadStatus, Lead!Terminal
      <4> QED BY <3>2, <4>1, AdvanceKeeps
    <3>3. ASSUME NEW l \in Leads, NEW to \in Lead!Terminal, Lead!Close(w, l, to) PROVE LeadInv'
      <4>1. leadTxn[w].step = "begun" /\ leadTxn[w].book # "expired"
        BY <3>3 DEF Lead!Close, Lead!Begun, LeadInv, Formed
      <4> QED BY <3>3, <4>1, LeadCloseKeeps DEF Lead!Close
    <3>4. ASSUME NEW l \in Leads, NEW to \in {"confirmed", "cancelled", "completed"},
                 Lead!ChangeTestDrive(w, l, to)
          PROVE  LeadInv'
      BY <2>2, <3>4 DEF Lead!TestDriveStatus
    <3> QED BY <2>3, <3>1, <3>2, <3>3, <3>4 DEF Lead!Agent
  <2>4. CASE Lead!Customer(w)
    <3>1. PICK l \in Leads :
              \/ Lead!RequestQuotation(w, l) \/ Lead!SubmitTradeIn(w, l)
              \/ Lead!CreateTestDrive(w, l) \/ Lead!CreateReservation(w, l)
              \/ Lead!CancelMyTestDrive(w, l) \/ Lead!CancelMyReservation(w, l)
      BY <2>4 DEF Lead!Customer
    <3>2. CASE \E k \in Lead!LeadKind : Lead!Open(w, l, k)
      BY <3>2, LeadOpenKeeps
    <3>3. CASE Lead!ChangeBooking(w, l, "cancelled")
      BY <3>3, ChangeBookingKeeps DEF Lead!TestDriveStatus
    <3> QED BY <3>1, <3>2, <3>3 DEF Lead!RequestQuotation, Lead!SubmitTradeIn, Lead!CreateTestDrive,
                Lead!CreateReservation, Lead!CancelMyTestDrive, Lead!CancelMyReservation,
                Lead!ChangeTestDrive, Lead!LeadKind
  <2>5. CASE Lead!Sweep(w)
    BY <2>5, ExpireDueKeeps DEF Lead!Sweep
  <2> QED BY <2>1, <2>3, <2>4, <2>5, AuthenticateKeeps, SyncLeadKeeps, LeadCommitKeeps, LeadAbortKeeps
<1> QED BY <1>1, <1>2

(* _sync_lead_for_test_drive, cancel_my_reservation: the lead of a test    *)
(* drive or a reservation that was completed or cancelled is closed, and a *)
(* lead is closed once, won or lost, for any number of leads, bookings,    *)
(* agents and customers at once and with the sweep beside them, but for    *)
(* leads of which two had one row at the same time and those whose booking *)
(* ended before leads followed it.                                         *)
THEOREM BookingsCloseLeads == BackOfficeSpec => []BookingAndLeadAgree
<1>1. BackOfficeInit => LeadInv
  BY LeadInitially DEF BackOfficeInit
<1>2. LeadInv /\ [BackOfficeNext]_backOfficeVars => LeadInv'
  BY OnePartMoves, LeadNextKeeps
<1>3. LeadInv => BookingAndLeadAgree
  BY DEF LeadInv
<1> QED BY <1>1, <1>2, <1>3, PTL DEF BackOfficeSpec

--------------------------------------------------------------------------------
(* The history of a lead.  The stages it went through are events that carry *)
(* the time their transaction began; of a lead for which none came late the *)
(* newest event says where it stands.                                       *)

Newest(l) == \E e \in events[l] :
    /\ e.to = status[l] /\ \A d \in events[l] : (d.at < e.at \/ d = e)
    /\ status[l] \in Lead!Terminal => closedAt[l][status[l]] # 0

(* A lead nobody moved since it was opened, or since there are events.      *)
Unmoved(l) ==
    /\ events[l] = {} /\ (opened[l] # 0 => status[l] = "new")
    /\ status[l] \in Lead!Terminal => closedAt[l][status[l]] > opened[l]

NewestEventTells == \A l \in Leads \ overtaken : Unmoved(l) \/ Newest(l)

(* Events are later than the lead and no two are of one time.               *)
InTime ==
    \A l \in Leads \ overtaken :
        /\ \A e \in events[l] : opened[l] < e.at
        /\ \A d, e \in events[l] : d.at = e.at => d = e

HistoryInv == LeadInv /\ InTime /\ NewestEventTells

LEMMA HistoryInitially == Lead!Init => HistoryInv
<1> SUFFICES ASSUME Lead!Init PROVE HistoryInv
  OBVIOUS
<1>1. InTime
  BY DEF Lead!Init, InTime
<1>2. NewestEventTells
  BY DEF Lead!Init, NewestEventTells, Unmoved
<1> QED BY <1>1, <1>2, LeadInitially DEF HistoryInv

(* Nothing is written that the history is read from. *)
LEMMA HistoryStays ==
    ASSUME HistoryInv, LeadInv', UNCHANGED <<status, opened, events, closedAt, overtaken>>
    PROVE  HistoryInv'
  BY DEF HistoryInv, InTime, NewestEventTells, Newest, Unmoved

LEMMA HistoryOpens ==
    ASSUME HistoryInv, NEW w \in Threads, NEW l \in Leads, NEW k, Lead!Open(w, l, k), LeadInv'
    PROVE  HistoryInv'
<1>1. /\ UNCHANGED <<events, closedAt, overtaken>> /\ status[l] = "absent"
      /\ status' = [status EXCEPT ![l] = "new"] /\ opened' = [opened EXCEPT ![l] = leadTxn[w].at]
  BY DEF Lead!Open, Lead!ghosts
<1>2. /\ status'[l] = "new"
      /\ \A j \in Leads \ {l} : status'[j] = status[j] /\ opened'[j] = opened[j]
  BY <1>1 DEF HistoryInv, LeadInv, Lead!TypeOK
<1>3. ~Newest(l)
  <2>1. \A e \in events[l] : e.to # "absent"
    BY DEF HistoryInv, LeadInv, Lead!TypeOK, Lead!Event, Lead!LeadStatus
  <2> QED BY <1>1, <2>1 DEF Newest
<1>4. ASSUME NEW j \in Leads \ overtaken
      PROVE  /\ \A e \in events[j] : opened'[j] < e.at
             /\ (Unmoved(j) \/ Newest(j))'
  <2>1. CASE j = l
    <3>1. events[l] = {}
      BY <1>3, <1>4, <2>1 DEF HistoryInv, NewestEventTells, Unmoved
    <3> QED BY <1>1, <1>2, <2>1, <3>1 DEF Unmoved, Lead!Terminal
  <2>2. CASE j # l
    BY <1>1, <1>2, <1>4, <2>2 DEF HistoryInv, InTime, NewestEventTells, Unmoved, Newest
  <2> QED BY <2>1, <2>2
<1> QED BY <1>1, <1>4 DEF HistoryInv, NewestEventTells, InTime

(* What a session writes is newer than what there is, or it came late.      *)
LEMMA HistoryCommits ==
    ASSUME HistoryInv, NEW w \in Threads, Lead!Commit(w), LeadInv' PROVE HistoryInv'
<1>1. PICK x : x = leadTxn[w]
  OBVIOUS
<1>2. /\ UNCHANGED opened
      /\ status' = [l \in Leads |-> IF l \in x.of /\ x.to # "same" THEN x.to ELSE status[l]]
      /\ events' = [l \in Leads |-> IF l \in x.of THEN events[l] \cup Lead!Recorded(x) ELSE events[l]]
      /\ closedAt' = [l \in Leads |-> [e \in Lead!Terminal |->
                         IF l \in x.of /\ x.to = e THEN x.closed ELSE closedAt[l][e]]]
      /\ overtaken' = overtaken \cup {l \in x.of : Lead!Late(x, l)}
  BY <1>1 DEF Lead!Commit
<1>3. Formed(x) /\ x.at \in Nat /\ x.event \in Lead!LeadStatus \cup {"same"}
  BY <1>1, LeadsAssumption DEF HistoryInv, LeadInv, Lead!TypeOK, Lead!Txn
<1>4. ASSUME NEW l \in Leads \ overtaken'
      PROVE  /\ \A e \in events'[l] : opened'[l] < e.at
             /\ \A d, e \in events'[l] : d.at = e.at => d = e
             /\ (Unmoved(l) \/ Newest(l))'
  <2>1. /\ l \notin overtaken /\ (Unmoved(l) \/ Newest(l))
        /\ \A e \in events[l] : opened[l] < e.at
        /\ \A d, e \in events[l] : d.at = e.at => d = e
    BY <1>2, <1>4 DEF HistoryInv, NewestEventTells, InTime
  <2>2. opened[l] \in Nat /\ \A e \in events[l] : e.at \in Nat
    BY LeadsAssumption DEF HistoryInv, LeadInv, Lead!TypeOK, Lead!Event
  <2>3. CASE l \notin x.of \/ x.event = "same"
    <3>1. l \in x.of => x.to = "same" /\ Lead!Recorded(x) = {}
      BY <1>3, <2>3 DEF Formed, Lead!Recorded
    <3>2. status'[l] = status[l] /\ events'[l] = events[l] /\ opened'[l] = opened[l]
      BY <1>2, <3>1
    <3>3. \A e \in Lead!Terminal : closedAt'[l][e] = closedAt[l][e]
      BY <1>2, <3>1 DEF Lead!Terminal
    <3> QED BY <2>1, <3>2, <3>3 DEF Unmoved, Newest
  <2>4. CASE l \in x.of /\ x.event # "same"
    <3>1. PICK e : e = [to |-> x.event, at |-> x.at]
      OBVIOUS
    <3>2. e.to = x.event /\ e.at = x.at /\ events'[l] = events[l] \cup {e} /\ opened'[l] = opened[l]
      BY <1>2, <2>4, <3>1 DEF Lead!Recorded
    <3>3. ~ Lead!Late(x, l)
      BY <1>2, <1>4, <2>4
    <3>4. opened[l] < e.at /\ \A d \in events[l] : d.at < e.at
      <4>1. ~(x.at <= opened[l])
        BY <2>4, <3>3 DEF Lead!Late
      <4>2. ASSUME NEW d \in events[l] PROVE ~(x.at <= d.at)
        BY <2>4, <3>3 DEF Lead!Late
      <4> QED BY <1>3, <2>2, <3>2, <4>1, <4>2
    <3>5. status'[l] = e.to
      BY <1>2, <1>3, <2>4, <3>2, <3>3 DEF Lead!Late, Formed
    <3>6. status'[l] \in Lead!Terminal => closedAt'[l][status'[l]] # 0
      <4>1. x.event \in Lead!Terminal => x.to = x.event /\ x.closed # 0
        BY <1>3 DEF Formed
      <4> QED BY <1>2, <2>4, <3>2, <3>5, <4>1
    <3>7. Newest(l)'
      BY <3>2, <3>4, <3>5, <3>6 DEF Newest
    <3>8. \A c, d \in events'[l] : c.at = d.at => c = d
      <4> SUFFICES ASSUME NEW c \in events'[l], NEW d \in events'[l], c.at = d.at PROVE c = d
        OBVIOUS
      <4>1. CASE c \in events[l] /\ d \in events[l]
        BY <2>1, <4>1
      <4>2. CASE c = e /\ d = e
        BY <4>2
      <4>3. CASE (c = e /\ d \in events[l]) \/ (c \in events[l] /\ d = e)
        <5>1. x.at < x.at
          BY <3>2, <3>4, <4>3
        <5> QED BY <1>3, <5>1
      <4> QED BY <3>2, <4>1, <4>2, <4>3
    <3> QED BY <2>1, <3>2, <3>4, <3>7, <3>8
  <2> QED BY <2>3, <2>4
<1>5. InTime'
  BY <1>4 DEF InTime
<1>6. NewestEventTells'
  BY <1>4 DEF NewestEventTells
<1> QED BY <1>5, <1>6 DEF HistoryInv

LEMMA HistoryNextKeeps == ASSUME HistoryInv, [Lead!Next]_lead PROVE HistoryInv'
<1>1. LeadInv'
  BY LeadNextKeeps DEF HistoryInv
<1>2. CASE UNCHANGED lead
  BY <1>1, <1>2, HistoryStays DEF lead
<1>3. CASE Lead!Next
  <2>1. PICK w \in Threads :
            \/ Lead!Authenticate(w) \/ Lead!Agent(w) \/ Lead!Customer(w) \/ Lead!Sweep(w)
            \/ Lead!SyncLead(w) \/ Lead!Commit(w) \/ Lead!Abort(w)
    BY <1>3 DEF Lead!Next
  <2>2. ASSUME NEW l \in Leads, NEW k, Lead!Open(w, l, k) PROVE HistoryInv'
    BY <1>1, <2>2, HistoryOpens
  <2>3. ASSUME UNCHANGED <<status, kind, booking, opened, events, closedAt, leadRaced, overtaken>>
        PROVE  HistoryInv'
    BY <1>1, <2>3, HistoryStays
  <2>4. ASSUME NEW l \in Leads, NEW to, Lead!ChangeBooking(w, l, to) PROVE HistoryInv'
    BY <2>3, <2>4 DEF Lead!ChangeBooking, Lead!rows, Lead!ghosts
  <2>5. CASE Lead!Agent(w)
    <3>1. ASSUME NEW l \in Leads, NEW to, Lead!Advance(w, l, to) PROVE HistoryInv'
      BY <2>3, <3>1 DEF Lead!Advance, Lead!rows, Lead!ghosts
    <3>2. ASSUME NEW l \in Leads, NEW to, Lead!Close(w, l, to) PROVE HistoryInv'
      BY <2>3, <3>2 DEF Lead!Close, Lead!CloseInMemory, Lead!rows, Lead!ghosts
    <3> QED BY <2>2, <2>4, <2>5, <3>1, <3>2 DEF Lead!Agent, Lead!CreateLead, Lead!ChangeTestDrive
  <2>6. CASE Lead!Customer(w)
    BY <2>2, <2>4, <2>6
       DEF Lead!Customer, Lead!RequestQuotation, Lead!SubmitTradeIn, Lead!CreateTestDrive,
           Lead!CreateReservation, Lead!CancelMyTestDrive, Lead!CancelMyReservation,
           Lead!ChangeTestDrive
  <2>7. CASE Lead!SyncLead(w)
    BY <2>3, <2>7 DEF Lead!SyncLead, Lead!CloseInMemory, Lead!rows, Lead!ghosts
  <2>8. CASE Lead!Authenticate(w) \/ Lead!Sweep(w) \/ Lead!Abort(w)
    BY <2>3, <2>8 DEF Lead!Authenticate, Lead!Sweep, Lead!ExpireDue, Lead!Abort, Lead!rows, Lead!ghosts
  <2> QED BY <1>1, <2>1, <2>5, <2>6, <2>7, <2>8, HistoryCommits
<1> QED BY <1>2, <1>3

(* leads/tracking.py reads a customer's history off the events: the newest  *)
(* one names the stage the lead is at, and the lead has its time of closing *)
(* if that is won or lost, for any number of leads, agents and customers,   *)
(* whether or not they held it at once, but for leads with an event that    *)
(* came late and those nobody moved since there are events.                 *)
THEOREM NewestEventIsTheStage == BackOfficeSpec => []NewestEventTells
<1>1. BackOfficeInit => HistoryInv
  BY HistoryInitially DEF BackOfficeInit
<1>2. HistoryInv /\ [BackOfficeNext]_backOfficeVars => HistoryInv'
  BY OnePartMoves, HistoryNextKeeps
<1>3. HistoryInv => NewestEventTells
  BY DEF HistoryInv
<1> QED BY <1>1, <1>2, <1>3, PTL DEF BackOfficeSpec

--------------------------------------------------------------------------------
(* Numbers: a set of natural numbers has a least one, and a greatest one   *)
(* if it is bounded.                                                       *)

Below == {p \in Nat \X Nat : p[1] < p[2]}

LEMMA BelowWellFounded == IsWellFoundedOn(Below, Nat)
BY NatLessThanWellFounded, Zenon DEF OpToRel, Below

LEMMA LeastExists ==
    ASSUME NEW S \in SUBSET Nat, S # {} PROVE \E m \in S : \A n \in S : m <= n
<1>1. \E m \in S : \A n \in S : ~ (<<n, m>> \in Below)
  BY BelowWellFounded, WFMin
<1>2. ASSUME NEW n \in Nat, NEW m \in Nat, ~ (<<n, m>> \in Below) PROVE m <= n
  BY <1>2 DEF Below
<1> QED BY <1>1, <1>2

LEMMA GreatestExists ==
    ASSUME NEW S \in SUBSET Nat, S # {}, NEW b \in Nat, \A n \in S : n <= b
    PROVE  \E m \in S : \A n \in S : n <= m
<1> DEFINE U == {u \in Nat : \A n \in S : n <= u}
<1>1. PICK u \in U : \A v \in U : u <= v
  <2>1. U \in SUBSET Nat /\ U # {}
    OBVIOUS
  <2> HIDE DEF U
  <2> QED BY <2>1, LeastExists
<1>2. u \in S
  <2> SUFFICES ASSUME u \notin S PROVE FALSE
    OBVIOUS
  <2>1. PICK s \in S : TRUE
    OBVIOUS
  <2>2. u - 1 \in Nat /\ \A n \in S : n <= u - 1
    BY <1>1, <2>1
  <2> QED BY <1>1, <2>2
<1> QED BY <1>1, <1>2

--------------------------------------------------------------------------------
(* The history a customer reads is a fold over the events in order of time. *)
(* What a fold leaves is shown by least counterexample: a set of numbers    *)
(* with a member has a least one.                                           *)

Unfolds(base, r, q, k) ==
    r = [s \in SUBSET (1 .. k) |->
           IF s = {} THEN base
           ELSE Lead!Collapse(r[s \ {Lead!Max(s)}], q[Lead!Max(s)])]

LEMMA FoldIsUnfolded ==
    ASSUME NEW base, NEW q, NEW n, DOMAIN q = 1 .. n
    PROVE  Lead!FoldLeft(Lead!Collapse, base, q)
              = (CHOOSE r : Unfolds(base, r, q, n))[1 .. n]
  BY DEF Lead!FoldLeft, Lead!MapThenFoldSet, Unfolds

LEMMA MaxOfNumbers ==
    ASSUME NEW k \in Nat, NEW s \in SUBSET (1 .. k), s # {}
    PROVE  Lead!Max(s) \in s /\ \A i \in s : Lead!Max(s) >= i
<1>1. \E m \in s : \A i \in s : i <= m
  <2>1. s \in SUBSET Nat /\ \A i \in s : i <= k
    OBVIOUS
  <2> QED BY <2>1, GreatestExists
<1>2. \E m \in s : \A i \in s : m >= i
  BY <1>1
<1> QED BY <1>2 DEF Lead!Max

(* A fold over k events extends to one over k + 1. *)
LEMMA UnfoldsOnce ==
    ASSUME NEW base, NEW q, NEW k \in Nat, NEW r, Unfolds(base, r, q, k)
    PROVE  \E t : Unfolds(base, t, q, k + 1)
<1> DEFINE t == [s \in SUBSET (1 .. k + 1) |->
                   IF k + 1 \in s THEN Lead!Collapse(r[s \ {k + 1}], q[k + 1]) ELSE r[s]]
<1>1. ASSUME NEW s \in SUBSET (1 .. k + 1)
      PROVE  t[s] = IF s = {} THEN base
                    ELSE Lead!Collapse(t[s \ {Lead!Max(s)}], q[Lead!Max(s)])
  <2>1. CASE k + 1 \in s
    <3>1. Lead!Max(s) = k + 1
      <4>1. Lead!Max(s) \in s /\ \A i \in s : Lead!Max(s) >= i
        <5>1. k + 1 \in Nat /\ s # {}
          BY <2>1
        <5> QED BY <5>1, MaxOfNumbers
      <4>2. ASSUME NEW m \in s, \A i \in s : m >= i PROVE m = k + 1
        <5>1. m \in 1 .. k + 1 /\ m >= k + 1
          BY <2>1, <4>2
        <5> QED BY <5>1
      <4> QED BY <4>1, <4>2
    <3>2. s \ {k + 1} \in SUBSET (1 .. k + 1) /\ k + 1 \notin s \ {k + 1}
      OBVIOUS
    <3>3. t[s \ {k + 1}] = r[s \ {k + 1}]
      BY <3>2
    <3>4. t[s] = Lead!Collapse(r[s \ {k + 1}], q[k + 1])
      BY <2>1
    <3> QED BY <2>1, <3>1, <3>3, <3>4
  <2>2. CASE k + 1 \notin s
    <3>1. s \in SUBSET (1 .. k) /\ t[s] = r[s]
      BY <2>2
    <3>2. t[s \ {Lead!Max(s)}] = r[s \ {Lead!Max(s)}]
      BY <2>2
    <3>3. r[s] = IF s = {} THEN base
                 ELSE Lead!Collapse(r[s \ {Lead!Max(s)}], q[Lead!Max(s)])
      BY <3>1, Zenon DEF Unfolds
    <3> QED BY <3>1, <3>2, <3>3
  <2> QED BY <2>1, <2>2
<1>2. t = [s \in SUBSET (1 .. k + 1) |-> t[s]]
  OBVIOUS
<1> HIDE DEF t
<1>3. t = [s \in SUBSET (1 .. k + 1) |->
             IF s = {} THEN base
             ELSE Lead!Collapse(t[s \ {Lead!Max(s)}], q[Lead!Max(s)])]
  BY <1>1, <1>2, Zenon
<1>4. Unfolds(base, t, q, k + 1)
  BY <1>3, Zenon DEF Unfolds
<1> QED BY <1>4

LEMMA UnfoldsExist == ASSUME NEW base, NEW q, NEW n \in Nat PROVE \E r : Unfolds(base, r, q, n)
<1> DEFINE Bad == {k \in Nat : ~ \E r : Unfolds(base, r, q, k)}
<1> SUFFICES Bad = {}
  OBVIOUS
<1> SUFFICES ASSUME Bad # {} PROVE FALSE
  OBVIOUS
<1>1. Bad \in SUBSET Nat
  OBVIOUS
<1> HIDE DEF Bad
<1>2. PICK m \in Bad : \A k \in Bad : m <= k
  BY <1>1, LeastExists
<1>3. CASE m = 0
  <2> DEFINE r == [s \in SUBSET (1 .. 0) |-> base]
  <2>1. SUBSET (1 .. 0) = {{}}
    OBVIOUS
  <2>2. r = [s \in SUBSET (1 .. 0) |->
               IF s = {} THEN base
               ELSE Lead!Collapse(r[s \ {Lead!Max(s)}], q[Lead!Max(s)])]
    BY <2>1, Zenon
  <2> HIDE DEF r
  <2>3. Unfolds(base, r, q, 0)
    BY <2>2, Zenon DEF Unfolds
  <2> QED BY <1>2, <1>3, <2>3 DEF Bad
<1>4. CASE m # 0
  <2>1. m - 1 \in Nat /\ m - 1 \notin Bad /\ (m - 1) + 1 = m
    BY <1>1, <1>2, <1>4
  <2>2. PICK r : Unfolds(base, r, q, m - 1)
    BY <2>1 DEF Bad
  <2>3. \E t : Unfolds(base, t, q, m)
    BY <2>1, <2>2, UnfoldsOnce
  <2> QED BY <1>2, <2>3 DEF Bad
<1> QED BY <1>3, <1>4

(* The history after each event. *)
LEMMA FoldStepByStep ==
    ASSUME NEW base, NEW q, NEW n \in Nat, DOMAIN q = 1 .. n
    PROVE  \E h : /\ h[0] = base
                  /\ \A k \in 1 .. n : h[k] = Lead!Collapse(h[k - 1], q[k])
                  /\ h[n] = Lead!FoldLeft(Lead!Collapse, base, q)
<1>1. PICK r : r = CHOOSE t : Unfolds(base, t, q, n)
  OBVIOUS
<1>2. Unfolds(base, r, q, n)
  BY <1>1, UnfoldsExist
<1> DEFINE h == [k \in 0 .. n |-> r[1 .. k]]
<1>3. h[0] = base
  <2>1. 1 .. 0 = {} /\ {} \in SUBSET (1 .. n)
    OBVIOUS
  <2>2. r[{}] = base
    BY <1>2, <2>1, Zenon DEF Unfolds
  <2> QED BY <2>1, <2>2
<1>4. ASSUME NEW k \in 1 .. n PROVE h[k] = Lead!Collapse(h[k - 1], q[k])
  <2>1. 1 .. k \in SUBSET (1 .. n) /\ 1 .. k # {} /\ k \in Nat
    OBVIOUS
  <2>2. Lead!Max(1 .. k) \in 1 .. k /\ \A i \in 1 .. k : Lead!Max(1 .. k) >= i
    BY <2>1, MaxOfNumbers
  <2>3. Lead!Max(1 .. k) = k /\ (1 .. k) \ {k} = 1 .. k - 1
    BY <2>2
  <2>4. r[1 .. k] = Lead!Collapse(r[(1 .. k) \ {Lead!Max(1 .. k)}], q[Lead!Max(1 .. k)])
    BY <1>2, <2>1, Zenon DEF Unfolds
  <2>5. r[1 .. k] = Lead!Collapse(r[1 .. k - 1], q[k])
    BY <2>3, <2>4
  <2>6. h[k] = r[1 .. k] /\ h[k - 1] = r[1 .. k - 1]
    OBVIOUS
  <2> QED BY <2>5, <2>6
<1>5. h[n] = Lead!FoldLeft(Lead!Collapse, base, q)
  BY <1>1, FoldIsUnfolded
<1> QED BY <1>3, <1>4, <1>5

(* A history: no two rows in a row say the same, and they are in order of  *)
(* time.                                                                   *)
HistoryRow == [stage : {"submitted", "under_review", "in_progress", "converted", "closed"},
               at : Nat]
Readable(s) ==
    /\ s \in Seq(HistoryRow) /\ Len(s) >= 1
    /\ \A i \in 1 .. Len(s) - 1 : s[i].stage # s[i + 1].stage
    /\ \A i, j \in 1 .. Len(s) : i < j => s[i].at < s[j].at
Until(s, start) == \A i \in 1 .. Len(s) : s[i].at <= start

Submitted(start) == <<[stage |-> "submitted", at |-> start]>>

LEMMA SubmittedReads ==
    ASSUME NEW start \in Nat
    PROVE  Readable(Submitted(start)) /\ Until(Submitted(start), start) /\ Len(Submitted(start)) = 1
<1>1. [stage |-> "submitted", at |-> start] \in HistoryRow
  BY DEF HistoryRow
<1> QED BY <1>1 DEF Submitted, Readable, Until

LEMMA CollapseReads ==
    ASSUME NEW s, Readable(s), NEW before \in Nat, Until(s, before),
           NEW e \in Lead!Event, before < e.at,
           NEW t, t = Lead!Collapse(s, e)
    PROVE  Readable(t) /\ Until(t, e.at) /\ Lead!Last(t).stage = Lead!StageOf(e.to)
<1>1. /\ e.at \in Nat /\ Len(s) \in Nat
      /\ \A i \in 1 .. Len(s) : s[i] \in HistoryRow /\ s[i].at \in Nat /\ s[i].at < e.at
  <2>1. e.at \in Nat
    BY LeadsAssumption DEF Lead!Event
  <2>2. Len(s) \in Nat /\ \A i \in 1 .. Len(s) : s[i] \in HistoryRow
    BY LenProperties, ElementOfSeq DEF Readable
  <2>3. \A i \in 1 .. Len(s) : s[i].at \in Nat /\ s[i].at <= before
    BY <2>2 DEF Until, HistoryRow
  <2> QED BY <2>1, <2>2, <2>3
<1>2. CASE Lead!Last(s).stage = Lead!StageOf(e.to)
  <2>1. t = s
    BY <1>2 DEF Lead!Collapse
  <2> QED BY <1>1, <1>2, <2>1 DEF Until
<1>3. CASE Lead!Last(s).stage # Lead!StageOf(e.to)
  <2>1. PICK row : row = [stage |-> Lead!StageOf(e.to), at |-> e.at]
    OBVIOUS
  <2>2. row \in HistoryRow /\ row.stage = Lead!StageOf(e.to) /\ row.at = e.at
    BY <2>1, LeadsAssumption DEF HistoryRow, Lead!Event, Lead!LeadStatus, Lead!StageOf
  <2>3. t = Append(s, row)
    BY <1>3, <2>1 DEF Lead!Collapse
  <2>4. /\ t \in Seq(HistoryRow) /\ Len(t) = Len(s) + 1 /\ t[Len(s) + 1] = row
        /\ \A i \in 1 .. Len(s) : t[i] = s[i]
    BY <2>2, <2>3, AppendProperties DEF Readable
  <2>5. s[Len(s)].stage # row.stage
    BY <1>3, <2>2 DEF Lead!Last
  <2>6. ASSUME NEW i \in 1 .. Len(t) - 1 PROVE t[i].stage # t[i + 1].stage
    <3>1. CASE i = Len(s)
      BY <2>4, <2>5, <3>1 DEF Readable
    <3>2. CASE i # Len(s)
      <4>1. i \in 1 .. Len(s) - 1 /\ i \in 1 .. Len(s) /\ i + 1 \in 1 .. Len(s)
        BY <1>1, <2>4, <3>2
      <4> QED BY <2>4, <4>1 DEF Readable
    <3> QED BY <3>1, <3>2
  <2>7. ASSUME NEW i \in 1 .. Len(t), NEW j \in 1 .. Len(t), i < j PROVE t[i].at < t[j].at
    <3>1. i \in 1 .. Len(s) /\ t[i] = s[i]
      BY <1>1, <2>4, <2>7
    <3>2. CASE j = Len(s) + 1
      BY <1>1, <2>2, <2>4, <3>1, <3>2
    <3>3. CASE j # Len(s) + 1
      <4>1. j \in 1 .. Len(s) /\ t[j] = s[j]
        BY <1>1, <2>4, <3>3
      <4> QED BY <2>7, <3>1, <4>1 DEF Readable
    <3> QED BY <3>2, <3>3
  <2>8. ASSUME NEW i \in 1 .. Len(t) PROVE t[i].at <= e.at
    BY <1>1, <2>2, <2>4
  <2>9. Lead!Last(t) = row
    BY <2>4 DEF Lead!Last
  <2>10. Len(t) >= 1
    BY <1>1, <2>4
  <2> QED BY <2>2, <2>4, <2>6, <2>7, <2>8, <2>9, <2>10 DEF Readable, Until
<1> QED BY <1>2, <1>3

LEMMA FoldReads ==
    ASSUME NEW start \in Nat, NEW q, NEW n \in Nat, DOMAIN q = 1 .. n,
           \A k \in 1 .. n : q[k] \in Lead!Event /\ start < q[k].at,
           \A j, k \in 1 .. n : j < k => q[j].at < q[k].at,
           NEW s, s = Lead!FoldLeft(Lead!Collapse, Submitted(start), q)
    PROVE  /\ Readable(s)
           /\ n = 0 => s = Submitted(start)
           /\ n > 0 => Lead!Last(s).stage = Lead!StageOf(q[n].to)
<1> DEFINE Stepwise(base) ==
             \E h : /\ h[0] = base
                    /\ \A k \in 1 .. n : h[k] = Lead!Collapse(h[k - 1], q[k])
                    /\ h[n] = Lead!FoldLeft(Lead!Collapse, base, q)
<1>0. Stepwise(Submitted(start))
  <2>1. ASSUME NEW base PROVE Stepwise(base)
    BY FoldStepByStep
  <2> HIDE DEF Stepwise
  <2> QED BY <2>1
<1>1. PICK h : /\ h[0] = Submitted(start)
               /\ \A k \in 1 .. n : h[k] = Lead!Collapse(h[k - 1], q[k])
               /\ h[n] = s
  BY <1>0
<1> HIDE DEF Stepwise
<1> DEFINE upto(k) == IF k = 0 THEN start ELSE q[k].at
           Good(k) == Readable(h[k]) /\ Until(h[k], upto(k))
<1>2. Good(0)
  BY <1>1, SubmittedReads
<1>3. ASSUME NEW k \in 1 .. n, Good(k - 1)
      PROVE  Good(k) /\ Lead!Last(h[k]).stage = Lead!StageOf(q[k].to)
  <2>1. upto(k - 1) \in Nat /\ upto(k - 1) < q[k].at
    <3>1. CASE k = 1
      BY <3>1
    <3>2. CASE k # 1
      <4>1. k - 1 \in 1 .. n /\ k - 1 < k /\ k - 1 # 0
        BY <3>2
      <4>2. q[k - 1].at \in Nat
        BY <4>1, LeadsAssumption DEF Lead!Event
      <4> QED BY <4>1, <4>2
    <3> QED BY <3>1, <3>2
  <2>2. upto(k) = q[k].at /\ q[k] \in Lead!Event
    OBVIOUS
  <2>3. PICK before \in Nat : before = upto(k - 1)
    BY <2>1
  <2>4. Readable(h[k - 1]) /\ Until(h[k - 1], before) /\ before < q[k].at
    BY <1>3, <2>1, <2>3
  <2>5. h[k] = Lead!Collapse(h[k - 1], q[k])
    BY <1>1
  <2> HIDE DEF upto
  <2>6. Readable(h[k]) /\ Until(h[k], q[k].at) /\ Lead!Last(h[k]).stage = Lead!StageOf(q[k].to)
    BY <2>2, <2>4, <2>5, CollapseReads
  <2> QED BY <2>2, <2>6
<1> HIDE DEF Good
<1> DEFINE Bad == {k \in 0 .. n : ~ Good(k)}
<1>4. Bad = {}
  <2> SUFFICES ASSUME Bad # {} PROVE FALSE
    OBVIOUS
  <2>1. Bad \in SUBSET Nat /\ Bad \subseteq 0 .. n
    OBVIOUS
  <2> HIDE DEF Bad
  <2>2. PICK m \in Bad : \A k \in Bad : m <= k
    BY <2>1, LeastExists
  <2>3. m # 0 /\ m \in 0 .. n
    BY <1>2, <2>1, <2>2 DEF Bad
  <2>4. m - 1 \in 0 .. n /\ m \in 1 .. n /\ m - 1 \notin Bad
    BY <2>1, <2>2, <2>3
  <2>5. Good(m - 1)
    BY <2>4 DEF Bad
  <2>6. Good(m)
    BY <1>3, <2>4, <2>5
  <2> QED BY <2>2, <2>6 DEF Bad
<1>5. Readable(s)
  BY <1>1, <1>4 DEF Good
<1>6. ASSUME n > 0 PROVE Lead!Last(s).stage = Lead!StageOf(q[n].to)
  <2>1. n \in 1 .. n /\ n - 1 \in 0 .. n
    BY <1>6
  <2> QED BY <1>1, <1>3, <1>4, <2>1
<1> QED BY <1>1, <1>5, <1>6

(* InOrder puts a finite set of rows of different times in order of time.  *)
Earlier(E, e) == {d \in E : d.at < e.at}

LEMMA EarlierAreFewer ==
    ASSUME NEW E, IsFiniteSet(E), \A e \in E : e.at \in Nat,
           NEW d \in E, NEW e \in E, d.at < e.at
    PROVE  Cardinality(Earlier(E, d)) < Cardinality(Earlier(E, e))
<1>1. /\ Earlier(E, d) \subseteq Earlier(E, e) /\ d \in Earlier(E, e) /\ d \notin Earlier(E, d)
  <2>1. \A c \in E : c.at < d.at => c.at < e.at
    OBVIOUS
  <2> QED BY <2>1 DEF Earlier
<1>2. Earlier(E, e) \in SUBSET E
  BY DEF Earlier
<1>3. IsFiniteSet(Earlier(E, e))
  BY <1>2, FS_Subset
<1>4. /\ IsFiniteSet(Earlier(E, d))
      /\ Cardinality(Earlier(E, d)) <= Cardinality(Earlier(E, e))
      /\ Cardinality(Earlier(E, e)) = Cardinality(Earlier(E, d)) => Earlier(E, e) = Earlier(E, d)
  <2> DEFINE A == Earlier(E, d)
             B == Earlier(E, e)
  <2>1. A \in SUBSET B /\ IsFiniteSet(B)
    BY <1>1, <1>3
  <2> HIDE DEF A, B
  <2>2. IsFiniteSet(A) /\ Cardinality(A) <= Cardinality(B) /\ (Cardinality(B) = Cardinality(A) => B = A)
    BY <2>1, FS_Subset
  <2> QED BY <2>2 DEF A, B
<1>5. Cardinality(Earlier(E, d)) \in Nat /\ Cardinality(Earlier(E, e)) \in Nat
  BY <1>3, <1>4, FS_CardinalityType
<1> QED BY <1>1, <1>4, <1>5

LEMMA InOrderSorts ==
    ASSUME NEW E, IsFiniteSet(E), \A e \in E : e.at \in Nat,
           \A d, e \in E : d.at = e.at => d = e
    PROVE  /\ Cardinality(E) \in Nat
           /\ Lead!InOrder(E) \in [1 .. Cardinality(E) -> E]
           /\ \A e \in E : \E k \in 1 .. Cardinality(E) : Lead!InOrder(E)[k] = e
           /\ \A j, k \in 1 .. Cardinality(E) :
                 j < k => Lead!InOrder(E)[j].at < Lead!InOrder(E)[k].at
<1> DEFINE n == Cardinality(E)
           q == Lead!InOrder(E)
           Rank(e) == Cardinality(Earlier(E, e)) + 1
           f == [e \in E |-> Rank(e)]
<1>1. n \in Nat
  BY FS_CardinalityType
<1>2. ASSUME NEW e \in E PROVE Rank(e) \in 1 .. n
  <2>1. Earlier(E, e) \in SUBSET E /\ e \notin Earlier(E, e)
    BY DEF Earlier
  <2>2. /\ IsFiniteSet(Earlier(E, e)) /\ Cardinality(Earlier(E, e)) <= n
        /\ n = Cardinality(Earlier(E, e)) => E = Earlier(E, e)
    BY <2>1, FS_Subset
  <2>3. Cardinality(Earlier(E, e)) \in Nat
    BY <2>2, FS_CardinalityType
  <2> HIDE DEF n
  <2> QED BY <1>1, <2>1, <2>2, <2>3
<1>3. ASSUME NEW d \in E, NEW e \in E, d.at < e.at PROVE Rank(d) < Rank(e)
  <2>1. Cardinality(Earlier(E, d)) < Cardinality(Earlier(E, e))
    BY <1>3, EarlierAreFewer
  <2>2. Rank(d) \in Nat /\ Rank(e) \in Nat
    BY <1>1, <1>2
  <2>3. /\ Earlier(E, d) \in SUBSET E /\ Earlier(E, e) \in SUBSET E
    BY DEF Earlier
  <2>4. Cardinality(Earlier(E, d)) \in Nat /\ Cardinality(Earlier(E, e)) \in Nat
    BY <2>3, FS_Subset, FS_CardinalityType
  <2> QED BY <2>1, <2>4
<1>4. ASSUME NEW d \in E, NEW e \in E, Rank(d) = Rank(e) PROVE d = e
  <2>1. d.at \in Nat /\ e.at \in Nat /\ Rank(d) \in Nat /\ Rank(e) \in Nat
    BY <1>1, <1>2
  <2>2. ~ (d.at < e.at) /\ ~ (e.at < d.at)
    <3> HIDE DEF Rank
    <3> QED BY <1>3, <1>4, <2>1
  <2> QED BY <2>1, <2>2
<1> HIDE DEF Rank
<1>5. f \in Surjection(E, 1 .. n)
  <2>1. f \in Injection(E, 1 .. n)
    <3>1. f \in [E -> 1 .. n]
      BY <1>2
    <3>2. \A d, e \in E : f[d] = f[e] => d = e
      BY <1>4
    <3> HIDE DEF f
    <3> QED BY <3>1, <3>2 DEF Injection, IsInjective
  <2>2. IsFiniteSet(1 .. n) /\ Cardinality(1 .. n) = n
    BY <1>1, FS_Interval
  <2> HIDE DEF f, n
  <2>3. Cardinality(E) = Cardinality(1 .. n)
    BY <2>2 DEF n
  <2> QED BY <2>1, <2>2, <2>3, FS_Injection
<1>6. \A k \in 1 .. n : \E e \in E : Rank(e) = k
  BY <1>5 DEF Surjection
<1>7. q = [k \in 1 .. n |-> CHOOSE e \in E : Cardinality(Earlier(E, e)) = k - 1]
  BY Zenon DEF Lead!InOrder, Earlier, Lead!Cardinality, Cardinality
<1>8. ASSUME NEW k \in 1 .. n PROVE q[k] \in E /\ Rank(q[k]) = k
  <2>1. q[k] = CHOOSE e \in E : Cardinality(Earlier(E, e)) = k - 1
    BY <1>7
  <2>2. PICK e \in E : Rank(e) = k
    BY <1>6
  <2>3. Earlier(E, e) \in SUBSET E
    BY DEF Earlier
  <2>4. Cardinality(Earlier(E, e)) \in Nat
    BY <2>3, FS_Subset, FS_CardinalityType
  <2>5. Cardinality(Earlier(E, e)) = k - 1
    BY <2>2, <2>4 DEF Rank
  <2>6. q[k] \in E /\ Cardinality(Earlier(E, q[k])) = k - 1
    BY <2>1, <2>5
  <2> QED BY <1>1, <2>6 DEF Rank
<1>9. q \in [1 .. n -> E]
  BY <1>7, <1>8
<1>10. ASSUME NEW e \in E PROVE \E k \in 1 .. n : q[k] = e
  <2>1. Rank(e) \in 1 .. n
    BY <1>2
  <2>2. q[Rank(e)] \in E /\ Rank(q[Rank(e)]) = Rank(e)
    BY <1>8, <2>1
  <2>3. q[Rank(e)] = e
    BY <1>4, <2>2
  <2> QED BY <2>1, <2>3
<1>11. ASSUME NEW j \in 1 .. n, NEW k \in 1 .. n, j < k PROVE q[j].at < q[k].at
  <2>1. q[j] \in E /\ q[k] \in E /\ Rank(q[j]) = j /\ Rank(q[k]) = k
    BY <1>8
  <2>2. q[j].at \in Nat /\ q[k].at \in Nat
    BY <2>1
  <2>3. ~ (q[k].at < q[j].at)
    BY <1>1, <1>3, <1>11, <2>1
  <2>4. q[k].at = q[j].at => q[k] = q[j]
    BY <2>1
  <2> QED BY <1>1, <1>11, <2>1, <2>2, <2>3, <2>4
<1> QED BY <1>1, <1>9, <1>10, <1>11

(* What is in order of time already stays as it is.                        *)
LEMMA SortedStays ==
    ASSUME NEW s, Readable(s), NEW R, R = {s[i] : i \in DOMAIN s}
    PROVE  Lead!InOrder(R) = s
<1>1. /\ Len(s) \in Nat /\ DOMAIN s = 1 .. Len(s)
      /\ s = [i \in 1 .. Len(s) |-> s[i]]
      /\ \A i \in 1 .. Len(s) : s[i] \in R /\ s[i].at \in Nat
      /\ \A r \in R : \E i \in 1 .. Len(s) : r = s[i]
      /\ \A i, j \in 1 .. Len(s) : i < j => s[i].at < s[j].at
  <2>1. s \in Seq(HistoryRow)
    BY DEF Readable
  <2>2. Len(s) \in Nat /\ s \in [1 .. Len(s) -> HistoryRow] /\ DOMAIN s = 1 .. Len(s)
    BY <2>1, LenProperties
  <2> QED BY <2>2 DEF Readable, HistoryRow
<1> DEFINE n == Len(s)
<1>2. ASSUME NEW i \in 1 .. n, NEW j \in 1 .. n PROVE s[i].at < s[j].at <=> i < j
  <2>1. i \in 1 .. Len(s) /\ j \in 1 .. Len(s) /\ i \in Nat /\ j \in Nat
    BY <1>1
  <2>2. /\ s[i].at \in Nat /\ s[j].at \in Nat
        /\ i < j => s[i].at < s[j].at
        /\ j < i => s[j].at < s[i].at
    BY <1>1, <2>1
  <2>3. CASE i = j
    BY <2>2, <2>3
  <2>4. CASE i # j
    BY <2>1, <2>2, <2>4
  <2> QED BY <2>3, <2>4
<1>3. ASSUME NEW i \in 0 .. n
      PROVE  /\ IsFiniteSet({s[j] : j \in 1 .. i}) /\ Cardinality({s[j] : j \in 1 .. i}) = i
  <2> DEFINE f == [j \in 1 .. i |-> s[j]]
             S == {s[j] : j \in 1 .. i}
  <2>1. f \in Bijection(1 .. i, S)
    <3>1. f \in [1 .. i -> S] /\ \A r \in S : \E j \in 1 .. i : f[j] = r
      OBVIOUS
    <3>2. ASSUME NEW j \in 1 .. i, NEW k \in 1 .. i, f[j] = f[k] PROVE j = k
      <4>1. j \in 1 .. n /\ k \in 1 .. n /\ s[j] = s[k] /\ s[j].at \in Nat
        BY <1>1, <3>2
      <4>2. ~ (s[j].at < s[j].at)
        BY <4>1
      <4>3. ~ (j < k) /\ ~ (k < j)
        BY <1>2, <4>1, <4>2
      <4> QED BY <4>3
    <3> HIDE DEF f, S
    <3> QED BY <3>1, <3>2 DEF Bijection, Injection, IsInjective, Surjection
  <2>2. i \in Nat /\ IsFiniteSet(1 .. i) /\ Cardinality(1 .. i) = i
    <3>1. i \in Nat /\ i - 1 + 1 = i
      BY <1>1
    <3>2. IsFiniteSet(1 .. i) /\ Cardinality(1 .. i) = IF 1 > i THEN 0 ELSE i - 1 + 1
      BY <3>1, FS_Interval
    <3>3. 1 > i => i = 0
      BY <3>1
    <3> QED BY <3>1, <3>2, <3>3
  <2> HIDE DEF f, S
  <2>3. IsFiniteSet(S) /\ Cardinality(S) = i
    <3>1. f \in Surjection(1 .. i, S)
      BY <2>1 DEF Bijection
    <3>2. IsFiniteSet(S)
      BY <2>2, <3>1, FS_Surjection
    <3>3. ExistsBijection(1 .. i, S)
      BY <2>1 DEF ExistsBijection
    <3>4. Cardinality(1 .. i) = Cardinality(S)
      BY <2>2, <3>3, FS_Bijection
    <3> QED BY <2>2, <3>2, <3>4
  <2> QED BY <2>3 DEF S
<1>4. R = {s[j] : j \in 1 .. n}
  BY <1>1
<1>5. IsFiniteSet(R) /\ Cardinality(R) = n
  <2>1. n \in 0 .. n
    BY <1>1
  <2> QED BY <1>3, <1>4, <2>1
<1>6. ASSUME NEW i \in 1 .. n PROVE Cardinality(Earlier(R, s[i])) = i - 1
  <2>1. Earlier(R, s[i]) = {s[j] : j \in 1 .. i - 1}
    <3>1. ASSUME NEW j \in 1 .. n PROVE s[j].at < s[i].at <=> j \in 1 .. i - 1
      <4>1. i \in Nat /\ j \in Nat /\ j >= 1
        BY <1>1
      <4>2. s[j].at < s[i].at <=> j < i
        BY <1>2
      <4> QED BY <4>1, <4>2
    <3>2. 1 .. i - 1 \subseteq 1 .. n
      BY <1>1
    <3>3. ASSUME NEW r \in Earlier(R, s[i]) PROVE r \in {s[j] : j \in 1 .. i - 1}
      <4>1. PICK j \in 1 .. n : r = s[j] /\ s[j].at < s[i].at
        BY <1>4, <3>3 DEF Earlier
      <4> QED BY <3>1, <4>1
    <3>4. ASSUME NEW j \in 1 .. i - 1 PROVE s[j] \in Earlier(R, s[i])
      <4>1. j \in 1 .. n
        BY <3>2
      <4> QED BY <1>4, <3>1, <4>1 DEF Earlier
    <3> QED BY <3>3, <3>4
  <2>2. i - 1 \in 0 .. n
    BY <1>1
  <2> QED BY <1>3, <2>1, <2>2
<1>7. ASSUME NEW i \in 1 .. n
      PROVE  s[i] = CHOOSE e \in R : Cardinality(Earlier(R, e)) = i - 1
  <2>1. PICK c : c = CHOOSE e \in R : Cardinality(Earlier(R, e)) = i - 1
    OBVIOUS
  <2>2. c \in R /\ Cardinality(Earlier(R, c)) = i - 1
    BY <1>1, <1>6, <2>1
  <2>3. PICK j \in 1 .. n : c = s[j]
    BY <1>1, <2>2
  <2>4. i - 1 = j - 1
    BY <1>6, <2>2, <2>3
  <2>5. i = j
    BY <1>1, <2>4
  <2> QED BY <2>1, <2>3, <2>5
<1>8. Lead!InOrder(R) = [k \in 1 .. n |-> CHOOSE e \in R : Cardinality(Earlier(R, e)) = k - 1]
  BY <1>5, Zenon DEF Lead!InOrder, Earlier, Lead!Cardinality, Cardinality
<1> HIDE DEF n
<1>9. Lead!InOrder(R) = [k \in 1 .. n |-> s[k]]
  BY <1>7, <1>8, Zenon
<1> QED BY <1>1, <1>9 DEF n

LEMMA StepsRead ==
    ASSUME NEW l \in Leads, events[l] \subseteq Lead!Event, IsFiniteSet(events[l]),
           opened[l] \in Nat, \A e \in events[l] : opened[l] < e.at,
           \A d, e \in events[l] : d.at = e.at => d = e
    PROVE  /\ Readable(Lead!Steps(l))
           /\ events[l] = {} => Lead!Steps(l) = Submitted(opened[l])
           /\ \A e \in events[l] : (\A d \in events[l] : d.at < e.at \/ d = e)
                 => Lead!Last(Lead!Steps(l)).stage = Lead!StageOf(e.to)
<1> DEFINE E == events[l]
           n == Cardinality(E)
           q == Lead!InOrder(E)
<1>1. \A e \in E : e.at \in Nat
  BY LeadsAssumption DEF Lead!Event
<1>2. /\ n \in Nat /\ q \in [1 .. n -> E]
      /\ \A e \in E : \E k \in 1 .. n : q[k] = e
      /\ \A j, k \in 1 .. n : j < k => q[j].at < q[k].at
  <2> HIDE DEF E
  <2> QED BY <1>1, InOrderSorts DEF E
<1>3. Lead!Steps(l) = Lead!FoldLeft(Lead!Collapse, Submitted(opened[l]), q)
  BY DEF Lead!Steps, Submitted
<1> HIDE DEF q, n
<1>4. /\ Readable(Lead!Steps(l))
      /\ n = 0 => Lead!Steps(l) = Submitted(opened[l])
      /\ n > 0 => Lead!Last(Lead!Steps(l)).stage = Lead!StageOf(q[n].to)
  <2>1. DOMAIN q = 1 .. n /\ \A k \in 1 .. n : q[k] \in Lead!Event /\ opened[l] < q[k].at
    BY <1>2
  <2>2. opened[l] \in Nat /\ n \in Nat /\ \A j, k \in 1 .. n : j < k => q[j].at < q[k].at
    BY <1>2
  <2>3. PICK start \in Nat : start = opened[l]
    BY <2>2
  <2>4. PICK s : s = Lead!FoldLeft(Lead!Collapse, Submitted(start), q)
    OBVIOUS
  <2>5. /\ Readable(s)
        /\ n = 0 => s = Submitted(start)
        /\ n > 0 => Lead!Last(s).stage = Lead!StageOf(q[n].to)
    BY <2>1, <2>2, <2>3, <2>4, FoldReads
  <2> QED BY <1>3, <2>3, <2>4, <2>5
<1>5. E = {} => n = 0
  BY FS_EmptySet DEF n
<1>6. ASSUME NEW e \in E, \A d \in E : d.at < e.at \/ d = e
      PROVE  Lead!Last(Lead!Steps(l)).stage = Lead!StageOf(e.to)
  <2>1. PICK k \in 1 .. n : q[k] = e
    BY <1>2
  <2>2. n > 0 /\ n \in 1 .. n /\ q[n] \in E
    BY <1>2, <2>1
  <2>3. q[n] = e
    <3>1. CASE k = n
      BY <2>1, <3>1
    <3>2. CASE k < n
      <4>1. q[k].at < q[n].at
        BY <1>2, <2>1, <2>2, <3>2
      <4>2. e.at < q[n].at /\ e.at \in Nat /\ q[n].at \in Nat
        BY <1>1, <2>1, <2>2, <4>1
      <4> QED BY <1>6, <2>2, <4>2
    <3> QED BY <1>2, <2>1, <3>1, <3>2
  <2> QED BY <1>4, <2>2, <2>3
<1> QED BY <1>4, <1>5, <1>6

(* An outcome from before there were events is a row after the request.    *)
LEMMA OutcomeComesLast ==
    ASSUME NEW start \in Nat, NEW when \in Nat, start < when,
           NEW stage \in {"under_review", "in_progress", "converted", "closed"},
           NEW S, S = Submitted(start),
           NEW t, t = Lead!InOrder({S[i] : i \in DOMAIN S} \cup {[stage |-> stage, at |-> when]})
    PROVE  Readable(t) /\ Lead!Last(t).stage = stage
<1>1. PICK a : a = [stage |-> "submitted", at |-> start]
  OBVIOUS
<1>2. PICK b : b = [stage |-> stage, at |-> when]
  OBVIOUS
<1>3. PICK s : s = <<a, b>>
  OBVIOUS
<1>4. a \in HistoryRow /\ b \in HistoryRow /\ a.stage # b.stage /\ a.at < b.at /\ b.stage = stage
  BY <1>1, <1>2 DEF HistoryRow
<1>5. s \in Seq(HistoryRow) /\ Len(s) = 2 /\ s[1] = a /\ s[2] = b /\ DOMAIN s = {1, 2}
  BY <1>3, <1>4
<1>6. Readable(s)
  BY <1>4, <1>5 DEF Readable
<1>7. {S[i] : i \in DOMAIN S} \cup {[stage |-> stage, at |-> when]} = {s[i] : i \in DOMAIN s}
  <2>1. DOMAIN S = {1} /\ S[1] = a
    BY <1>1 DEF Submitted
  <2> QED BY <1>2, <1>5, <2>1
<1>8. t = s
  BY <1>6, <1>7, SortedStays
<1>9. Lead!Last(s) = b
  BY <1>5 DEF Lead!Last
<1> QED BY <1>4, <1>6, <1>8, <1>9

Tells(l) ==
    /\ Lead!Last(Lead!Timeline(l)).stage = Lead!StageOf(status[l])
    /\ \A i \in 1 .. Len(Lead!Timeline(l)) - 1 :
          Lead!Timeline(l)[i].stage # Lead!Timeline(l)[i + 1].stage

LEMMA TimelineReads ==
    ASSUME NEW l \in Leads, events[l] \subseteq Lead!Event, IsFiniteSet(events[l]),
           opened[l] \in Nat, \A e \in events[l] : opened[l] < e.at,
           \A d, e \in events[l] : d.at = e.at => d = e,
           status[l] \in Lead!LeadStatus, closedAt[l] \in [Lead!Terminal -> Nat],
           Unmoved(l) \/ Newest(l), Lead!Told(l)
    PROVE  Tells(l)
<1>1. /\ Readable(Lead!Steps(l))
      /\ events[l] = {} => Lead!Steps(l) = Submitted(opened[l])
      /\ \A e \in events[l] : (\A d \in events[l] : d.at < e.at \/ d = e)
            => Lead!Last(Lead!Steps(l)).stage = Lead!StageOf(e.to)
  BY StepsRead
<1>2. CASE Lead!Last(Lead!Steps(l)).stage = Lead!StageOf(status[l])
  <2>1. Lead!Backfill(l) = {}
    BY <1>2 DEF Lead!Backfill
  <2>2. PICK R : R = {Lead!Steps(l)[i] : i \in DOMAIN Lead!Steps(l)}
    OBVIOUS
  <2>3. Lead!Timeline(l) = Lead!InOrder(R)
    <3>1. R = R \cup Lead!Backfill(l)
      BY <2>1
    <3> QED BY <2>2, <3>1 DEF Lead!Timeline
  <2>4. Lead!Timeline(l) = Lead!Steps(l)
    BY <1>1, <2>2, <2>3, SortedStays
  <2> QED BY <1>1, <1>2, <2>4 DEF Tells, Readable
<1>3. CASE Lead!Last(Lead!Steps(l)).stage # Lead!StageOf(status[l])
  <2>1. Unmoved(l)
    BY <1>1, <1>3 DEF Newest
  <2>2. Lead!Steps(l) = Submitted(opened[l]) /\ Lead!Last(Submitted(opened[l])).stage = "submitted"
    BY <1>1, <2>1 DEF Unmoved, Submitted, Lead!Last
  <2>3. status[l] # "new"
    BY <1>3, <2>2 DEF Lead!StageOf
  <2>4. status[l] \in Lead!Terminal /\ closedAt[l][status[l]] > opened[l]
    BY <2>1, <2>3 DEF Unmoved, Lead!Told
  <2>5. PICK end \in {"under_review", "in_progress", "converted", "closed"} :
           end = Lead!StageOf(status[l])
    BY <2>4 DEF Lead!StageOf, Lead!Terminal
  <2>6. PICK when \in Nat : when = closedAt[l][status[l]] /\ opened[l] < when
    BY <2>4
  <2>7. Lead!Backfill(l) = {[stage |-> end, at |-> when]}
    BY <1>3, <2>4, <2>5, <2>6 DEF Lead!Backfill
  <2>8. Readable(Lead!Timeline(l)) /\ Lead!Last(Lead!Timeline(l)).stage = end
    BY <2>2, <2>6, <2>7, OutcomeComesLast DEF Lead!Timeline
  <2> QED BY <2>5, <2>8 DEF Tells, Readable
<1> QED BY <1>2, <1>3

(* leads/tracking.py, build_timeline: the history a customer reads ends at  *)
(* the stage the tracker shows and never says one thing twice in a row, for *)
(* any number of leads, agents, customers and moves, held at once or not,   *)
(* but for leads with an event that came late and those that have stood at  *)
(* a stage between since before there were events.                          *)
THEOREM HistoriesEndWhereLeadsStand == BackOfficeSpec => []HistoryEndsAtStage
<1>1. BackOfficeInit => HistoryInv
  BY HistoryInitially DEF BackOfficeInit
<1>2. HistoryInv /\ [BackOfficeNext]_backOfficeVars => HistoryInv'
  BY OnePartMoves, HistoryNextKeeps
<1>3. HistoryInv => HistoryEndsAtStage
  <2> SUFFICES ASSUME HistoryInv, NEW l \in Leads \ overtaken, Lead!Told(l)
               PROVE  Tells(l)
    BY DEF Tells, HistoryEndsAtStage, Lead!HistoryEndsAtStage
  <2>1. /\ events[l] \subseteq Lead!Event /\ opened[l] \in Nat
        /\ closedAt[l] \in [Lead!Terminal -> Nat]
    BY LeadsAssumption DEF HistoryInv, LeadInv, Lead!TypeOK
  <2>2. /\ \A e \in events[l] : opened[l] < e.at
        /\ \A d, e \in events[l] : d.at = e.at => d = e
        /\ Unmoved(l) \/ Newest(l)
    BY DEF HistoryInv, InTime, NewestEventTells
  <2>4. status[l] \in Lead!LeadStatus
    <3>1. CASE Unmoved(l)
      BY <3>1 DEF Unmoved, Lead!Told, Lead!LeadStatus, Lead!Terminal
    <3>2. CASE Newest(l)
      BY <2>1, <3>2 DEF Newest, Lead!Event
    <3> QED BY <2>2, <3>1, <3>2
  <2>3. IsFiniteSet(events[l])
    <3> DEFINE f == [e \in events[l] |-> e.at]
    <3>1. f \in [events[l] -> 1 .. Transactions] /\ \A d, e \in events[l] : f[d] = f[e] => d = e
      BY <2>1, <2>2 DEF Lead!Event
    <3> HIDE DEF f
    <3>2. f \in Injection(events[l], 1 .. Transactions)
      BY <3>1 DEF Injection, IsInjective
    <3>3. IsFiniteSet(1 .. Transactions)
      BY LeadsAssumption, FS_Interval
    <3> QED BY <3>2, <3>3, FS_Injection
  <2> QED BY <2>1, <2>2, <2>3, <2>4, TimelineReads
<1> QED BY <1>1, <1>2, <1>3, PTL DEF BackOfficeSpec

--------------------------------------------------------------------------------
(* The service board.  A session that publishes knows every version that   *)
(* is published and was published alone; if nobody published beside it, it *)
(* knows a number above all others.                                        *)

Records ==
    /\ catalogued \in BOOLEAN /\ rules \in Seq(Plan!Rule) /\ margin \in Margins
    /\ visits \subseteq Plan!Visit /\ odometer \in 0 .. Far /\ today \in 0 .. Days

PlanTxn == [op : {"idle", "publish", "rule"}, previous : SUBSET Nat, no : Nat,
            rule : SUBSET Plan!Rule, alone : BOOLEAN]
PlanSessions == planTxn \in [Threads -> PlanTxn]

PublishKnows(w) == planTxn[w].op = "publish" =>
    /\ planTxn[w].no \in 0 .. Len(versions) + 1
    /\ \A i \in Plan!Published : versions[i].alone => i \in planTxn[w].previous
    /\ planTxn[w].alone /\ planTxn[w].no # 0
          => \A i \in DOMAIN versions : versions[i].no < planTxn[w].no

Book ==
    /\ versions \in Seq(Plan!Version)
    /\ \A i \in DOMAIN versions : versions[i].no <= Len(versions)
    /\ \A w \in Threads : PublishKnows(w)
    /\ BoardIsCurrent

PlanInv == Records /\ PlanSessions /\ Book

LEMMA PlanInitially == Plan!Init => PlanInv
<1> SUFFICES ASSUME Plan!Init PROVE PlanInv
  OBVIOUS
<1>1. Records
  BY PlanAssumption DEF Plan!Init, Records
<1>2. PlanSessions
  BY DEF Plan!Init, PlanSessions, PlanTxn, Plan!NoTxn
<1>3. Book
  BY DEF Plan!Init, Plan!NoTxn, Book, PublishKnows, BoardIsCurrent, Plan!BoardIsCurrent, Plan!Published
<1> QED BY <1>1, <1>2, <1>3 DEF PlanInv

(* Whatever leaves versions and sessions alone leaves the price book as it *)
(* is.                                                                     *)
LEMMA BookStays ==
    ASSUME PlanInv, UNCHANGED <<versions, planTxn>>, Records' PROVE PlanInv'
  BY DEF PlanInv, PlanSessions, Book, PublishKnows, BoardIsCurrent, Plan!BoardIsCurrent,
         Plan!Published, Plan!Current

LEMMA SettingsKeep == ASSUME PlanInv, Plan!Settings PROVE PlanInv'
<1>1. UNCHANGED <<versions, planTxn>>
  BY DEF Plan!Settings, Plan!UpdateRule, Plan!SetMargin, Plan!SwitchItem, Plan!board
<1>2. Records'
  <2>1. ASSUME NEW i \in DOMAIN rules, NEW t \in Terms, NEW on \in BOOLEAN, Plan!UpdateRule(i, t, on)
        PROVE  Records'
    <3> DEFINE r == rules[i]
               new == [r EXCEPT !.kind = t.kind, !.on = on,
                                !.km = IF t.km = 0 THEN r.km ELSE t.km,
                                !.days = IF t.days = 0 THEN r.days ELSE t.days]
    <3>1. r \in Plan!Rule
      BY DEF PlanInv, Records
    <3>2. t.kind \in Plan!Kinds /\ t.km \in Nat /\ t.days \in Nat
      BY PlanAssumption DEF Plan!Kinds
    <3>3. new \in Plan!Rule
      BY <3>1, <3>2 DEF Plan!Rule
    <3>4. rules' = [rules EXCEPT ![i] = new]
      BY <2>1 DEF Plan!UpdateRule
    <3> HIDE DEF new
    <3>5. rules' \in Seq(Plan!Rule)
      BY <3>3, <3>4 DEF PlanInv, Records
    <3> QED BY <2>1, <3>5 DEF PlanInv, Records, Plan!UpdateRule, Plan!board, Plan!record
  <2>2. ASSUME NEW m \in Margins, Plan!SetMargin(m) PROVE Records'
    BY <2>2 DEF PlanInv, Records, Plan!SetMargin, Plan!board, Plan!record
  <2>3. ASSUME Plan!SwitchItem PROVE Records'
    BY <2>3 DEF PlanInv, Records, Plan!SwitchItem, Plan!plan, Plan!record
  <2> QED BY <2>1, <2>2, <2>3 DEF Plan!Settings
<1> QED BY <1>1, <1>2, BookStays

LEMMA RaiseTyped ==
    ASSUME odometer \in 0 .. Far, NEW km \in 0 .. Far, Plan!Raise(km) PROVE odometer' \in 0 .. Far
  BY DEF Plan!Raise

LEMMA HistoryKeeps == ASSUME PlanInv, Plan!History PROVE PlanInv'
<1>1. UNCHANGED <<versions, planTxn>>
  BY DEF Plan!History, Plan!Visited, Plan!ReplaceLines, Plan!DeleteVisit, Plan!Report, Plan!Day, Plan!board
<1>2. Records'
  <2>1. ASSUME NEW v \in Plan!Visit, Plan!Visited(v) PROVE Records'
    <3>1. v.km \in 0 .. Far
      BY DEF Plan!Visit
    <3>2. odometer' \in 0 .. Far
      BY <2>1, <3>1, RaiseTyped DEF Plan!Visited, PlanInv, Records
    <3> QED BY <2>1, <3>2 DEF PlanInv, Records, Plan!Visited, Plan!board, Plan!plan
  <2>2. ASSUME NEW v \in visits, NEW km \in 0 .. Far, NEW op \in Plan!Operations \cup {"none"},
               Plan!ReplaceLines(v, km, op)
        PROVE  Records'
    <3>1. v \in Plan!Visit
      BY DEF PlanInv, Records
    <3>2. [v EXCEPT !.km = km, !.op = op] \in Plan!Visit
      BY <3>1 DEF Plan!Visit
    <3>3. odometer' \in 0 .. Far
      BY <2>2, RaiseTyped DEF Plan!ReplaceLines, PlanInv, Records
    <3> QED BY <2>2, <3>2, <3>3 DEF PlanInv, Records, Plan!ReplaceLines, Plan!board, Plan!plan
  <2>3. ASSUME NEW v \in visits, Plan!DeleteVisit(v) PROVE Records'
    BY <2>3 DEF PlanInv, Records, Plan!DeleteVisit, Plan!board, Plan!plan
  <2>4. ASSUME NEW km \in 0 .. Far, Plan!Report(km) PROVE Records'
    BY <2>4 DEF PlanInv, Records, Plan!Report, Plan!board, Plan!plan
  <2>5. ASSUME Plan!Day PROVE Records'
    BY <2>5, PlanAssumption DEF PlanInv, Records, Plan!Day, Plan!board, Plan!plan, Plan!record
  <2> QED BY <2>1, <2>2, <2>3, <2>4, <2>5 DEF Plan!History
<1> QED BY <1>1, <1>2, BookStays

(* The next number is above every other. *)
LEMMA NextNumberAbove ==
    ASSUME versions \in Seq(Plan!Version), \A i \in DOMAIN versions : versions[i].no <= Len(versions)
    PROVE  /\ Plan!NextNumber \in 1 .. Len(versions) + 1
           /\ \A i \in DOMAIN versions : versions[i].no < Plan!NextNumber
<1> DEFINE S == {0} \cup {versions[i].no : i \in DOMAIN versions}
<1>1. \A i \in DOMAIN versions : versions[i].no \in Nat
  <2>1. \A i \in DOMAIN versions : versions[i] \in Plan!Version
    OBVIOUS
  <2> QED BY <2>1, PlanAssumption DEF Plan!Version
<1>2. S \in SUBSET Nat /\ S # {} /\ Len(versions) \in Nat /\ \A n \in S : n <= Len(versions)
  BY <1>1
<1>3. \E m \in S : \A n \in S : n <= m
  <2> HIDE DEF S
  <2> QED BY <1>2, GreatestExists
<1>4. Plan!Max(S) \in S /\ \A n \in S : n <= Plan!Max(S)
  <2> HIDE DEF S
  <2> QED BY <1>2, <1>3 DEF Plan!Max
<1>5. Plan!NextNumber = 1 + Plan!Max(S)
  BY DEF Plan!NextNumber
<1>6. \A i \in DOMAIN versions : versions[i].no \in S
  OBVIOUS
<1> DEFINE top == Plan!Max(S)
<1>7. top \in Nat /\ top <= Len(versions) /\ \A i \in DOMAIN versions : versions[i].no <= top
  <2> HIDE DEF S
  <2> QED BY <1>2, <1>4, <1>6
<1> HIDE DEF S, top
<1>8. Plan!NextNumber = 1 + top
  BY <1>5 DEF top
<1> QED BY <1>1, <1>2, <1>7, <1>8

(* A session that begins, unless to publish, knows nothing it need keep.   *)
LEMMA PlanBeginKeeps ==
    ASSUME PlanInv, NEW w \in Threads, NEW x \in PlanTxn, Plan!Begin(w, x),
           x.op = "publish" =>
               /\ x.no = 0
               /\ \A i \in Plan!Published : versions[i].alone => i \in x.previous
    PROVE  PlanInv'
<1>1. /\ planTxn' = [planTxn EXCEPT ![w] = x]
      /\ UNCHANGED <<versions, catalogued, rules, margin, visits, odometer, today>>
  BY DEF Plan!Begin, Plan!board, Plan!plan, Plan!record
<1>2. planTxn'[w] = x /\ \A u \in Threads \ {w} : planTxn'[u] = planTxn[u]
  BY <1>1 DEF PlanInv, PlanSessions
<1>3. Records' /\ PlanSessions' /\ BoardIsCurrent'
  BY <1>1 DEF PlanInv, Records, PlanSessions, Book, BoardIsCurrent, Plan!BoardIsCurrent,
              Plan!Published, Plan!Current
<1>4. ASSUME NEW u \in Threads PROVE PublishKnows(u)'
  <2>1. Plan!Published' = Plan!Published
    BY <1>1 DEF Plan!Published
  <2>2. CASE u = w
    BY <1>1, <1>2, <2>1, <2>2 DEF PublishKnows
  <2>3. CASE u # w
    BY <1>1, <1>2, <2>1, <2>3 DEF PlanInv, Book, PublishKnows
  <2> QED BY <2>2, <2>3
<1> QED BY <1>1, <1>3, <1>4 DEF PlanInv, Book

LEMMA PlanNoTxn == Plan!NoTxn \in PlanTxn /\ Plan!NoTxn.op = "idle"
  BY DEF Plan!NoTxn, PlanTxn

LEMMA PublishReadKeeps ==
    ASSUME PlanInv, NEW w \in Threads, NEW file, Plan!PublishRead(w, file) PROVE PlanInv'
<1>1. PICK previous \in {{i} : i \in Plan!Current} \cup {{}} :
         /\ previous = {} <=> Plan!Current = {}
         /\ Plan!Begin(w, [Plan!NoTxn EXCEPT !.op = "publish", !.previous = previous])
  BY DEF Plan!PublishRead
<1> DEFINE x == [Plan!NoTxn EXCEPT !.op = "publish", !.previous = previous]
<1>3. DOMAIN versions \subseteq Nat /\ Plan!Current \subseteq DOMAIN versions
  BY DEF PlanInv, Book, Plan!Current, Plan!Published
<1>4. x \in PlanTxn /\ x.op = "publish" /\ x.no = 0 /\ x.previous = previous
  <2>1. previous \in SUBSET Nat
    BY <1>1, <1>3
  <2>2. Plan!NoTxn \in PlanTxn /\ Plan!NoTxn.no = 0
    BY PlanNoTxn DEF Plan!NoTxn
  <2> QED BY <2>1, <2>2 DEF PlanTxn
<1>5. ASSUME NEW i \in Plan!Published, versions[i].alone PROVE i \in previous
  <2>1. i = Len(versions)
    BY <1>5 DEF PlanInv, Book, BoardIsCurrent, Plan!BoardIsCurrent
  <2>2. versions # <<>> /\ Plan!Last(versions) = versions[i]
    BY <1>5, <2>1 DEF PlanInv, Book, Plan!Published, Plan!Last
  <2>3. Plan!Current = {i}
    BY <1>5, <2>1, <2>2 DEF PlanInv, Book, BoardIsCurrent, Plan!BoardIsCurrent
  <2> QED BY <1>1, <2>3
<1> HIDE DEF x
<1> QED BY <1>1, <1>4, <1>5, PlanBeginKeeps DEF x

LEMMA NumberReadKeeps == ASSUME PlanInv, NEW w \in Threads, Plan!NumberRead(w) PROVE PlanInv'
<1> DEFINE x == [planTxn[w] EXCEPT !.no = Plan!NextNumber]
<1>1. /\ planTxn[w].op = "publish" /\ planTxn' = [planTxn EXCEPT ![w] = x]
      /\ UNCHANGED <<versions, catalogued, rules, margin, visits, odometer, today>>
  BY DEF Plan!NumberRead, Plan!board, Plan!plan, Plan!record
<1>2. /\ Plan!NextNumber \in 1 .. Len(versions) + 1
      /\ \A i \in DOMAIN versions : versions[i].no < Plan!NextNumber
  BY NextNumberAbove DEF PlanInv, Book
<1>3. /\ x \in PlanTxn /\ x.op = "publish" /\ x.no = Plan!NextNumber
      /\ x.previous = planTxn[w].previous
  <2>1. planTxn[w] \in PlanTxn /\ Plan!NextNumber \in Nat
    BY <1>2 DEF PlanInv, PlanSessions
  <2> QED BY <1>1, <2>1 DEF PlanTxn
<1> HIDE DEF x
<1>4. planTxn'[w] = x /\ \A u \in Threads \ {w} : planTxn'[u] = planTxn[u]
  BY <1>1 DEF PlanInv, PlanSessions
<1>5. Records' /\ PlanSessions'
  BY <1>1, <1>3 DEF PlanInv, Records, PlanSessions
<1>6. BoardIsCurrent' /\ Plan!Published' = Plan!Published
  BY <1>1 DEF PlanInv, Book, BoardIsCurrent, Plan!BoardIsCurrent, Plan!Published, Plan!Current
<1>7. ASSUME NEW u \in Threads PROVE PublishKnows(u)'
  <2>1. CASE u = w
    <3>1. PublishKnows(w)
      BY DEF PlanInv, Book
    <3>2. \A i \in Plan!Published : versions[i].alone => i \in planTxn[w].previous
      BY <1>1, <3>1 DEF PublishKnows
    <3> QED BY <1>1, <1>2, <1>3, <1>4, <1>6, <2>1, <3>2 DEF PublishKnows
  <2>2. CASE u # w
    BY <1>1, <1>4, <1>6, <2>2 DEF PlanInv, Book, PublishKnows
  <2> QED BY <2>1, <2>2
<1> QED BY <1>1, <1>5, <1>6, <1>7 DEF PlanInv, Book

LEMMA RuleReadKeeps ==
    ASSUME PlanInv, NEW w \in Threads, NEW model \in {"any", "own"}, NEW t \in Terms,
           Plan!RuleRead(w, Plan!NewRule(model, t))
    PROVE  PlanInv'
<1> DEFINE r == Plan!NewRule(model, t)
           x == [Plan!NoTxn EXCEPT !.op = "rule", !.rule = {r}]
<1>1. r \in Plan!Rule
  BY PlanAssumption DEF Plan!NewRule, Plan!Rule, Plan!Kinds
<1>2. Plan!Begin(w, x)
  BY DEF Plan!RuleRead
<1> HIDE DEF r
<1>3. x \in PlanTxn /\ x.op = "rule"
  BY <1>1, PlanNoTxn DEF PlanTxn
<1> HIDE DEF x
<1> QED BY <1>2, <1>3, PlanBeginKeeps

(* The end of a session leaves the others what they know, but that they    *)
(* were alone.                                                             *)
LEMMA PlanEnds ==
    ASSUME PlanSessions, NEW w \in Threads, Plan!End(w)
    PROVE  /\ PlanSessions' /\ planTxn'[w].op = "idle"
           /\ \A u \in Threads \ {w} :
                 /\ planTxn'[u].op = planTxn[u].op /\ planTxn'[u].previous = planTxn[u].previous
                 /\ planTxn'[u].no = planTxn[u].no
                 /\ planTxn'[u].alone => planTxn[u].alone /\ planTxn[u].op # planTxn[w].op
<1>1. planTxn' = [u \in Threads |-> IF u = w THEN Plan!NoTxn
                     ELSE IF u \in Plan!Beside(w) THEN [planTxn[u] EXCEPT !.alone = FALSE]
                     ELSE planTxn[u]]
  BY DEF Plan!End
<1>2. ASSUME NEW u \in Threads
      PROVE  planTxn[u] \in PlanTxn /\ [planTxn[u] EXCEPT !.alone = FALSE] \in PlanTxn
  BY DEF PlanSessions, PlanTxn
<1>3. PlanSessions'
  BY <1>1, <1>2, PlanNoTxn DEF PlanSessions
<1>4. ASSUME NEW u \in Threads \ {w}
      PROVE  /\ planTxn'[u].op = planTxn[u].op /\ planTxn'[u].previous = planTxn[u].previous
             /\ planTxn'[u].no = planTxn[u].no
             /\ planTxn'[u].alone => planTxn[u].alone /\ planTxn[u].op # planTxn[w].op
  <2>1. CASE u \in Plan!Beside(w)
    <3>1. planTxn'[u] = [planTxn[u] EXCEPT !.alone = FALSE] /\ planTxn[u] \in PlanTxn
      BY <1>1, <1>2, <2>1
    <3> QED BY <3>1 DEF PlanTxn
  <2>2. CASE u \notin Plan!Beside(w)
    BY <1>1, <2>2 DEF Plan!Beside
  <2> QED BY <2>1, <2>2
<1> QED BY <1>1, <1>3, <1>4, PlanNoTxn

LEMMA PublishCommitKeeps == ASSUME PlanInv, NEW w \in Threads, Plan!PublishCommit(w) PROVE PlanInv'
<1> DEFINE x == planTxn[w]
           new == [no |-> x.no, published |-> TRUE, alone |-> Plan!Alone(w)]
           old == Plan!Archived(x)
           last == Len(versions) + 1
<1>1. /\ x.op = "publish" /\ x.no # 0 /\ Len(versions) < Versions /\ Plan!End(w)
      /\ versions' = Append(old, new)
      /\ UNCHANGED <<catalogued, rules, margin, visits, odometer, today>>
  BY DEF Plan!PublishCommit, Plan!plan, Plan!record
<1>2. versions \in Seq(Plan!Version) /\ Len(versions) \in Nat
  BY DEF PlanInv, Book
<1>3. /\ x.no \in 1 .. last
      /\ \A i \in Plan!Published : versions[i].alone => i \in x.previous
      /\ x.alone => \A i \in DOMAIN versions : versions[i].no < x.no
  BY <1>1, <1>2 DEF PlanInv, Book, PublishKnows
<1>4. new \in Plan!Version
  <2>1. Plan!Alone(w) \in BOOLEAN
    BY DEF Plan!Alone, PlanInv, PlanSessions, PlanTxn
  <2> QED BY <1>1, <1>2, <1>3, <2>1, PlanAssumption DEF Plan!Version
<1>5. \A i \in DOMAIN versions :
         /\ old[i] \in Plan!Version /\ old[i].no = versions[i].no /\ old[i].alone = versions[i].alone
         /\ old[i].published => versions[i].published /\ i \notin x.previous
  <2> SUFFICES ASSUME NEW i \in DOMAIN versions
               PROVE  /\ old[i] \in Plan!Version /\ old[i].no = versions[i].no
                      /\ old[i].alone = versions[i].alone
                      /\ old[i].published => versions[i].published /\ i \notin x.previous
    OBVIOUS
  <2>1. versions[i] \in Plan!Version
    BY <1>2
  <2>2. old[i] = IF i \in x.previous THEN [versions[i] EXCEPT !.published = FALSE] ELSE versions[i]
    BY DEF Plan!Archived
  <2> QED BY <2>1, <2>2 DEF Plan!Version
<1>6. old \in Seq(Plan!Version) /\ Len(old) = Len(versions)
  <2>1. old = [i \in 1 .. Len(versions) |-> old[i]]
    BY <1>2 DEF Plan!Archived
  <2>2. \A i \in 1 .. Len(versions) : old[i] \in Plan!Version
    BY <1>2, <1>5
  <2> HIDE DEF old
  <2> QED BY <1>2, <2>1, <2>2
<1> HIDE DEF new, old
<1>7. /\ versions' \in Seq(Plan!Version) /\ Len(versions') = last
      /\ versions'[last] = new /\ \A i \in DOMAIN versions : versions'[i] = old[i]
      /\ DOMAIN versions' = DOMAIN versions \cup {last}
      /\ DOMAIN versions = 1 .. Len(versions) /\ last \notin DOMAIN versions
  BY <1>1, <1>2, <1>4, <1>6
<1>8. new.no = x.no /\ new.published /\ new.alone = Plan!Alone(w)
  BY DEF new
<1>9. Records'
  BY <1>1 DEF PlanInv, Records
<1>10. PlanSessions' /\ planTxn'[w].op = "idle"
  BY <1>1, PlanEnds DEF PlanInv
<1>11. \A i \in DOMAIN versions' : versions'[i].no <= Len(versions')
  <2>1. ASSUME NEW i \in DOMAIN versions PROVE versions'[i].no <= last
    <3>1. versions'[i].no = versions[i].no /\ versions[i].no <= Len(versions)
      BY <1>5, <1>7 DEF PlanInv, Book
    <3>2. versions[i].no \in Nat
      <4>1. versions[i] \in Plan!Version
        BY <1>2
      <4> QED BY <4>1, PlanAssumption DEF Plan!Version
    <3> QED BY <1>2, <3>1, <3>2
  <2> QED BY <1>3, <1>7, <1>8, <2>1
<1>12. ASSUME NEW i \in Plan!Published', versions'[i].alone PROVE i = last
  <2>1. i \in DOMAIN versions' /\ versions'[i].published
    BY <1>12 DEF Plan!Published
  <2>2. CASE i \in DOMAIN versions
    <3>1. versions[i].published /\ i \notin x.previous /\ versions[i].alone
      BY <1>5, <1>7, <1>12, <2>1, <2>2
    <3> QED BY <1>3, <2>2, <3>1 DEF Plan!Published
  <2> QED BY <1>7, <2>1, <2>2
<1>13. ASSUME new.alone, NEW i \in DOMAIN versions PROVE versions'[i].no < versions'[last].no
  BY <1>3, <1>5, <1>7, <1>8, <1>13 DEF Plan!Alone
<1>14. BoardIsCurrent'
  <2>1. ASSUME versions'[last].alone PROVE Plan!Current' = {last}
    <3>1. last \in Plan!Published'
      BY <1>7, <1>8 DEF Plan!Published
    <3>2. \A i \in Plan!Published' : i # last => versions'[i].no < versions'[last].no
      BY <1>7, <1>13, <2>1 DEF Plan!Published
    <3>3. \A i \in DOMAIN versions' : versions'[i].no \in Nat
      <4>1. \A i \in DOMAIN versions' : versions'[i] \in Plan!Version
        BY <1>7
      <4> QED BY <4>1, PlanAssumption DEF Plan!Version
    <3>4. Plan!Published' \subseteq DOMAIN versions'
      BY DEF Plan!Published
    <3> QED BY <3>1, <3>2, <3>3, <3>4 DEF Plan!Current
  <2>2. Plan!Last(versions') = versions'[last]
    BY <1>7 DEF Plan!Last
  <2>3. ASSUME NEW i \in DOMAIN versions', NEW j \in DOMAIN versions', i < j, versions'[j].alone
        PROVE  versions'[i].no < versions'[j].no
    <3>1. i \in DOMAIN versions
      BY <1>2, <1>7, <2>3
    <3>2. CASE j = last
      BY <1>7, <1>13, <2>3, <3>1, <3>2
    <3>3. CASE j \in DOMAIN versions
      <4>1. versions[i].no < versions[j].no
        BY <1>5, <1>7, <2>3, <3>1, <3>3 DEF PlanInv, Book, BoardIsCurrent, Plan!BoardIsCurrent
      <4> QED BY <1>5, <1>7, <3>1, <3>3, <4>1
    <3> QED BY <1>7, <2>3, <3>2, <3>3
  <2> QED BY <1>7, <1>12, <2>1, <2>2, <2>3 DEF BoardIsCurrent, Plan!BoardIsCurrent
<1>15. ASSUME NEW u \in Threads PROVE PublishKnows(u)'
  <2> SUFFICES ASSUME planTxn'[u].op = "publish"
               PROVE  /\ planTxn'[u].no \in 0 .. Len(versions') + 1
                      /\ \A i \in Plan!Published' : versions'[i].alone => i \in planTxn'[u].previous
                      /\ ~planTxn'[u].alone
    BY DEF PublishKnows
  <2>1. u # w
    BY <1>10
  <2>2. /\ planTxn[u].op = "publish" /\ planTxn'[u].no = planTxn[u].no
        /\ ~planTxn'[u].alone
    BY <1>1, <2>1, PlanEnds DEF PlanInv
  <2>3. planTxn[u].no \in 0 .. Len(versions) + 1
    BY <2>2 DEF PlanInv, Book, PublishKnows
  <2>4. ~Plan!Alone(w)
    BY <1>1, <2>1, <2>2 DEF Plan!Alone, Plan!Beside
  <2>5. \A i \in Plan!Published' : ~versions'[i].alone
    BY <1>7, <1>8, <1>12, <2>4
  <2> QED BY <1>2, <1>7, <2>2, <2>3, <2>5
<1> QED BY <1>7, <1>9, <1>10, <1>11, <1>14, <1>15 DEF PlanInv, Book

LEMMA RuleCommitKeeps == ASSUME PlanInv, NEW w \in Threads, Plan!RuleCommit(w) PROVE PlanInv'
<1>1. /\ Plan!End(w) /\ planTxn[w].op = "rule"
      /\ UNCHANGED <<versions, catalogued, margin, visits, odometer, today>>
  BY DEF Plan!RuleCommit, Plan!board, Plan!record
<1>2. PICK r \in planTxn[w].rule : rules' = Append(rules, [r EXCEPT !.alone = Plan!Alone(w)])
  BY DEF Plan!RuleCommit
<1>3. [r EXCEPT !.alone = Plan!Alone(w)] \in Plan!Rule
  <2>1. r \in Plan!Rule /\ Plan!Alone(w) \in BOOLEAN
    BY DEF PlanInv, PlanSessions, PlanTxn, Plan!Alone
  <2> QED BY <2>1 DEF Plan!Rule
<1>4. Records'
  BY <1>1, <1>2, <1>3 DEF PlanInv, Records
<1>5. /\ PlanSessions' /\ planTxn'[w].op = "idle"
      /\ \A u \in Threads \ {w} :
            /\ planTxn'[u].op = planTxn[u].op /\ planTxn'[u].previous = planTxn[u].previous
            /\ planTxn'[u].no = planTxn[u].no
            /\ planTxn'[u].alone => planTxn[u].alone
  BY <1>1, PlanEnds DEF PlanInv
<1>6. BoardIsCurrent' /\ Plan!Published' = Plan!Published
  BY <1>1 DEF PlanInv, Book, BoardIsCurrent, Plan!BoardIsCurrent, Plan!Published, Plan!Current
<1>7. ASSUME NEW u \in Threads PROVE PublishKnows(u)'
  BY <1>1, <1>5, <1>6 DEF PlanInv, Book, PublishKnows
<1> QED BY <1>1, <1>4, <1>5, <1>6, <1>7 DEF PlanInv, Book

LEMMA PlanAbortKeeps == ASSUME PlanInv, NEW w \in Threads, Plan!Abort(w) PROVE PlanInv'
<1>1. /\ planTxn' = [planTxn EXCEPT ![w] = Plan!NoTxn]
      /\ UNCHANGED <<versions, catalogued, rules, margin, visits, odometer, today>>
  BY DEF Plan!Abort, Plan!board, Plan!plan, Plan!record
<1>2. planTxn'[w].op = "idle" /\ \A u \in Threads \ {w} : planTxn'[u] = planTxn[u]
  BY <1>1, PlanNoTxn DEF PlanInv, PlanSessions
<1>3. Records' /\ PlanSessions'
  BY <1>1, PlanNoTxn DEF PlanInv, Records, PlanSessions
<1>4. BoardIsCurrent' /\ Plan!Published' = Plan!Published
  BY <1>1 DEF PlanInv, Book, BoardIsCurrent, Plan!BoardIsCurrent, Plan!Published, Plan!Current
<1>5. ASSUME NEW u \in Threads PROVE PublishKnows(u)'
  BY <1>1, <1>2, <1>4 DEF PlanInv, Book, PublishKnows
<1> QED BY <1>1, <1>3, <1>4, <1>5 DEF PlanInv, Book

LEMMA PlanNextKeeps == ASSUME PlanInv, [Plan!Next]_plan PROVE PlanInv'
<1>1. CASE UNCHANGED plan
  BY <1>1, BookStays DEF plan, PlanInv, Records
<1>2. CASE Plan!Next
  <2>1. ASSUME NEW w \in Threads, Plan!Inserts(w) PROVE PlanInv'
    BY <2>1, PublishReadKeeps, NumberReadKeeps, RuleReadKeeps, PublishCommitKeeps,
         RuleCommitKeeps, PlanAbortKeeps
       DEF Plan!Inserts
  <2> QED BY <1>2, <2>1, SettingsKeep, HistoryKeeps DEF Plan!Next
<1> QED BY <1>1, <1>2

(* price_book_service.py: the board shows the version published last and   *)
(* no other, under numbers that only rise, for any number of versions,     *)
(* files and sessions, but for versions published at once.                 *)
THEOREM BoardShowsTheLast == BackOfficeSpec => []BoardIsCurrent
<1>1. BackOfficeInit => PlanInv
  BY PlanInitially DEF BackOfficeInit
<1>2. PlanInv /\ [BackOfficeNext]_backOfficeVars => PlanInv'
  BY OnePartMoves, PlanNextKeeps
<1>3. PlanInv => BoardIsCurrent
  BY DEF PlanInv, Book
<1> QED BY <1>1, <1>2, <1>3, PTL DEF BackOfficeSpec

(* What an interval says of a visit grows with the days and the distance.  *)
LEMMA SeverityGrows ==
    ASSUME Records, Records', UNCHANGED margin, odometer' >= odometer, today' >= today,
           NEW r \in Plan!Rule, NEW v \in Plan!Visit, Plan!Severity(r, v) >= 2
    PROVE  Plan!Severity(r, v)' >= 2
<1>1. /\ r.km \in Nat /\ r.days \in Nat /\ v.km \in Nat /\ v.at \in Nat
      /\ odometer \in Nat /\ odometer' \in Nat /\ today \in Nat /\ today' \in Nat /\ margin \in Nat
  BY PlanAssumption DEF Records, Plan!Rule, Plan!Visit
<1>2. ~(r.kind = "condition" \/ ~Plan!Qualifies(r.kind, v.op) \/ odometer < v.km)
  BY DEF Plan!Severity
<1>3. ~(odometer' < v.km)
  BY <1>1, <1>2
<1> DEFINE km == IF r.km = 0 THEN 0 ELSE Plan!Track(v.km + r.km - odometer, 1)
           days == IF r.days = 0 THEN 0 ELSE Plan!Track(v.at + r.days - today, 0)
<1>4. Plan!Severity(r, v) = IF km > days THEN km ELSE days
  BY <1>2 DEF Plan!Severity
<1>5. Plan!Severity(r, v)' = IF km' > days' THEN km' ELSE days'
  BY <1>2, <1>3 DEF Plan!Severity, Plan!Qualifies
<1>6. km \in 0 .. 3 /\ days \in 0 .. 3 /\ km' \in 0 .. 3 /\ days' \in 0 .. 3
  BY DEF Plan!Track
<1>7. (km >= 2 => km' >= 2) /\ (days >= 2 => days' >= 2)
  BY <1>1 DEF Plan!Track
<1> HIDE DEF km, days
<1> QED BY <1>4, <1>5, <1>6, <1>7

LEMMA TimePasses == ASSUME PlanInv, Plan!Next PROVE today' >= today
<1>1. today \in Nat
  BY PlanAssumption DEF PlanInv, Records
<1>2. ASSUME Plan!Settings PROVE today' = today
  BY <1>2 DEF Plan!Settings, Plan!UpdateRule, Plan!SetMargin, Plan!SwitchItem
<1>3. ASSUME Plan!History PROVE today' = today \/ today' = today + 1
  BY <1>3 DEF Plan!History, Plan!Visited, Plan!ReplaceLines, Plan!DeleteVisit, Plan!Report, Plan!Day
<1>4. ASSUME NEW w \in Threads, Plan!Inserts(w) PROVE today' = today
  BY <1>4 DEF Plan!Inserts, Plan!PublishRead, Plan!NumberRead, Plan!RuleRead, Plan!Begin,
       Plan!PublishCommit,
              Plan!RuleCommit, Plan!Abort
<1>5. today' = today \/ today' = today + 1
  BY <1>2, <1>3, <1>4 DEF Plan!Next
<1> QED BY <1>1, <1>5

(* status.py: a vehicle that is due stays on the call list whatever time   *)
(* passes and whatever else is done to it, until the item is served or the *)
(* plan is changed, for any intervals, visits, limits and margins.         *)
THEOREM DueStaysDue == BackOfficeSpec => DueUntilServed
<1>1. BackOfficeInit => PlanInv
  BY PlanInitially DEF BackOfficeInit
<1>2. PlanInv /\ [BackOfficeNext]_backOfficeVars => PlanInv'
  BY OnePartMoves, PlanNextKeeps
<1> DEFINE Step ==
        /\ odometer' >= odometer /\ UNCHANGED <<Plan!plan, catalogued>>
        /\ Plan!OnCallList
        /\ \A i \in Plan!Picked : Plan!Proofs(rules[i])' = Plan!Proofs(rules[i])
        => Plan!OnCallList'
<1>3. ASSUME PlanInv, PlanInv', [Plan!Next]_plan PROVE [Step]_Plan!vars
  <2> SUFFICES ASSUME Plan!Next, odometer' >= odometer, UNCHANGED <<Plan!plan, catalogued>>,
                      Plan!OnCallList,
                      \A i \in Plan!Picked : Plan!Proofs(rules[i])' = Plan!Proofs(rules[i])
               PROVE  Plan!OnCallList'
    BY <1>3 DEF plan, Plan!vars, Plan!board, Plan!plan, Plan!record
  <2>1. rules' = rules /\ margin' = margin /\ catalogued' = catalogued
    BY DEF Plan!plan
  <2>2. today' >= today
    BY <1>3, TimePasses
  <2>3. PICK i \in Plan!Picked : \E v \in Plan!LastEvents(rules[i]) : Plan!Severity(rules[i], v) >= 2
    BY DEF Plan!OnCallList, Plan!Due
  <2>4. PICK v \in Plan!LastEvents(rules[i]) : Plan!Severity(rules[i], v) >= 2
    BY <2>3
  <2>5. Plan!Picked' = Plan!Picked
    BY <2>1 DEF Plan!Picked
  <2>6. v \in Plan!LastEvents(rules[i])'
    BY <2>1, <2>4 DEF Plan!LastEvents, Plan!Newest
  <2>7. rules[i] \in Plan!Rule /\ v \in Plan!Visit
    <3>1. i \in DOMAIN rules
      BY DEF Plan!Picked
    <3>2. v \in visits
      BY <2>4 DEF Plan!LastEvents, Plan!Newest, Plan!Proofs
    <3> QED BY <1>3, <3>1, <3>2 DEF PlanInv, Records
  <2>8. Plan!Severity(rules[i], v)' >= 2
    BY <1>3, <2>1, <2>2, <2>4, <2>7, SeverityGrows DEF PlanInv
  <2> QED BY <2>1, <2>5, <2>6, <2>8 DEF Plan!OnCallList, Plan!Due
<1>4. DueUntilServed <=> [][Step]_Plan!vars
  BY DEF DueUntilServed, Plan!DueUntilServed
<1>5. PlanInv /\ PlanInv' /\ [BackOfficeNext]_backOfficeVars => [Step]_Plan!vars
  BY <1>3, OnePartMoves
<1> HIDE DEF Step
<1> QED BY <1>1, <1>2, <1>4, <1>5, PTL DEF BackOfficeSpec

--------------------------------------------------------------------------------
(* Garages.  A review that approves found no vehicle of its VIN, and no    *)
(* primary one of its customer's if it makes its own primary; a merge has  *)
(* in hand all that its customer has in the tables it has updated; and     *)
(* nobody writes for a customer                                            *)
(* who was merged.  All of it holds as long as no other handler had the    *)
(* VIN, the request or the customer at the same time.                      *)

Writing == {"submit", "append", "approve", "clear", "review", "issue", "claim"}
GarageOps == Writing \cup {"idle", "merge"}
Things == Papers \cup GarageVins \cup Garage!VehicleId \cup Customers \cup {NoOne}
RowNames == Papers \cup Garage!VehicleId \cup (Garage!VehicleId \X (1 .. Certs))
Reads == {"none", "clear", "same", "near", "far", "absent"} \cup Garage!RequestStatus

GarageTxn == [op : GarageOps, by : Customers \cup {NoOne}, on : Things, read : Reads,
              to : Customers \cup Garage!RequestStatus \cup {"none"}, primary : BOOLEAN,
              moved : 0 .. 4, held : [Garage!Tables -> SUBSET RowNames]]

Made(p) == request[p] # Garage!NoRequest

(* What a session is about. *)
About(x) ==
    /\ x.op # "idle" => x.by \in Customers
    /\ x.op = "submit" => x.on \in GarageVins
    /\ x.op \in {"append", "approve", "clear", "review"} =>
          x.on \in Papers /\ Made(x.on) /\ x.to \in Garage!RequestStatus
    /\ x.op \in {"issue", "claim"} => x.on \in Garage!VehicleId
    /\ x.op = "merge" => /\ x.to \in Customers /\ x.to # x.by
                         /\ \A p \in Papers : p \in x.held["requests"] => Made(p)

GarageTypes ==
    /\ merged \in [Customers -> Customers \cup {NoOne}]
    /\ request \in [Papers -> Garage!Request]
    /\ vehicles \subseteq Garage!Vehicle /\ \A v \in vehicles : Made(v.id[1])
    /\ certs \subseteq Garage!Cert /\ IsFiniteSet(certs)
    /\ claims \subseteq Garage!Claim
    /\ pair \in {"none", "pending", "confirmed", "dismissed", "merged"}
    /\ garageTxn \in [Threads -> GarageTxn] /\ \A w \in Threads : About(garageTxn[w])
    /\ garageRaced \subseteq Customers \cup Papers \cup GarageVins
    /\ joined \subseteq Customers

Approves(x) == x.op \in {"clear", "review"} /\ x.to = "approved"
ReviewKnows(x) == Approves(x) =>
    /\ request[x.on].vin \notin garageRaced => Garage!OfVin(request[x.on].vin) = {}
    /\ x.op = "review" /\ x.primary /\ x.by \notin garageRaced \cup joined
          => ~Garage!HasPrimary(x.by)

Rows(t, c) == Garage!RowsOf(t, c)
MergeKnows(x) ==
    x.op = "merge" /\ x.by \notin garageRaced \cup joined =>
        \A i \in 1 .. x.moved :
            Rows(Garage!MergeOrder[i], x.by) \subseteq x.held[Garage!MergeOrder[i]]

(* A customer who was merged, and whom no one has raced for: nobody writes *)
(* for them.                                                               *)
Settled(c) == merged[c] # NoOne /\ c \notin garageRaced \cup joined
NoneWrite(c) == \A w \in Threads : garageTxn[w].op \in Writing => garageTxn[w].by # c
Bare(c) == \A t \in Garage!Tables : Rows(t, c) = {}

GarageInv ==
    /\ GarageTypes
    /\ \A w \in Threads : ReviewKnows(garageTxn[w]) /\ MergeKnows(garageTxn[w])
    /\ GarageSound
    /\ \A c \in Customers : Settled(c) => NoneWrite(c) /\ Bare(c)

LEMMA OrderOfTables ==
    /\ Len(Garage!MergeOrder) = 4 /\ DOMAIN Garage!MergeOrder = 1 .. 4
    /\ \A i \in 1 .. 4 : Garage!MergeOrder[i] \in Garage!Tables
    /\ \A t \in Garage!Tables : \E i \in 1 .. 4 : Garage!MergeOrder[i] = t
<1>1. Len(Garage!MergeOrder) = 4 /\ DOMAIN Garage!MergeOrder = 1 .. 4
  BY DEF Garage!MergeOrder
<1>2. /\ Garage!MergeOrder[1] = "vehicles" /\ Garage!MergeOrder[2] = "certs"
      /\ Garage!MergeOrder[3] = "claims" /\ Garage!MergeOrder[4] = "requests"
  BY DEF Garage!MergeOrder
<1>3. \A i \in 1 .. 4 : i = 1 \/ i = 2 \/ i = 3 \/ i = 4
  OBVIOUS
<1>4. 1 \in 1 .. 4 /\ 2 \in 1 .. 4 /\ 3 \in 1 .. 4 /\ 4 \in 1 .. 4
  OBVIOUS
<1> QED BY <1>1, <1>2, <1>3, <1>4 DEF Garage!Tables

LEMMA RowsByTable ==
    ASSUME NEW c
    PROVE  /\ Rows("vehicles", c) = {v.id : v \in {u \in vehicles : u.owner = c}}
           /\ Rows("certs", c) = {<<k.of, k.no>> : k \in {j \in certs : j.owner = c}}
           /\ Rows("claims", c) = {k.of : k \in {j \in claims : j.owner = c}}
           /\ Rows("requests", c) = {p \in Papers : request[p].by = c}
  BY DEF Rows, Garage!RowsOf

LEMMA GarageNoTxn ==
    /\ Garage!NoTxn \in GarageTxn /\ Garage!NoTxn.op = "idle" /\ Garage!NoTxn.moved = 0
    /\ Garage!NoTxn.held["requests"] = {}
  BY DEF Garage!NoTxn, GarageTxn, GarageOps, Things, Reads, Garage!Tables

LEMMA GarageNewSession ==
    ASSUME NEW op \in GarageOps, NEW by \in Customers, NEW on \in Things
    PROVE  LET s == Garage!Session(op, by, on)
           IN /\ s \in GarageTxn /\ s.op = op /\ s.by = by /\ s.on = on
              /\ s.moved = 0 /\ s.held["requests"] = {}
  BY GarageNoTxn DEF Garage!Session, GarageTxn

LEMMA IdleKnows == ASSUME NEW x, x.op = "idle" PROVE About(x) /\ ReviewKnows(x) /\ MergeKnows(x)
  BY DEF About, ReviewKnows, Approves, MergeKnows

LEMMA GarageInitially == Garage!Init => GarageInv
<1> SUFFICES ASSUME Garage!Init PROVE GarageInv
  OBVIOUS
<1>1. \A w \in Threads : garageTxn[w] = Garage!NoTxn
  BY DEF Garage!Init
<1>2. GarageTypes
  <2>1. garageTxn \in [Threads -> GarageTxn] /\ \A w \in Threads : About(garageTxn[w])
    BY <1>1, GarageNoTxn, IdleKnows DEF Garage!Init
  <2> QED BY <2>1, FS_EmptySet DEF Garage!Init, GarageTypes, Garage!Request
<1>3. \A w \in Threads : ReviewKnows(garageTxn[w]) /\ MergeKnows(garageTxn[w])
  BY <1>1, GarageNoTxn, IdleKnows
<1>4. GarageSound /\ \A c \in Customers : ~Settled(c)
  BY DEF Garage!Init, GarageSound, Garage!GarageSound, Settled
<1> QED BY <1>2, <1>3, <1>4 DEF GarageInv

(* A session that moves on knows what it read, and the others what they    *)
(* knew.                                                                   *)
LEMMA GarageMovesOn ==
    ASSUME GarageInv, NEW w \in Threads, NEW x \in GarageTxn,
           garageTxn' = [garageTxn EXCEPT ![w] = x],
           UNCHANGED <<merged, request, vehicles, certs, claims, pair, garageRaced, joined>>,
           About(x), ReviewKnows(x), MergeKnows(x),
           x.op \in Writing => ~Settled(x.by)
    PROVE  GarageInv'
<1>2. garageTxn'[w] = x /\ \A u \in Threads \ {w} : garageTxn'[u] = garageTxn[u]
  BY DEF GarageInv, GarageTypes
<1>3. /\ \A i : Made(i)' = Made(i)
      /\ \A c, i : Garage!HasPrimary(c)' = Garage!HasPrimary(c) /\ Garage!OfVin(i)' = Garage!OfVin(i)
  BY DEF Made, Garage!HasPrimary, Garage!OfVin, Garage!VinOf
<1>4. \A i, c : Rows(i, c)' = Rows(i, c)
  BY DEF Rows, Garage!RowsOf
<1>5. ASSUME NEW u \in Threads
      PROVE  About(garageTxn[u])' /\ ReviewKnows(garageTxn[u])' /\ MergeKnows(garageTxn[u])'
  <2>1. PICK y : y = garageTxn'[u] /\ About(y) /\ ReviewKnows(y) /\ MergeKnows(y)
    <3>1. CASE u = w
      BY <1>2, <3>1
    <3>2. CASE u # w
      BY <1>2, <3>2 DEF GarageInv, GarageTypes
    <3> QED BY <3>1, <3>2
  <2>2. About(garageTxn[u])'
    BY <1>3, <2>1 DEF About
  <2>3. ReviewKnows(garageTxn[u])'
    BY <1>3, <2>1 DEF ReviewKnows, Approves
  <2>4. MergeKnows(garageTxn[u])'
    BY <1>4, <2>1 DEF MergeKnows
  <2> QED BY <2>2, <2>3, <2>4
<1>6. GarageTypes'
  BY <1>3, <1>5 DEF GarageInv, GarageTypes
<1>7. GarageSound'
  BY DEF GarageInv, GarageSound, Garage!GarageSound, Garage!VinOf
<1>8. ASSUME NEW c \in Customers, Settled(c)' PROVE NoneWrite(c)' /\ Bare(c)'
  <2>1. Settled(c) /\ Bare(c)' = Bare(c)
    BY <1>4, <1>8 DEF Settled, Bare
  <2> QED BY <1>2, <2>1 DEF GarageInv, NoneWrite
<1> QED BY <1>5, <1>6, <1>7, <1>8 DEF GarageInv

LEMMA GarageBeginKeeps ==
    ASSUME GarageInv, NEW w \in Threads, NEW x \in GarageTxn, Garage!Begin(w, x),
           About(x), ReviewKnows(x), x.op = "merge" => x.moved = 0,
           x.op \in Writing => ~Settled(x.by)
    PROVE  GarageInv'
<1>1. /\ garageTxn' = [garageTxn EXCEPT ![w] = x]
      /\ UNCHANGED <<merged, request, vehicles, certs, claims, pair, garageRaced, joined>>
  BY DEF Garage!Begin, Garage!rows
<1>2. MergeKnows(x)
  BY DEF MergeKnows
<1> QED BY <1>1, <1>2, GarageMovesOn

LEMMA GarageReadsKeep ==
    ASSUME GarageInv, NEW w \in Threads,
           \/ \E c \in Customers, x \in GarageVins : Garage!SubmitRead(w, c, x)
           \/ \E p \in Papers : Garage!AppendRead(w, p)
           \/ \E p \in Papers, to \in Labels : Garage!ReviewRead(w, p, to)
           \/ \E v \in vehicles : Garage!CertificateRead(w, v)
           \/ \E v \in vehicles, o \in {"same", "near", "far"} : Garage!ClaimRead(w, v, o)
           \/ \E c, d \in Customers : Garage!MergeRead(w, c, d)
    PROVE  GarageInv'
<1>1. ASSUME NEW c \in Customers, NEW vin1 \in GarageVins, Garage!SubmitRead(w, c, vin1) PROVE GarageInv'
  <2> DEFINE s == Garage!Session("submit", c, vin1)
             x == [s EXCEPT !.read = "clear"]
  <2>1. s \in GarageTxn /\ s.op = "submit" /\ s.by = c /\ s.on = vin1
    BY GarageNewSession DEF GarageOps, Writing, Things
  <2> HIDE DEF s
  <2>2. x \in GarageTxn /\ x.op = "submit" /\ x.by = c /\ x.on = vin1
    BY <2>1 DEF GarageTxn, Reads
  <2>3. Garage!Begin(w, x) /\ ~Settled(c)
    BY <1>1 DEF Garage!SubmitRead, Garage!Active, Settled, s
  <2> HIDE DEF x
  <2> QED BY <2>2, <2>3, GarageBeginKeeps DEF About, ReviewKnows, Approves
<1>2. ASSUME NEW p \in Papers, Made(p)
      PROVE  /\ request[p].by \in Customers /\ request[p].vin \in GarageVins
             /\ request[p].status \in Garage!RequestStatus
             /\ ~Settled(request[p].by)
  <2>1. request[p] \in [by : Customers, vin : GarageVins, status : Garage!RequestStatus]
    BY <1>2 DEF GarageInv, GarageTypes, Garage!Request, Made
  <2>2. p \in Rows("requests", request[p].by)
    BY RowsByTable
  <2> QED BY <2>1, <2>2 DEF GarageInv, Bare, Garage!Tables
<1>3. ASSUME NEW p \in Papers, Garage!AppendRead(w, p) PROVE GarageInv'
  <2> DEFINE s == Garage!Session("append", request[p].by, p)
             x == [s EXCEPT !.read = request[p].status, !.to = "pending"]
  <2>1. Made(p)
    <3>1. request[p].status # "absent"
      BY <1>3 DEF Garage!AppendRead
    <3>2. Garage!NoRequest.status = "absent"
      BY DEF Garage!NoRequest
    <3> QED BY <3>1, <3>2 DEF Made
  <2>2. s \in GarageTxn /\ s.op = "append" /\ s.by = request[p].by /\ s.on = p
    BY <1>2, <2>1, GarageNewSession DEF GarageOps, Writing, Things
  <2>3. Garage!Begin(w, x)
    BY <1>3 DEF Garage!AppendRead
  <2> HIDE DEF s
  <2>4. x \in GarageTxn /\ x.op = "append" /\ x.by = request[p].by /\ x.on = p /\ x.to = "pending"
    BY <1>2, <2>1, <2>2 DEF GarageTxn, Reads, Garage!RequestStatus
  <2> HIDE DEF x
  <2> QED BY <1>2, <2>1, <2>3, <2>4, GarageBeginKeeps
          DEF About, ReviewKnows, Approves, Garage!RequestStatus
<1>4. ASSUME NEW p \in Papers, NEW to \in Labels, Garage!ReviewRead(w, p, to) PROVE GarageInv'
  <2> DEFINE op == IF to = "approved" THEN "approve" ELSE "review"
             s == Garage!Session(op, request[p].by, p)
             x == [s EXCEPT !.read = request[p].status, !.to = to]
  <2>1. Made(p)
    BY <1>4 DEF Garage!ReviewRead, Made
  <2>2. s \in GarageTxn /\ s.op = op /\ s.by = request[p].by /\ s.on = p
    BY <1>2, <2>1, GarageNewSession DEF GarageOps, Writing, Things
  <2>3. Garage!Begin(w, x)
    BY <1>4 DEF Garage!ReviewRead
  <2>4. to \in Garage!RequestStatus
    BY GarageAssumption DEF Garage!RequestStatus
  <2> HIDE DEF s
  <2>5. x \in GarageTxn /\ x.op = op /\ x.by = request[p].by /\ x.on = p /\ x.to = to
    BY <1>2, <2>1, <2>2, <2>4 DEF GarageTxn, Reads
  <2> HIDE DEF x
  <2>6. About(x) /\ ReviewKnows(x) /\ x.op # "merge"
    BY <1>2, <2>1, <2>4, <2>5 DEF About, ReviewKnows, Approves
  <2> QED BY <1>2, <2>1, <2>3, <2>5, <2>6, GarageBeginKeeps
<1>5. ASSUME NEW v \in vehicles
      PROVE  v.id \in Garage!VehicleId /\ v.owner \in Customers /\ ~Settled(v.owner)
  <2>1. v \in Garage!Vehicle
    BY DEF GarageInv, GarageTypes
  <2>2. v.id \in Rows("vehicles", v.owner)
    BY RowsByTable
  <2> QED BY <2>1, <2>2 DEF Garage!Vehicle, GarageInv, Bare, Garage!Tables
<1>6. ASSUME NEW v \in vehicles, Garage!CertificateRead(w, v) PROVE GarageInv'
  <2> DEFINE s == Garage!Session("issue", v.owner, v.id)
  <2>1. s \in GarageTxn /\ s.op = "issue" /\ s.by = v.owner /\ s.on = v.id
    BY <1>5, GarageNewSession DEF GarageOps, Writing, Things
  <2>2. Garage!Begin(w, s)
    BY <1>6 DEF Garage!CertificateRead
  <2> HIDE DEF s
  <2> QED BY <1>5, <2>1, <2>2, GarageBeginKeeps DEF About, ReviewKnows, Approves
<1>7. ASSUME NEW v \in vehicles, NEW o \in {"same", "near", "far"}, Garage!ClaimRead(w, v, o)
      PROVE  GarageInv'
  <2> DEFINE s == Garage!Session("claim", v.owner, v.id)
             x == [s EXCEPT !.read = o]
  <2>1. s \in GarageTxn /\ s.op = "claim" /\ s.by = v.owner /\ s.on = v.id
    BY <1>5, GarageNewSession DEF GarageOps, Writing, Things
  <2>2. Garage!Begin(w, x)
    BY <1>7 DEF Garage!ClaimRead
  <2> HIDE DEF s
  <2>3. x \in GarageTxn /\ x.op = "claim" /\ x.by = v.owner /\ x.on = v.id
    BY <2>1 DEF GarageTxn, Reads
  <2> HIDE DEF x
  <2> QED BY <1>5, <2>2, <2>3, GarageBeginKeeps DEF About, ReviewKnows, Approves
<1>8. ASSUME NEW c \in Customers, NEW d \in Customers, Garage!MergeRead(w, c, d) PROVE GarageInv'
  <2> DEFINE s == Garage!Session("merge", c, c)
             x == [s EXCEPT !.to = d]
  <2>1. /\ s \in GarageTxn /\ s.op = "merge" /\ s.by = c /\ s.on = c
        /\ s.moved = 0 /\ s.held["requests"] = {}
    BY GarageNewSession DEF GarageOps, Things
  <2>2. Garage!Begin(w, x) /\ c # d
    BY <1>8 DEF Garage!MergeRead
  <2> HIDE DEF s
  <2>3. /\ x \in GarageTxn /\ x.op = "merge" /\ x.by = c /\ x.on = c /\ x.to = d
        /\ x.moved = 0 /\ x.held["requests"] = {}
    BY <2>1 DEF GarageTxn
  <2> HIDE DEF x
  <2> QED BY <2>2, <2>3, GarageBeginKeeps DEF About, ReviewKnows, Approves, Writing
<1> QED BY <1>1, <1>3, <1>4, <1>6, <1>7, <1>8

(* The checks of an approval. *)
LEMMA GarageChecksKeep ==
    ASSUME GarageInv, NEW w \in Threads, Garage!OwnedCheck(w) \/ Garage!PrimaryCheck(w)
    PROVE  GarageInv'
<1> DEFINE x == garageTxn[w]
<1>1. x \in GarageTxn /\ About(x) /\ ReviewKnows(x)
  BY DEF GarageInv, GarageTypes
<1>2. x.op \in {"approve", "clear"} => ~Settled(x.by) /\ x.by \in Customers
  BY <1>1 DEF GarageInv, NoneWrite, Writing, About
<1>3. ASSUME NEW y \in GarageTxn, x.op \in {"approve", "clear"}, y.op \in {"clear", "review"},
             y.by = x.by, y.on = x.on, y.to = x.to, Garage!Continue(w, y), ReviewKnows(y)
      PROVE  GarageInv'
  <2>1. /\ garageTxn' = [garageTxn EXCEPT ![w] = y]
        /\ UNCHANGED <<merged, request, vehicles, certs, claims, pair, garageRaced, joined>>
    BY <1>3 DEF Garage!Continue, Garage!rows
  <2>2. About(y) /\ MergeKnows(y) /\ ~Settled(y.by)
    BY <1>1, <1>2, <1>3 DEF About, MergeKnows
  <2> QED BY <1>3, <2>1, <2>2, GarageMovesOn
<1>4. ASSUME Garage!OwnedCheck(w) PROVE GarageInv'
  <2>1. PICK y : y = [x EXCEPT !.op = "clear"]
    OBVIOUS
  <2>2. /\ x.op = "approve" /\ Garage!OfVin(request[x.on].vin) = {} /\ Garage!Continue(w, y)
    BY <1>4, <2>1 DEF Garage!OwnedCheck
  <2>3. y \in GarageTxn /\ y.op = "clear" /\ y.by = x.by /\ y.on = x.on /\ y.to = x.to
    BY <1>1, <2>1 DEF GarageTxn, GarageOps, Writing
  <2>4. ReviewKnows(y)
    BY <2>2, <2>3 DEF ReviewKnows
  <2> QED BY <1>3, <2>2, <2>3, <2>4
<1>5. ASSUME Garage!PrimaryCheck(w) PROVE GarageInv'
  <2>1. PICK y : y = [x EXCEPT !.op = "review", !.primary = ~Garage!HasPrimary(x.by)]
    OBVIOUS
  <2>2. x.op = "clear" /\ Garage!Continue(w, y)
    BY <1>5, <2>1 DEF Garage!PrimaryCheck
  <2>3. /\ y \in GarageTxn /\ y.op = "review" /\ y.by = x.by /\ y.on = x.on /\ y.to = x.to
        /\ y.primary = ~Garage!HasPrimary(x.by)
    BY <1>1, <2>1 DEF GarageTxn, GarageOps, Writing
  <2>4. ReviewKnows(y)
    BY <1>1, <2>2, <2>3 DEF ReviewKnows, Approves
  <2> QED BY <1>3, <2>2, <2>3, <2>4
<1> QED BY <1>4, <1>5

(* A commit: what another handler has in hand, too, has been raced for.    *)
LEMMA GarageEnds ==
    ASSUME GarageInv, NEW w \in Threads, Garage!End(w)
    PROVE  /\ garageTxn' \in [Threads -> GarageTxn]
           /\ garageTxn'[w].op = "idle" /\ \A u \in Threads \ {w} : garageTxn'[u] = garageTxn[u]
           /\ garageRaced \subseteq garageRaced'
           /\ garageRaced' \subseteq Customers \cup Papers \cup GarageVins
           /\ \A u \in Threads \ {w}, i \in Customers \cup Papers \cup GarageVins :
                 /\ garageTxn[u].op # "idle"
                 /\ i \in Garage!Holds(garageTxn[w]) /\ i \in Garage!Holds(garageTxn[u])
                 => i \in garageRaced'
  BY GarageNoTxn DEF GarageInv, GarageTypes, Garage!End, Garage!Idle

(* The garages stay sound if the vehicles change owners only to accounts   *)
(* others are merged into, and requests keep their VINs.                   *)
LEMMA SoundStays ==
    ASSUME GarageInv, NEW f \in [vehicles -> Garage!Vehicle],
           vehicles' = {f[v] : v \in vehicles},
           \A v \in vehicles : /\ f[v].id = v.id /\ f[v].primary = v.primary
                               /\ f[v].owner = v.owner \/ f[v].owner \in joined',
           \A p \in Papers : Made(p) => Made(p)' /\ request'[p].vin = request[p].vin,
           garageRaced \subseteq garageRaced', joined \subseteq joined'
    PROVE  /\ vehicles' \subseteq Garage!Vehicle /\ \A v \in vehicles' : Made(v.id[1])'
           /\ GarageSound'
           /\ \A u \in Threads : garageTxn'[u] = garageTxn[u] => ReviewKnows(garageTxn[u])'
<1>1. \A v \in vehicles : v.id[1] \in Papers /\ Made(v.id[1])
  BY DEF GarageInv, GarageTypes, Garage!Vehicle, Garage!VehicleId
<1>2. \A v \in vehicles : /\ request'[f[v].id[1]].vin = Garage!VinOf(v) /\ Made(f[v].id[1])'
  BY <1>1 DEF Garage!VinOf
<1>3. \A v \in vehicles' : Garage!VinOf(v)' = request'[v.id[1]].vin
  BY DEF Garage!VinOf
<1>4. GarageSound'
  <2> SUFFICES ASSUME NEW v \in vehicles, NEW u \in vehicles, f[v] # f[u]
               PROVE  /\ request'[f[v].id[1]].vin = request'[f[u].id[1]].vin
                            => request'[f[v].id[1]].vin \in garageRaced'
                      /\ f[v].owner = f[u].owner /\ f[v].primary /\ f[u].primary
                            => f[v].owner \in garageRaced' \cup joined'
    BY <1>3 DEF GarageSound, Garage!GarageSound, Garage!VinOf
  <2>1. /\ Garage!VinOf(v) = Garage!VinOf(u) => Garage!VinOf(v) \in garageRaced
        /\ v.owner = u.owner /\ v.primary /\ u.primary => v.owner \in garageRaced \cup joined
    BY DEF GarageInv, GarageSound, Garage!GarageSound
  <2> QED BY <1>2, <2>1
<1>5. ASSUME NEW u \in Threads, garageTxn'[u] = garageTxn[u], Approves(garageTxn[u])
      PROVE  /\ request'[garageTxn[u].on].vin \notin garageRaced'
                  => Garage!OfVin(request[garageTxn[u].on].vin)' = {}
             /\ garageTxn[u].op = "review" /\ garageTxn[u].primary
                /\ garageTxn[u].by \notin garageRaced' \cup joined'
                   => ~Garage!HasPrimary(garageTxn[u].by)'
  <2> DEFINE x == garageTxn[u]
  <2>1. x.on \in Papers /\ request'[x.on].vin = request[x.on].vin
    BY <1>5 DEF GarageInv, GarageTypes, About, Approves
  <2>2. /\ request[x.on].vin \notin garageRaced => Garage!OfVin(request[x.on].vin) = {}
        /\ x.op = "review" /\ x.primary /\ x.by \notin garageRaced \cup joined
              => ~Garage!HasPrimary(x.by)
    BY <1>5 DEF GarageInv, ReviewKnows
  <2>3. ASSUME Garage!OfVin(request[x.on].vin) = {} PROVE Garage!OfVin(request[x.on].vin)' = {}
    BY <1>2, <1>5, <2>1, <2>3 DEF Garage!OfVin, Garage!VinOf
  <2>4. ASSUME ~Garage!HasPrimary(x.by), x.by \notin joined' PROVE ~Garage!HasPrimary(x.by)'
    BY <1>5, <2>4 DEF Garage!HasPrimary
  <2> QED BY <2>1, <2>2, <2>3, <2>4
<1>6. \A u \in Threads : garageTxn'[u] = garageTxn[u] => ReviewKnows(garageTxn[u])'
  BY <1>5 DEF ReviewKnows, Approves
<1> QED BY <1>2, <1>4, <1>6

(* Nothing is left behind if what a customer owns grows only by handlers   *)
(* for a customer who was not merged and is not being merged.              *)
LEMMA LeftStays ==
    ASSUME GarageInv, UNCHANGED merged,
           garageRaced \subseteq garageRaced', joined \subseteq joined',
           \A u \in Threads : garageTxn'[u] = garageTxn[u] \/ garageTxn'[u].op = "idle",
           \A c \in Customers : c \notin garageRaced' \cup joined' =>
               \/ \A i \in Garage!Tables : Rows(i, c)' \subseteq Rows(i, c)
               \/ /\ merged[c] = NoOne
                  /\ \A u \in Threads : garageTxn'[u].op = "merge" => garageTxn'[u].by # c
    PROVE  /\ \A u \in Threads : MergeKnows(garageTxn[u])'
           /\ \A c \in Customers : Settled(c)' => NoneWrite(c)' /\ Bare(c)'
<1>1. ASSUME NEW u \in Threads PROVE MergeKnows(garageTxn[u])'
  <2> SUFFICES ASSUME garageTxn'[u].op = "merge", garageTxn'[u].by \notin garageRaced' \cup joined',
                      NEW i \in 1 .. garageTxn'[u].moved
               PROVE  Rows(Garage!MergeOrder[i], garageTxn[u].by)'
                         \subseteq garageTxn'[u].held[Garage!MergeOrder[i]]
    BY DEF MergeKnows
  <2>1. garageTxn'[u] = garageTxn[u]
    OBVIOUS
  <2>2. /\ garageTxn[u].by \in Customers
        /\ Rows(Garage!MergeOrder[i], garageTxn[u].by) \subseteq garageTxn[u].held[Garage!MergeOrder[i]]
    BY <2>1 DEF GarageInv, GarageTypes, About, MergeKnows
  <2>3. i \in 1 .. 4
    <3>1. garageTxn[u] \in GarageTxn
      BY DEF GarageInv, GarageTypes
    <3>2. garageTxn[u].moved \in 0 .. 4
      BY <3>1 DEF GarageTxn
    <3> QED BY <2>1, <3>2
  <2>4. Garage!MergeOrder[i] \in Garage!Tables
    BY <2>3, OrderOfTables
  <2> QED BY <2>1, <2>2, <2>4
<1>2. ASSUME NEW c \in Customers, Settled(c)' PROVE NoneWrite(c)' /\ Bare(c)'
  <2>1. Settled(c) /\ c \notin garageRaced' \cup joined'
    BY <1>2 DEF Settled
  <2>2. NoneWrite(c) /\ Bare(c) /\ merged[c] # NoOne
    BY <2>1 DEF GarageInv, Settled
  <2> QED BY <2>1, <2>2 DEF NoneWrite, Writing, Bare
<1> QED BY <1>1, <1>2

(* A handler that writes for a customer nobody has raced for: they were    *)
(* not merged, and nobody is merging them.                                 *)
LEMMA WritesForTheActive ==
    ASSUME GarageInv, NEW w \in Threads, garageTxn[w].op \in Writing, Garage!End(w), joined' = joined,
           garageTxn[w].by \notin garageRaced' \cup joined'
    PROVE  /\ merged[garageTxn[w].by] = NoOne
           /\ \A u \in Threads : garageTxn'[u].op = "merge" => garageTxn'[u].by # garageTxn[w].by
<1> DEFINE c == garageTxn[w].by
<1>1. c \in Customers
  BY DEF GarageInv, GarageTypes, About, Writing
<1>2. merged[c] = NoOne
  BY <1>1, GarageEnds DEF GarageInv, Settled, NoneWrite
<1>3. ASSUME NEW u \in Threads, garageTxn'[u].op = "merge", garageTxn'[u].by = c PROVE FALSE
  <2>1. u # w /\ garageTxn'[u] = garageTxn[u]
    BY <1>3, GarageEnds
  <2>2. c \in Garage!Holds(garageTxn[w]) /\ c \in Garage!Holds(garageTxn[u])
    BY <1>3, <2>1 DEF Garage!Holds
  <2> QED BY <1>1, <1>3, <2>1, <2>2, GarageEnds
<1> QED BY <1>2, <1>3

(* What the sessions are about, if nothing that was made is unmade. *)
LEMMA AboutStays ==
    ASSUME GarageInv, \A p \in Papers : Made(p) => Made(p)',
           NEW u \in Threads, garageTxn'[u] = garageTxn[u] \/ garageTxn'[u].op = "idle"
    PROVE  About(garageTxn[u])'
  BY DEF GarageInv, GarageTypes, About

LEMMA SubmitCommitKeeps == ASSUME GarageInv, NEW w \in Threads, Garage!SubmitCommit(w) PROVE GarageInv'
<1> DEFINE x == garageTxn[w]
           new == CHOOSE p \in Papers : request[p] = Garage!NoRequest
           r == [by |-> x.by, vin |-> x.on, status |-> "pending"]
<1>1. /\ x.op = "submit" /\ new \in Papers /\ request[new] = Garage!NoRequest
      /\ request' = [request EXCEPT ![new] = r]
      /\ Garage!End(w)
      /\ UNCHANGED <<merged, vehicles, certs, claims, pair, joined>>
  BY DEF Garage!SubmitCommit
<1> HIDE DEF new
<1>2. x.by \in Customers /\ x.on \in GarageVins
  BY <1>1 DEF GarageInv, GarageTypes, About
<1>3. r \in Garage!Request /\ r # Garage!NoRequest /\ r.by = x.by
  <2>1. Garage!NoRequest.status = "absent"
    BY DEF Garage!NoRequest
  <2> QED BY <1>2, <2>1 DEF Garage!Request, Garage!RequestStatus
<1> HIDE DEF r
<1>4. /\ request'[new] = r /\ \A p \in Papers : p # new => request'[p] = request[p]
      /\ request' \in [Papers -> Garage!Request]
  BY <1>1, <1>3 DEF GarageInv, GarageTypes
<1>5. \A p \in Papers : Made(p) => Made(p)' /\ request'[p] = request[p]
  BY <1>1, <1>3, <1>4 DEF Made
<1>6. /\ vehicles' \subseteq Garage!Vehicle /\ \A v \in vehicles' : Made(v.id[1])'
      /\ GarageSound'
      /\ \A u \in Threads : garageTxn'[u] = garageTxn[u] => ReviewKnows(garageTxn[u])'
  <2> DEFINE f == [v \in vehicles |-> v]
  <2>1. f \in [vehicles -> Garage!Vehicle] /\ vehicles' = {f[v] : v \in vehicles}
    BY <1>1 DEF GarageInv, GarageTypes
  <2>2. \A v \in vehicles : f[v].id = v.id /\ f[v].primary = v.primary /\ f[v].owner = v.owner
    OBVIOUS
  <2> HIDE DEF f
  <2> QED BY <1>1, <1>5, <2>1, <2>2, GarageEnds, SoundStays
<1>7. \A u \in Threads : garageTxn'[u] = garageTxn[u] \/ garageTxn'[u].op = "idle"
  BY <1>1, GarageEnds
<1>8. ASSUME NEW c \in Customers, c \notin garageRaced' \cup joined'
      PROVE  \/ \A i \in Garage!Tables : Rows(i, c)' \subseteq Rows(i, c)
             \/ /\ merged[c] = NoOne
                /\ \A u \in Threads : garageTxn'[u].op = "merge" => garageTxn'[u].by # c
  <2>1. CASE c = x.by
    BY <1>1, <1>8, <2>1, WritesForTheActive DEF Writing
  <2>2. CASE c # x.by
    BY <1>1, <1>3, <1>4, <2>2 DEF Rows, Garage!RowsOf, Garage!Tables
  <2> QED BY <2>1, <2>2
<1>9. /\ \A u \in Threads : MergeKnows(garageTxn[u])'
      /\ \A c \in Customers : Settled(c)' => NoneWrite(c)' /\ Bare(c)'
  BY <1>1, <1>7, <1>8, GarageEnds, LeftStays
<1>10. \A u \in Threads : ReviewKnows(garageTxn[u])' /\ About(garageTxn[u])'
  BY <1>5, <1>6, <1>7, AboutStays DEF ReviewKnows, Approves
<1>11. GarageTypes'
  BY <1>1, <1>4, <1>6, <1>10, GarageEnds DEF GarageInv, GarageTypes
<1> QED BY <1>6, <1>9, <1>10, <1>11 DEF GarageInv

(* The vehicle an approval makes. *)
Delivered(w) == [id |-> <<garageTxn[w].on, w>>, owner |-> garageTxn[w].by,
                 primary |-> garageTxn[w].primary, far |-> FALSE]

(* An approval that delivers: nobody who was not raced for has the VIN,    *)
(* or a primary vehicle if this is one.                                    *)
LEMMA DeliverySound ==
    ASSUME GarageInv, NEW w \in Threads, garageTxn[w].op = "review", Approves(garageTxn[w]),
           Garage!End(w), joined' = joined,
           NEW d, d = Delivered(w), vehicles' = vehicles \cup {d},
           \A p \in Papers : Made(p) => Made(p)' /\ request'[p].vin = request[p].vin
    PROVE  /\ vehicles' \subseteq Garage!Vehicle /\ \A v \in vehicles' : Made(v.id[1])'
           /\ GarageSound'
           /\ \A u \in Threads : garageTxn'[u] = garageTxn[u] => ReviewKnows(garageTxn[u])'
<1> DEFINE x == garageTxn[w]
           a == request[x.on].vin
<1>1. x.op = "review" /\ x.on \in Papers /\ Made(x.on) /\ x.by \in Customers /\ x.primary \in BOOLEAN
  BY DEF GarageInv, GarageTypes, About, Approves, GarageTxn
<1>2. d.id[1] = x.on /\ d.owner = x.by /\ d.primary = x.primary /\ d \in Garage!Vehicle
  BY <1>1 DEF Delivered, Garage!Vehicle, Garage!VehicleId
<1>3. a \in GarageVins
  BY <1>1 DEF GarageInv, GarageTypes, Garage!Request, Made
<1>4. \A v \in vehicles : v.id[1] \in Papers /\ Made(v.id[1])
  BY DEF GarageInv, GarageTypes, Garage!Vehicle, Garage!VehicleId
<1>5. \A v \in vehicles : Garage!VinOf(v)' = Garage!VinOf(v)
  BY <1>4 DEF Garage!VinOf
<1>6. Garage!VinOf(d)' = a
  BY <1>1, <1>2 DEF Garage!VinOf
<1>7. a \notin garageRaced' => Garage!OfVin(a) = {}
  BY GarageEnds DEF GarageInv, ReviewKnows
<1>8. x.primary /\ x.by \notin garageRaced' \cup joined' => ~Garage!HasPrimary(x.by)
  BY GarageEnds DEF GarageInv, ReviewKnows
<1>9. vehicles' = vehicles \cup {d}
  OBVIOUS
<1>10. ASSUME NEW v \in vehicles
       PROVE  /\ Garage!VinOf(v)' = Garage!VinOf(d)' => Garage!VinOf(v)' \in garageRaced'
              /\ v.owner = d.owner /\ v.primary /\ d.primary => v.owner \in garageRaced' \cup joined'
  BY <1>2, <1>5, <1>6, <1>7, <1>8 DEF Garage!OfVin, Garage!HasPrimary
<1>11. GarageSound'
  <2>1. ASSUME NEW v \in vehicles, NEW u \in vehicles, v # u
        PROVE  /\ Garage!VinOf(v)' = Garage!VinOf(u)' => Garage!VinOf(v)' \in garageRaced'
               /\ v.owner = u.owner /\ v.primary /\ u.primary => v.owner \in garageRaced' \cup joined'
    BY <1>5, <2>1, GarageEnds DEF GarageInv, GarageSound, Garage!GarageSound
  <2> QED BY <1>9, <1>10, <2>1 DEF GarageSound, Garage!GarageSound
<1>12. ASSUME NEW u \in Threads, garageTxn'[u] = garageTxn[u], Approves(garageTxn[u])
       PROVE  /\ request'[garageTxn[u].on].vin \notin garageRaced'
                   => Garage!OfVin(request[garageTxn[u].on].vin)' = {}
              /\ garageTxn[u].op = "review" /\ garageTxn[u].primary
                 /\ garageTxn[u].by \notin garageRaced' \cup joined'
                   => ~Garage!HasPrimary(garageTxn[u].by)'
  <2> DEFINE y == garageTxn[u]
             b == request[y.on].vin
  <2>1. /\ y.op \in {"clear", "review"} /\ y.on \in Papers /\ Made(y.on) /\ y.by \in Customers
        /\ request'[y.on].vin = b /\ b \in GarageVins
    BY <1>12 DEF GarageInv, GarageTypes, About, Approves, Garage!Request, Made
  <2>2. u # w
    BY <1>12, <2>1, GarageEnds
  <2>3. /\ b \notin garageRaced' => Garage!OfVin(b) = {}
        /\ y.op = "review" /\ y.primary /\ y.by \notin garageRaced' \cup joined'
              => ~Garage!HasPrimary(y.by)
    BY <1>12, GarageEnds DEF GarageInv, ReviewKnows
  <2>4. b = a => b \in garageRaced'
    <3>1. a \in Garage!Holds(x) /\ b \in Garage!Holds(y)
      BY <1>1, <2>1 DEF Garage!Holds
    <3> QED BY <1>3, <2>1, <2>2, <3>1, GarageEnds
  <2>5. y.by = x.by => y.by \in garageRaced'
    <3>1. x.by \in Garage!Holds(x) /\ y.by \in Garage!Holds(y)
      BY DEF Garage!Holds
    <3> QED BY <1>1, <2>1, <2>2, <3>1, GarageEnds
  <2>6. b \notin garageRaced' => Garage!OfVin(request[y.on].vin)' = {}
    <3>1. request'[garageTxn'[u].on].vin = b
      BY <1>12, <2>1
    <3> QED BY <1>5, <1>6, <1>9, <2>3, <2>4, <3>1 DEF Garage!OfVin
  <2>7. y.op = "review" /\ y.primary /\ y.by \notin garageRaced' \cup joined' => ~Garage!HasPrimary(y.by)'
    BY <1>2, <1>9, <1>12, <2>3, <2>5 DEF Garage!HasPrimary
  <2> QED BY <2>1, <2>6, <2>7
<1>13. \A u \in Threads : garageTxn'[u] = garageTxn[u] => ReviewKnows(garageTxn[u])'
  BY <1>12 DEF ReviewKnows, Approves
<1> QED BY <1>1, <1>2, <1>4, <1>9, <1>11, <1>13 DEF GarageInv, GarageTypes

LEMMA DecisionCommitKeeps ==
    ASSUME GarageInv, NEW w \in Threads, Garage!DecisionCommit(w) PROVE GarageInv'
<1> DEFINE x == garageTxn[w]
           cert == [of |-> <<x.on, w>>, owner |-> x.by, no |-> 1, lapsed |-> FALSE]
<1>1. /\ x.op \in {"append", "review"}
      /\ request' = IF x.to = x.read THEN request ELSE [request EXCEPT ![x.on].status = x.to]
      /\ IF Approves(x) THEN vehicles' = vehicles \cup {Delivered(w)} /\ certs' = certs \cup {cert}
                        ELSE UNCHANGED <<vehicles, certs>>
      /\ Garage!End(w)
      /\ UNCHANGED <<merged, claims, pair, joined>>
  BY DEF Garage!DecisionCommit, Garage!Deliver, Approves, Delivered
<1>2. /\ x.on \in Papers /\ Made(x.on) /\ x.to \in Garage!RequestStatus
      /\ x.by \in Customers /\ x.op \in Writing
  BY <1>1 DEF GarageInv, GarageTypes, About, Writing
<1>3. /\ request' \in [Papers -> Garage!Request]
      /\ \A p \in Papers : /\ Made(p) => Made(p)'
                           /\ request'[p].vin = request[p].vin /\ request'[p].by = request[p].by
  <2>1. request[x.on] \in [by : Customers, vin : GarageVins, status : Garage!RequestStatus]
    BY <1>2 DEF GarageInv, GarageTypes, Garage!Request, Made
  <2> DEFINE r == [request[x.on] EXCEPT !.status = x.to]
  <2>2. r \in [by : Customers, vin : GarageVins, status : Garage!RequestStatus]
        /\ r.by = request[x.on].by /\ r.vin = request[x.on].vin
    BY <1>2, <2>1
  <2>3. r # Garage!NoRequest /\ r \in Garage!Request
    BY <2>2 DEF Garage!NoRequest, Garage!Request, Garage!RequestStatus
  <2>4. request' = request \/ request' = [request EXCEPT ![x.on] = r]
    BY <1>1
  <2> HIDE DEF r
  <2> QED BY <1>2, <2>2, <2>3, <2>4 DEF GarageInv, GarageTypes, Made
<1>4. /\ vehicles' \subseteq Garage!Vehicle /\ \A v \in vehicles' : Made(v.id[1])'
      /\ GarageSound'
      /\ \A u \in Threads : garageTxn'[u] = garageTxn[u] => ReviewKnows(garageTxn[u])'
  <2>1. CASE Approves(x)
    <3>1. \E e : e = Delivered(w) /\ vehicles' = vehicles \cup {e}
      BY <1>1, <2>1
    <3>2. PICK e : e = Delivered(w) /\ vehicles' = vehicles \cup {e}
      BY <3>1
    <3>3. x.op = "review"
      BY <1>1, <2>1 DEF Approves
    <3> QED BY <1>1, <1>3, <2>1, <3>2, <3>3, DeliverySound
  <2>2. CASE ~Approves(x)
    <3> DEFINE f == [v \in vehicles |-> v]
    <3>1. f \in [vehicles -> Garage!Vehicle] /\ vehicles' = {f[v] : v \in vehicles}
      BY <1>1, <2>2 DEF GarageInv, GarageTypes
    <3>2. \A v \in vehicles : f[v].id = v.id /\ f[v].primary = v.primary /\ f[v].owner = v.owner
      OBVIOUS
    <3> HIDE DEF f
    <3> QED BY <1>1, <1>3, <3>1, <3>2, GarageEnds, SoundStays
  <2> QED BY <2>1, <2>2
<1>5. certs' \subseteq Garage!Cert /\ IsFiniteSet(certs')
  <2>1. CASE Approves(x)
    <3>1. cert \in Garage!Cert
      BY <1>2, GarageAssumption DEF Garage!Cert, Garage!VehicleId
    <3>2. IsFiniteSet(certs \cup {cert})
      BY FS_AddElement DEF GarageInv, GarageTypes
    <3> QED BY <1>1, <2>1, <3>1, <3>2 DEF GarageInv, GarageTypes
  <2>2. CASE ~Approves(x)
    BY <1>1, <2>2 DEF GarageInv, GarageTypes
  <2> QED BY <2>1, <2>2
<1>6. \A u \in Threads : garageTxn'[u] = garageTxn[u] \/ garageTxn'[u].op = "idle"
  BY <1>1, GarageEnds
<1>7. ASSUME NEW c \in Customers, c \notin garageRaced' \cup joined'
      PROVE  \/ \A i \in Garage!Tables : Rows(i, c)' \subseteq Rows(i, c)
             \/ /\ merged[c] = NoOne
                /\ \A u \in Threads : garageTxn'[u].op = "merge" => garageTxn'[u].by # c
  <2>1. CASE c = x.by
    BY <1>1, <1>2, <1>7, <2>1, WritesForTheActive
  <2>2. CASE c # x.by
    <3>1. \A v \in vehicles' : v \in vehicles \/ v.owner # c
      BY <1>1, <2>2 DEF Delivered
    <3>2. \A k \in certs' : k \in certs \/ k.owner # c
      BY <1>1, <2>2
    <3> QED BY <1>1, <1>3, <3>1, <3>2 DEF Rows, Garage!RowsOf, Garage!Tables
  <2> QED BY <2>1, <2>2
<1>8. /\ \A u \in Threads : MergeKnows(garageTxn[u])'
      /\ \A c \in Customers : Settled(c)' => NoneWrite(c)' /\ Bare(c)'
  BY <1>1, <1>6, <1>7, GarageEnds, LeftStays
<1>9. \A u \in Threads : ReviewKnows(garageTxn[u])' /\ About(garageTxn[u])'
  BY <1>3, <1>4, <1>6, AboutStays DEF ReviewKnows, Approves
<1>10. GarageTypes'
  BY <1>1, <1>3, <1>4, <1>5, <1>9, GarageEnds DEF GarageInv, GarageTypes
<1> QED BY <1>4, <1>8, <1>9, <1>10 DEF GarageInv

(* The steps that leave the requests and the owners alone: what they add   *)
(* is for whoever owned it, or the write of a handler.                     *)
LEMMA OwnersStay ==
    ASSUME GarageInv, UNCHANGED <<merged, request, joined>>,
           NEW f \in [vehicles -> Garage!Vehicle], vehicles' = {f[v] : v \in vehicles},
           \A v \in vehicles : f[v].id = v.id /\ f[v].primary = v.primary /\ f[v].owner = v.owner,
           certs' \subseteq Garage!Cert, IsFiniteSet(certs'), claims' \subseteq Garage!Claim,
           pair' \in {"none", "pending", "confirmed", "dismissed", "merged"},
           garageTxn' \in [Threads -> GarageTxn],
           \A u \in Threads : garageTxn'[u] = garageTxn[u] \/ garageTxn'[u].op = "idle",
           garageRaced \subseteq garageRaced',
           garageRaced' \subseteq Customers \cup Papers \cup GarageVins,
           \A c \in Customers : c \notin garageRaced' \cup joined' =>
               \/ /\ \A k \in certs' : k.owner = c => <<k.of, k.no>> \in Rows("certs", c)
                  /\ \A k \in claims' : k.owner = c => k.of \in Rows("claims", c)
               \/ /\ merged[c] = NoOne
                  /\ \A u \in Threads : garageTxn'[u].op = "merge" => garageTxn'[u].by # c
    PROVE  GarageInv'
<1>1. \A p \in Papers : (Made(p) => Made(p)') /\ request'[p].vin = request[p].vin
  BY DEF Made
<1>2. /\ vehicles' \subseteq Garage!Vehicle /\ \A v \in vehicles' : Made(v.id[1])'
      /\ GarageSound'
      /\ \A u \in Threads : garageTxn'[u] = garageTxn[u] => ReviewKnows(garageTxn[u])'
  BY <1>1, SoundStays
<1>3. ASSUME NEW c \in Customers,
             \A k \in certs' : k.owner = c => <<k.of, k.no>> \in Rows("certs", c),
             \A k \in claims' : k.owner = c => k.of \in Rows("claims", c)
      PROVE  \A i \in Garage!Tables : Rows(i, c)' \subseteq Rows(i, c)
  <2>1. Rows("vehicles", c)' \subseteq Rows("vehicles", c)
    BY RowsByTable DEF Rows, Garage!RowsOf
  <2>2. Rows("certs", c)' \subseteq Rows("certs", c) /\ Rows("claims", c)' \subseteq Rows("claims", c)
    BY <1>3 DEF Rows, Garage!RowsOf
  <2>3. Rows("requests", c)' = Rows("requests", c)
    BY DEF Rows, Garage!RowsOf
  <2> QED BY <2>1, <2>2, <2>3 DEF Garage!Tables
<1>4. /\ \A u \in Threads : MergeKnows(garageTxn[u])'
      /\ \A c \in Customers : Settled(c)' => NoneWrite(c)' /\ Bare(c)'
  BY <1>3, LeftStays
<1>5. \A u \in Threads : ReviewKnows(garageTxn[u])' /\ About(garageTxn[u])'
  BY <1>1, <1>2, AboutStays DEF ReviewKnows, Approves
<1>6. GarageTypes'
  BY <1>2, <1>5 DEF GarageInv, GarageTypes
<1> QED BY <1>2, <1>4, <1>5, <1>6 DEF GarageInv

LEMMA CertsCounted == ASSUME NEW S PROVE Garage!Cardinality(S) = Cardinality(S)
  BY DEF Garage!Cardinality, Cardinality

LEMMA IssueCommitKeeps == ASSUME GarageInv, NEW w \in Threads, Garage!IssueCommit(w) PROVE GarageInv'
<1> DEFINE x == garageTxn[w]
           no == Cardinality(Garage!CertsOf(x.on)) + 1
           cert == [of |-> x.on, owner |-> x.by, no |-> no, lapsed |-> FALSE]
<1>1. /\ x.op = "issue" /\ no <= Certs /\ certs' = certs \cup {cert} /\ Garage!End(w)
      /\ UNCHANGED <<merged, request, vehicles, claims, pair, joined>>
  BY Zenon, CertsCounted DEF Garage!IssueCommit
<1>2. x.by \in Customers /\ x.on \in Garage!VehicleId /\ x.op \in Writing
  BY <1>1 DEF GarageInv, GarageTypes, About, Writing
<1>3. no \in 1 .. Certs
  <2>1. IsFiniteSet(Garage!CertsOf(x.on))
    BY FS_Subset DEF GarageInv, GarageTypes, Garage!CertsOf
  <2> QED BY <1>1, <2>1, FS_CardinalityType, GarageAssumption
<1> HIDE DEF no
<1>4. cert \in Garage!Cert
  BY <1>2, <1>3 DEF Garage!Cert
<1>5. certs' \subseteq Garage!Cert /\ IsFiniteSet(certs')
  BY <1>1, <1>4, FS_AddElement DEF GarageInv, GarageTypes
<1>6. \A c \in Customers : c \notin garageRaced' \cup joined' =>
               \/ /\ \A k \in certs' : k.owner = c => <<k.of, k.no>> \in Rows("certs", c)
                  /\ \A k \in claims' : k.owner = c => k.of \in Rows("claims", c)
               \/ /\ merged[c] = NoOne
                  /\ \A u \in Threads : garageTxn'[u].op = "merge" => garageTxn'[u].by # c
  BY <1>1, <1>2, WritesForTheActive, RowsByTable
<1> DEFINE f == [v \in vehicles |-> v]
<1>7. f \in [vehicles -> Garage!Vehicle] /\ vehicles' = {f[v] : v \in vehicles}
  BY <1>1 DEF GarageInv, GarageTypes
<1>8. \A v \in vehicles : f[v].id = v.id /\ f[v].primary = v.primary /\ f[v].owner = v.owner
  OBVIOUS
<1> HIDE DEF f
<1>9. claims' \subseteq Garage!Claim /\ pair' \in {"none", "pending", "confirmed", "dismissed", "merged"}
  BY <1>1 DEF GarageInv, GarageTypes
<1>10. UNCHANGED <<merged, request, joined>>
  BY <1>1
<1>11. /\ garageTxn' \in [Threads -> GarageTxn]
       /\ \A u \in Threads : garageTxn'[u] = garageTxn[u] \/ garageTxn'[u].op = "idle"
       /\ garageRaced \subseteq garageRaced'
       /\ garageRaced' \subseteq Customers \cup Papers \cup GarageVins
  BY <1>1, GarageEnds
<1> QED BY <1>5, <1>6, <1>7, <1>8, <1>9, <1>10, <1>11, OwnersStay

LEMMA ClaimCommitKeeps == ASSUME GarageInv, NEW w \in Threads, Garage!ClaimCommit(w) PROVE GarageInv'
<1> DEFINE x == garageTxn[w]
           claim == [of |-> x.on, owner |-> x.by, status |-> "open"]
           f == [v \in vehicles |->
                   IF v.id = x.on /\ x.read = "near" THEN [v EXCEPT !.far = FALSE] ELSE v]
<1>1. /\ x.op = "claim" /\ claims' = claims \cup {claim} /\ Garage!End(w)
      /\ vehicles' = {f[v] : v \in vehicles}
      /\ UNCHANGED <<merged, request, certs, pair, joined>>
  BY DEF Garage!ClaimCommit
<1>2. x.by \in Customers /\ x.on \in Garage!VehicleId /\ x.op \in Writing
  BY <1>1 DEF GarageInv, GarageTypes, About, Writing
<1>3. claims' \subseteq Garage!Claim
  BY <1>1, <1>2 DEF GarageInv, GarageTypes, Garage!Claim, Garage!ClaimStatus
<1>4. \A v \in vehicles : f[v] \in Garage!Vehicle /\ f[v].id = v.id /\ f[v].primary = v.primary
                          /\ f[v].owner = v.owner
  BY DEF GarageInv, GarageTypes, Garage!Vehicle
<1>5. f \in [vehicles -> Garage!Vehicle]
  BY <1>4
<1> HIDE DEF f
<1>6. \A c \in Customers : c \notin garageRaced' \cup joined' =>
               \/ /\ \A k \in certs' : k.owner = c => <<k.of, k.no>> \in Rows("certs", c)
                  /\ \A k \in claims' : k.owner = c => k.of \in Rows("claims", c)
               \/ /\ merged[c] = NoOne
                  /\ \A u \in Threads : garageTxn'[u].op = "merge" => garageTxn'[u].by # c
  BY <1>1, <1>2, WritesForTheActive, RowsByTable
<1>7. /\ certs' \subseteq Garage!Cert /\ IsFiniteSet(certs')
      /\ pair' \in {"none", "pending", "confirmed", "dismissed", "merged"}
  BY <1>1 DEF GarageInv, GarageTypes
<1>8. UNCHANGED <<merged, request, joined>> /\ vehicles' = {f[v] : v \in vehicles}
  BY <1>1
<1>9. /\ garageTxn' \in [Threads -> GarageTxn]
      /\ \A u \in Threads : garageTxn'[u] = garageTxn[u] \/ garageTxn'[u].op = "idle"
      /\ garageRaced \subseteq garageRaced'
      /\ garageRaced' \subseteq Customers \cup Papers \cup GarageVins
  BY <1>1, GarageEnds
<1> QED BY <1>3, <1>4, <1>5, <1>6, <1>7, <1>8, <1>9, OwnersStay

LEMMA QuietStepsKeep ==
    ASSUME GarageInv,
           \/ Garage!Wear
           \/ \E w \in Threads : \/ \E k \in claims, to \in Garage!ClaimStatus : Garage!DecideClaim(w, k, to)
                                 \/ Garage!Detect(w)
                                 \/ \E to \in {"confirmed", "dismissed"} : Garage!LabelPair(w, to)
                                 \/ Garage!Abort(w)
    PROVE  GarageInv'
<1> SUFFICES ASSUME NEW f \in [vehicles -> Garage!Vehicle], vehicles' = {f[v] : v \in vehicles},
                    \A v \in vehicles : f[v].id = v.id /\ f[v].primary = v.primary /\ f[v].owner = v.owner
             PROVE  GarageInv'
  <2>1. CASE UNCHANGED vehicles
    <3> DEFINE f == [v \in vehicles |-> v]
    <3>1. f \in [vehicles -> Garage!Vehicle] /\ vehicles' = {f[v] : v \in vehicles}
      BY <2>1 DEF GarageInv, GarageTypes
    <3>2. \A v \in vehicles : f[v].id = v.id /\ f[v].primary = v.primary /\ f[v].owner = v.owner
      OBVIOUS
    <3> HIDE DEF f
    <3> QED BY <3>1, <3>2
  <2>2. ASSUME NEW u \in vehicles, vehicles' = (vehicles \ {u}) \cup {[u EXCEPT !.far = TRUE]}
        PROVE  GarageInv'
    <3> DEFINE f == [v \in vehicles |-> IF v = u THEN [v EXCEPT !.far = TRUE] ELSE v]
    <3>1. \A v \in vehicles : f[v] \in Garage!Vehicle /\ f[v].id = v.id /\ f[v].primary = v.primary
                              /\ f[v].owner = v.owner
      BY DEF GarageInv, GarageTypes, Garage!Vehicle
    <3>2. vehicles' = {f[v] : v \in vehicles}
      BY <2>2
    <3>3. f \in [vehicles -> Garage!Vehicle]
      BY <3>1
    <3> HIDE DEF f
    <3> QED BY <3>1, <3>2, <3>3
  <2>3. UNCHANGED vehicles \/ \E u \in vehicles : vehicles' = (vehicles \ {u}) \cup {[u EXCEPT !.far = TRUE]}
    BY DEF Garage!Wear, Garage!DecideClaim, Garage!Detect, Garage!LabelPair, Garage!Abort, Garage!rows
  <2> QED BY <2>1, <2>2, <2>3
<1>1. UNCHANGED <<merged, request, joined, garageRaced>>
  BY DEF Garage!Wear, Garage!DecideClaim, Garage!Detect, Garage!LabelPair, Garage!Abort, Garage!rows
<1>2. /\ certs' \subseteq Garage!Cert /\ IsFiniteSet(certs')
      /\ \A k \in certs' : \E j \in certs : k.of = j.of /\ k.no = j.no /\ k.owner = j.owner
  <2>1. CASE UNCHANGED certs
    BY <2>1 DEF GarageInv, GarageTypes
  <2>2. ASSUME NEW c \in certs, certs' = (certs \ {c}) \cup {[c EXCEPT !.lapsed = TRUE]}
        PROVE  /\ certs' \subseteq Garage!Cert /\ IsFiniteSet(certs')
               /\ \A k \in certs' : \E j \in certs : k.of = j.of /\ k.no = j.no /\ k.owner = j.owner
    <3> DEFINE d == [c EXCEPT !.lapsed = TRUE]
    <3>1. d \in Garage!Cert /\ d.of = c.of /\ d.no = c.no /\ d.owner = c.owner
      BY DEF GarageInv, GarageTypes, Garage!Cert
    <3> HIDE DEF d
    <3>2. certs' = (certs \ {c}) \cup {d}
      BY <2>2 DEF d
    <3>3. IsFiniteSet((certs \ {c}) \cup {d})
      BY FS_AddElement, FS_RemoveElement DEF GarageInv, GarageTypes
    <3> QED BY <3>1, <3>2, <3>3 DEF GarageInv, GarageTypes
  <2>3. UNCHANGED certs \/ \E c \in certs : certs' = (certs \ {c}) \cup {[c EXCEPT !.lapsed = TRUE]}
    BY DEF Garage!Wear, Garage!DecideClaim, Garage!Detect, Garage!LabelPair, Garage!Abort, Garage!rows
  <2> QED BY <2>1, <2>2, <2>3
<1>3. claims' \subseteq Garage!Claim /\ \A k \in claims' : \E j \in claims : k.of = j.of /\ k.owner = j.owner
  <2>1. CASE UNCHANGED claims
    BY <2>1 DEF GarageInv, GarageTypes
  <2>2. ASSUME NEW c \in claims, NEW to \in Garage!ClaimStatus,
               claims' = (claims \ {c}) \cup {[c EXCEPT !.status = to]}
        PROVE  /\ claims' \subseteq Garage!Claim
               /\ \A k \in claims' : \E j \in claims : k.of = j.of /\ k.owner = j.owner
    BY <2>2 DEF GarageInv, GarageTypes, Garage!Claim
  <2> QED BY <2>1, <2>2 DEF Garage!Wear, Garage!DecideClaim, Garage!Detect, Garage!LabelPair, Garage!Abort,
                             Garage!rows
<1>4. pair' \in {"none", "pending", "confirmed", "dismissed", "merged"}
  BY DEF GarageInv, GarageTypes, Garage!Wear, Garage!DecideClaim, Garage!Detect, Garage!LabelPair,
         Garage!Abort, Garage!rows
<1>5. /\ garageTxn' \in [Threads -> GarageTxn]
      /\ \A u \in Threads : garageTxn'[u] = garageTxn[u] \/ garageTxn'[u].op = "idle"
  BY GarageNoTxn DEF GarageInv, GarageTypes, Garage!Wear, Garage!DecideClaim, Garage!Detect,
                     Garage!LabelPair, Garage!Abort
<1>6. \A c \in Customers :
         /\ \A k \in certs' : k.owner = c => <<k.of, k.no>> \in Rows("certs", c)
         /\ \A k \in claims' : k.owner = c => k.of \in Rows("claims", c)
  BY <1>2, <1>3, RowsByTable
<1>7. garageRaced' \subseteq Customers \cup Papers \cup GarageVins
  BY <1>1 DEF GarageInv, GarageTypes
<1> QED BY <1>1, <1>2, <1>3, <1>4, <1>5, <1>6, <1>7, OwnersStay

(* What a merge has in hand was made, and is all that its customer has in  *)
(* the tables it has updated.                                              *)
LEMMA MergeMoveKeeps == ASSUME GarageInv, NEW w \in Threads, Garage!MergeMove(w) PROVE GarageInv'
<1> DEFINE x == garageTxn[w]
<1>1. x.op = "merge" /\ x \in GarageTxn /\ About(x) /\ MergeKnows(x)
  BY DEF Garage!MergeMove, GarageInv, GarageTypes
<1>2. PICK c \in Customers : c = x.by
  BY <1>1 DEF About
<1>3. PICK next : next = x.moved + 1 /\ next \in 1 .. 4
  BY <1>1, OrderOfTables DEF Garage!MergeMove
<1>4. PICK i \in Garage!Tables : i = Garage!MergeOrder[next]
  BY <1>3, OrderOfTables
<1>5. PICK y : y = [x EXCEPT !.moved = next, !.held[i] = Rows(i, c)]
  OBVIOUS
<1>6. /\ garageTxn' = [garageTxn EXCEPT ![w] = y]
      /\ UNCHANGED <<merged, request, vehicles, certs, claims, pair, garageRaced, joined>>
  BY <1>2, <1>3, <1>4, <1>5 DEF Garage!MergeMove, Garage!Continue, Garage!rows, Rows
<1>7. Rows(i, c) \subseteq RowNames
  <2>1. Rows("vehicles", c) \subseteq RowNames /\ Rows("claims", c) \subseteq RowNames
    BY RowsByTable DEF GarageInv, GarageTypes, Garage!Vehicle, Garage!Claim, RowNames
  <2>2. Rows("certs", c) \subseteq RowNames
    BY RowsByTable DEF GarageInv, GarageTypes, Garage!Cert, RowNames
  <2>3. Rows("requests", c) \subseteq RowNames
    BY RowsByTable DEF RowNames
  <2> QED BY <2>1, <2>2, <2>3 DEF Garage!Tables
<1>8. /\ y \in GarageTxn /\ y.op = "merge" /\ y.by = c /\ y.to = x.to /\ y.moved = next
      /\ \A j \in Garage!Tables : y.held[j] = IF j = i THEN Rows(i, c) ELSE x.held[j]
  <2>1. x.held \in [Garage!Tables -> SUBSET RowNames] /\ next \in 0 .. 4
    BY <1>1, <1>3 DEF GarageTxn
  <2>2. [x.held EXCEPT ![i] = Rows(i, c)] \in [Garage!Tables -> SUBSET RowNames]
    BY <1>7, <2>1
  <2>3. y = [x EXCEPT !.moved = next, !.held = [x.held EXCEPT ![i] = Rows(i, c)]]
    BY <1>1, <1>5 DEF GarageTxn
  <2> QED BY <1>1, <1>2, <2>1, <2>2, <2>3 DEF GarageTxn
<1>9. ASSUME NEW p \in Papers, p \in Rows("requests", c) PROVE Made(p)
  <2>1. request[p].by = c
    BY <1>9, RowsByTable
  <2> QED BY <2>1, GarageAssumption DEF Made, Garage!NoRequest
<1>10. About(y)
  <2>1. \A p \in Papers : p \in y.held["requests"] => Made(p)
    BY <1>1, <1>8, <1>9 DEF About, Garage!Tables
  <2> QED BY <1>1, <1>2, <1>8, <2>1 DEF About
<1>11. MergeKnows(y)
  <2> SUFFICES ASSUME c \notin garageRaced \cup joined, NEW j \in 1 .. next
               PROVE  Rows(Garage!MergeOrder[j], c) \subseteq y.held[Garage!MergeOrder[j]]
    BY <1>8 DEF MergeKnows
  <2>1. Garage!MergeOrder[j] \in Garage!Tables /\ x.moved \in Nat
    BY <1>1, <1>3, OrderOfTables DEF GarageTxn
  <2>2. CASE Garage!MergeOrder[j] = i
    BY <1>8, <2>1, <2>2
  <2>3. CASE Garage!MergeOrder[j] # i
    <3>1. j \in 1 .. x.moved
      BY <1>3, <1>4, <2>1, <2>3
    <3>2. Rows(Garage!MergeOrder[j], c) \subseteq x.held[Garage!MergeOrder[j]]
      BY <1>1, <1>2, <3>1 DEF MergeKnows
    <3> QED BY <1>8, <2>1, <2>3, <3>2
  <2> QED BY <2>2, <2>3
<1>12. ReviewKnows(y) /\ y.op \notin Writing
  BY <1>8 DEF ReviewKnows, Approves, Writing
<1> QED BY <1>6, <1>8, <1>10, <1>11, <1>12, GarageMovesOn

LEMMA MergeCommitKeeps == ASSUME GarageInv, NEW w \in Threads, Garage!MergeCommit(w) PROVE GarageInv'
<1> DEFINE x == garageTxn[w]
           TookCert(k) == IF <<k.of, k.no>> \in x.held["certs"] THEN Garage!Moved(x, k) ELSE k
           TookClaim(k) == IF k.of \in x.held["claims"] THEN Garage!Moved(x, k) ELSE k
           f == [v \in vehicles |-> IF v.id \in x.held["vehicles"] THEN Garage!Moved(x, v) ELSE v]
<1>1. /\ x.op = "merge" /\ x.moved = 4
      /\ request' = [p \in Papers |->
             IF p \in x.held["requests"] THEN [request[p] EXCEPT !.by = x.to] ELSE request[p]]
      /\ vehicles' = {f[v] : v \in vehicles}
      /\ certs' = {TookCert(k) : k \in certs} /\ claims' = {TookClaim(k) : k \in claims}
      /\ merged' = [merged EXCEPT ![x.by] = x.to]
      /\ pair' = IF pair = "none" THEN pair ELSE "merged"
      /\ joined' = joined \cup {x.to}
      /\ Garage!End(w)
  BY OrderOfTables DEF Garage!MergeCommit
<1>2. /\ x.by \in Customers /\ x.to \in Customers /\ x.to # x.by
      /\ \A p \in Papers : p \in x.held["requests"] => Made(p)
  BY <1>1 DEF GarageInv, GarageTypes, About
<1>3. \A p \in Papers : Made(p) => request[p] \in [by : Customers, vin : GarageVins,
                                                  status : Garage!RequestStatus]
  BY DEF GarageInv, GarageTypes, Garage!Request, Made
<1>4. ASSUME NEW p \in Papers
      PROVE  /\ request'[p] \in Garage!Request /\ (Made(p) => Made(p)')
             /\ request'[p].vin = request[p].vin
             /\ request'[p].by = IF p \in x.held["requests"] THEN x.to ELSE request[p].by
  <2>1. CASE p \in x.held["requests"]
    <3> DEFINE r == [request[p] EXCEPT !.by = x.to]
    <3>1. r \in [by : Customers, vin : GarageVins, status : Garage!RequestStatus]
          /\ r.by = x.to /\ r.vin = request[p].vin
      BY <1>2, <1>3, <2>1
    <3>2. r # Garage!NoRequest /\ r \in Garage!Request
      BY <3>1 DEF Garage!NoRequest, Garage!Request, Garage!RequestStatus
    <3>3. request'[p] = r
      BY <1>1, <2>1
    <3> HIDE DEF r
    <3> QED BY <2>1, <3>1, <3>2, <3>3 DEF Made
  <2>2. CASE p \notin x.held["requests"]
    BY <1>1, <2>2 DEF GarageInv, GarageTypes, Made
  <2> QED BY <2>1, <2>2
<1>5. ASSUME NEW v \in vehicles
      PROVE  /\ f[v] \in Garage!Vehicle /\ f[v].id = v.id /\ f[v].primary = v.primary
             /\ f[v].owner = IF v.id \in x.held["vehicles"] /\ v.owner = x.by THEN x.to ELSE v.owner
  BY <1>2 DEF GarageInv, GarageTypes, Garage!Vehicle, Garage!Moved
<1>6. ASSUME NEW k \in certs
      PROVE  /\ TookCert(k) \in Garage!Cert /\ TookCert(k).of = k.of /\ TookCert(k).no = k.no
             /\ TookCert(k).owner = IF <<k.of, k.no>> \in x.held["certs"] /\ k.owner = x.by
                                    THEN x.to ELSE k.owner
  BY <1>2 DEF GarageInv, GarageTypes, Garage!Cert, Garage!Moved
<1>7. ASSUME NEW k \in claims
      PROVE  /\ TookClaim(k) \in Garage!Claim /\ TookClaim(k).of = k.of
             /\ TookClaim(k).owner = IF k.of \in x.held["claims"] /\ k.owner = x.by
                                     THEN x.to ELSE k.owner
  BY <1>2 DEF GarageInv, GarageTypes, Garage!Claim, Garage!Moved
<1>8. f \in [vehicles -> Garage!Vehicle]
  BY <1>5
<1>9. IsFiniteSet(certs')
  <2> DEFINE g == [k \in certs |-> TookCert(k)]
  <2>1. g \in Surjection(certs, certs')
    BY <1>1 DEF Surjection
  <2> QED BY <2>1, FS_Surjection DEF GarageInv, GarageTypes
<1> HIDE DEF f, TookCert, TookClaim
<1>10. /\ vehicles' \subseteq Garage!Vehicle /\ \A v \in vehicles' : Made(v.id[1])'
       /\ GarageSound'
       /\ \A u \in Threads : garageTxn'[u] = garageTxn[u] => ReviewKnows(garageTxn[u])'
  <2>1. \A v \in vehicles : /\ f[v].id = v.id /\ f[v].primary = v.primary
                            /\ f[v].owner = v.owner \/ f[v].owner \in joined'
    BY <1>1, <1>5
  <2>2. \A p \in Papers : Made(p) => Made(p)' /\ request'[p].vin = request[p].vin
    BY <1>4
  <2>3. garageRaced \subseteq garageRaced' /\ joined \subseteq joined' /\ vehicles' = {f[v] : v \in vehicles}
    BY <1>1, GarageEnds
  <2> QED BY <1>8, <2>1, <2>2, <2>3, SoundStays
<1>11. \A u \in Threads : garageTxn'[u] = garageTxn[u] \/ garageTxn'[u].op = "idle"
  BY <1>1, GarageEnds
<1>12. \A u \in Threads : ReviewKnows(garageTxn[u])' /\ About(garageTxn[u])'
  BY <1>4, <1>10, <1>11, AboutStays DEF ReviewKnows, Approves
<1>13. GarageTypes'
  <2>1. request' \in [Papers -> Garage!Request]
    BY <1>1, <1>4
  <2>2. merged' \in [Customers -> Customers \cup {NoOne}] /\ joined' \subseteq Customers
        /\ pair' \in {"none", "pending", "confirmed", "dismissed", "merged"}
    BY <1>1, <1>2 DEF GarageInv, GarageTypes
  <2>3. certs' \subseteq Garage!Cert /\ claims' \subseteq Garage!Claim
    BY <1>1, <1>6, <1>7
  <2>4. garageTxn' \in [Threads -> GarageTxn] /\ garageRaced' \subseteq Customers \cup Papers \cup GarageVins
    BY <1>1, GarageEnds
  <2> QED BY <1>9, <1>10, <1>12, <2>1, <2>2, <2>3, <2>4 DEF GarageTypes
<1>14. ASSUME NEW c \in Customers, c # x.to, NEW i \in Garage!Tables
       PROVE  /\ Rows(i, c)' \subseteq Rows(i, c)
              /\ c = x.by /\ Rows(i, c) \subseteq x.held[i] => Rows(i, c)' = {}
  <2>1. /\ Rows("vehicles", c)' = {v.id : v \in {u \in vehicles' : u.owner = c}}
        /\ Rows("certs", c)' = {<<k.of, k.no>> : k \in {j \in certs' : j.owner = c}}
        /\ Rows("claims", c)' = {k.of : k \in {j \in claims' : j.owner = c}}
        /\ Rows("requests", c)' = {p \in Papers : request'[p].by = c}
    BY DEF Rows, Garage!RowsOf
  <2>2. CASE i = "vehicles"
    BY <1>1, <1>5, <1>14, <2>1, <2>2, RowsByTable
  <2>3. CASE i = "certs"
    <3>1. ASSUME NEW r \in Rows("certs", c)'
          PROVE  \E k \in certs : /\ r = <<k.of, k.no>> /\ k.owner = c
                                  /\ ~(r \in x.held["certs"] /\ k.owner = x.by)
      <4>1. PICK j \in certs' : j.owner = c /\ r = <<j.of, j.no>>
        BY <2>1
      <4>2. PICK k \in certs : j = TookCert(k)
        BY <1>1, <4>1
      <4>3. j.of = k.of /\ j.no = k.no
        BY <1>6, <4>2
      <4>4. c = IF r \in x.held["certs"] /\ k.owner = x.by THEN x.to ELSE k.owner
        BY <1>6, <4>1, <4>2, <4>3
      <4> QED BY <1>14, <4>1, <4>3, <4>4
    <3>2. Rows("certs", c)' \subseteq Rows("certs", c)
      BY <3>1, RowsByTable
    <3>3. ASSUME c = x.by, Rows("certs", c) \subseteq x.held["certs"] PROVE Rows("certs", c)' = {}
      BY <3>1, <3>2, <3>3
    <3> QED BY <2>3, <3>2, <3>3
  <2>4. CASE i = "claims"
    BY <1>1, <1>7, <1>14, <2>1, <2>4, RowsByTable
  <2>5. CASE i = "requests"
    BY <1>4, <1>14, <2>1, <2>5, RowsByTable
  <2> QED BY <2>2, <2>3, <2>4, <2>5 DEF Garage!Tables
<1>15. ASSUME NEW u \in Threads PROVE MergeKnows(garageTxn[u])'
  <2> SUFFICES ASSUME garageTxn'[u].op = "merge", garageTxn'[u].by \notin garageRaced' \cup joined',
                      NEW i \in 1 .. garageTxn'[u].moved
               PROVE  Rows(Garage!MergeOrder[i], garageTxn[u].by)'
                         \subseteq garageTxn'[u].held[Garage!MergeOrder[i]]
    BY DEF MergeKnows
  <2>1. garageTxn'[u] = garageTxn[u] /\ garageTxn[u].by # x.to
    BY <1>1, <1>11
  <2>2. garageTxn[u].by \in Customers /\ garageTxn[u].by \notin garageRaced \cup joined
    BY <1>1, <2>1, GarageEnds DEF GarageInv, GarageTypes, About
  <2>3. Rows(Garage!MergeOrder[i], garageTxn[u].by) \subseteq garageTxn[u].held[Garage!MergeOrder[i]]
    BY <2>1, <2>2 DEF GarageInv, MergeKnows
  <2>4. i \in 1 .. 4
    <3>1. garageTxn[u] \in GarageTxn
      BY DEF GarageInv, GarageTypes
    <3>2. garageTxn[u].moved \in 0 .. 4
      BY <3>1 DEF GarageTxn
    <3> QED BY <2>1, <3>2
  <2>5. Garage!MergeOrder[i] \in Garage!Tables
    BY <2>4, OrderOfTables
  <2> QED BY <1>14, <2>1, <2>2, <2>3, <2>5
<1>16. ASSUME NEW c \in Customers, Settled(c)' PROVE NoneWrite(c)' /\ Bare(c)'
  <2>1. c # x.to /\ c \notin garageRaced \cup joined /\ c \notin garageRaced'
    BY <1>1, <1>16, GarageEnds DEF Settled
  <2>2. CASE c = x.by
    <3>1. Bare(c)'
      <4>1. \A i \in 1 .. 4 : Rows(Garage!MergeOrder[i], c) \subseteq x.held[Garage!MergeOrder[i]]
        BY <1>1, <2>1, <2>2 DEF GarageInv, MergeKnows
      <4>2. \A i \in Garage!Tables : Rows(i, c) \subseteq x.held[i]
        BY <4>1, OrderOfTables
      <4> QED BY <1>14, <2>1, <2>2, <4>2 DEF Bare
    <3>2. ASSUME NEW u \in Threads, garageTxn'[u].op \in Writing, garageTxn'[u].by = c PROVE FALSE
      <4>1. u # w /\ garageTxn'[u] = garageTxn[u]
        BY <1>1, <3>2, GarageEnds DEF Writing
      <4>2. c \in Garage!Holds(x) /\ c \in Garage!Holds(garageTxn[u])
        BY <2>2, <3>2, <4>1 DEF Garage!Holds
      <4> QED BY <1>1, <2>1, <3>2, <4>1, <4>2, GarageEnds DEF Writing
    <3> QED BY <3>1, <3>2 DEF NoneWrite
  <2>3. CASE c # x.by
    <3>1. Settled(c)
      BY <1>1, <1>16, <2>1, <2>3 DEF Settled, GarageInv, GarageTypes
    <3>2. NoneWrite(c) /\ Bare(c)
      BY <3>1 DEF GarageInv
    <3>3. Bare(c)'
      BY <1>14, <2>1, <3>2 DEF Bare
    <3> QED BY <1>11, <3>2, <3>3 DEF NoneWrite, Writing
  <2> QED BY <2>2, <2>3
<1> QED BY <1>10, <1>12, <1>13, <1>15, <1>16 DEF GarageInv

LEMMA GarageNextKeeps == ASSUME GarageInv, [Garage!Next]_garage PROVE GarageInv'
<1>1. CASE UNCHANGED garage
  <2>1. UNCHANGED <<merged, request, vehicles, certs, claims, pair, garageTxn, garageRaced, joined>>
    BY <1>1 DEF garage
  <2>2. GarageTypes'
    BY <2>1 DEF GarageInv, GarageTypes, About, Made
  <2>3. ASSUME NEW w \in Threads PROVE ReviewKnows(garageTxn[w])' /\ MergeKnows(garageTxn[w])'
    <3>1. ReviewKnows(garageTxn[w])'
      BY <2>1 DEF GarageInv, ReviewKnows, Approves, Garage!OfVin, Garage!VinOf, Garage!HasPrimary
    <3>2. MergeKnows(garageTxn[w])'
      BY <2>1 DEF GarageInv, MergeKnows, Rows, Garage!RowsOf
    <3> QED BY <3>1, <3>2
  <2>4. GarageSound'
    BY <2>1 DEF GarageInv, GarageSound, Garage!GarageSound, Garage!OfVin, Garage!VinOf, Garage!HasPrimary
  <2>5. \A c \in Customers : Settled(c)' => NoneWrite(c)' /\ Bare(c)'
    BY <2>1 DEF GarageInv, Settled, NoneWrite, Bare, Rows, Garage!RowsOf
  <2> QED BY <2>2, <2>3, <2>4, <2>5 DEF GarageInv
<1>2. CASE Garage!Wear
  BY <1>2, QuietStepsKeep
<1>3. ASSUME NEW w \in Threads, Garage!Ownership(w) PROVE GarageInv'
  BY <1>3, GarageReadsKeep, GarageChecksKeep, SubmitCommitKeeps, DecisionCommitKeeps DEF Garage!Ownership
<1>4. ASSUME NEW w \in Threads, Garage!Warranty(w) PROVE GarageInv'
  BY <1>4, GarageReadsKeep, QuietStepsKeep, IssueCommitKeeps, ClaimCommitKeeps DEF Garage!Warranty
<1>5. ASSUME NEW w \in Threads, Garage!Accounts(w) PROVE GarageInv'
  BY <1>5, GarageReadsKeep, QuietStepsKeep, MergeMoveKeeps, MergeCommitKeeps DEF Garage!Accounts
<1>6. ASSUME NEW w \in Threads, Garage!Abort(w) PROVE GarageInv'
  BY <1>6, QuietStepsKeep
<1> QED BY <1>1, <1>2, <1>3, <1>4, <1>5, <1>6 DEF Garage!Next

LEMMA GarageAlways == BackOfficeSpec => []GarageInv
<1>1. BackOfficeInit => GarageInv
  BY GarageInitially DEF BackOfficeInit
<1>2. GarageInv /\ [BackOfficeNext]_backOfficeVars => GarageInv'
  BY OnePartMoves, GarageNextKeeps
<1> QED BY <1>1, <1>2, PTL DEF BackOfficeSpec

(* ownership/service.py: a vehicle is in one garage and a customer has one *)
(* primary vehicle, for any number of customers, requests, reviewers and   *)
(* merges; the exceptions are the two its property names.                  *)
THEOREM OneGarageOnePrimary == BackOfficeSpec => []GarageSound
<1>1. GarageInv => GarageSound
  BY DEF GarageInv
<1> QED BY <1>1, GarageAlways, PTL

(* customers/service.py: a merge leaves no request, vehicle, certificate   *)
(* or claim with the account that was merged, whoever is at work on it,    *)
(* but for the races its property names.                                   *)
THEOREM MergesLeaveNothing == BackOfficeSpec => []NothingLeftBehind
<1>1. GarageInv => NothingLeftBehind
  BY DEF GarageInv, NothingLeftBehind, Garage!NothingLeftBehind, Settled, Garage!Active, Bare, Rows
<1> QED BY <1>1, GarageAlways, PTL

--------------------------------------------------------------------------------
(* The showroom.  An import has made a car of every row before the one it  *)
(* is at, or knows of one.  The files: an image has a file of its own in   *)
(* the storage, and what a session adds is not what another adds, removes  *)
(* or promotes.  And a session that alone has a gallery in memory, while   *)
(* nobody commits another, knows how it stands.                            *)

ShowOps == {"idle", "check", "insert", "add", "delete", "promote", "unlink"}
ShowTxn == [op : ShowOps, sheet : Seq(Vins \cup {"bad"}), row : Nat, made : SUBSET Vins,
            on : SUBSET Cars, seen : SUBSET Show!Image, add : SUBSET Show!Image,
            remove : SUBSET Show!Image, pick : SUBSET Show!Image]

ShowTypes ==
    /\ vin \in [Cars -> Vins \cup {NoOne}]
    /\ deleted \subseteq {c \in Cars : vin[c] # NoOne}
    /\ images \subseteq Show!Image /\ stored \subseteq ImageFiles
    /\ showTxn \in [Threads -> ShowTxn]
    /\ freed \subseteq Vins /\ showRaced \subseteq Cars

(* Somewhere there is a car of a VIN, or a car gave the VIN up. *)
Accounted(v) == v \in freed \/ Show!Taken(v, {})

ImportKnows(x) ==
    /\ x.op = "check" => x.row > 0
    /\ x.op = "insert" => x.row \in DOMAIN x.sheet /\ x.sheet[x.row] # "bad"
    /\ \A r \in DOMAIN x.sheet :
          r < x.row => x.sheet[r] = "bad" \/ x.sheet[r] \in x.made \/ Accounted(x.sheet[r])

Names(S) == {i.file : i \in S}
Leaving(x) == x.remove \cup x.pick
OwnFiles(S) == \A i, j \in S : i.file = j.file => i = j

(* What a session adds is saved and new, what it removes stays removed.    *)
FilesOf(x) ==
    /\ OwnFiles(x.add) /\ Names(x.add) \subseteq stored /\ Names(x.add) \cap Names(images) = {}
    /\ x.op = "unlink" => Names(x.remove) \cap Names(images) = {}
    /\ x.op # "add" => x.add = {}
    /\ x.op \notin {"delete", "promote", "unlink"} => Leaving(x) = {}
    /\ x.op \notin {"add", "delete", "promote"} => x.on = {}
    /\ \A i \in images, r \in Leaving(x) : i.file = r.file => i.of = r.of
    /\ x.op \in {"add", "delete", "promote"} =>
          \E c \in Cars : x.on = {c} /\ \A i \in x.add \cup Leaving(x) : i.of = c

Apart(x, y) == Names(x.add) \cap Names(y.add) = {}

FilesInv ==
    /\ OwnFiles(images) /\ Names(images) \subseteq stored
    /\ \A w \in Threads : FilesOf(showTxn[w])
    /\ \A w, u \in Threads : /\ w # u => Apart(showTxn[w], showTxn[u])
                             /\ Names(Leaving(showTxn[w])) \cap Names(showTxn[u].add) = {}
    /\ \E n \in Nat : \A i \in images \cup UNION {showTxn[w].add : w \in Threads} : i.order <= n

(* One image comes first and none has another's place. *)
OneFirst(S) == S # {} => \E i \in S : i.primary /\ \A j \in S : j.primary => j = i
OnePlace(S) == \A i, j \in S : i.order = j.order => i = j
Ordered(S) == OneFirst(S) /\ OnePlace(S)

(* Of the gallery G, what the session that has it in memory knows. *)
GalleryKnows(x, G) ==
    /\ x.op = "add" => Ordered(G \cup x.add) /\ G \cap x.add = {}
    /\ x.op = "delete" => x.seen = G /\ \E r \in G : x.remove = {r}
    /\ x.op = "promote" => \E r \in G :
          /\ x.remove = {r}
          /\ G # {r} => \E i \in G \ {r} : \A j \in G \ {r} :
                j.primary \/ (\E k \in x.pick : Show!Same(j, k)) <=> j = i

GalleriesInv ==
    \A c \in Cars \ showRaced :
        /\ Ordered(Show!Of(c))
        /\ \A w \in Threads : c \in showTxn[w].on => GalleryKnows(showTxn[w], Show!Of(c))

ShowInv ==
    /\ ShowTypes
    /\ \A w \in Threads : ImportKnows(showTxn[w])
    /\ FilesInv /\ GalleriesInv

LEMMA ShowNoTxn ==
    /\ Show!NoTxn \in ShowTxn /\ Show!NoTxn.op = "idle"
    /\ Show!NoTxn.sheet = << >> /\ Show!NoTxn.row = 0 /\ Show!NoTxn.made = {}
    /\ Show!NoTxn.on = {} /\ Show!NoTxn.seen = {} /\ Show!NoTxn.add = {}
    /\ Show!NoTxn.remove = {} /\ Show!NoTxn.pick = {}
<1>1. << >> \in Seq(Vins \cup {"bad"})
  OBVIOUS
<1> QED BY <1>1 DEF Show!NoTxn, ShowTxn, ShowOps

LEMMA ShowInitially == Show!Init => ShowInv
<1> SUFFICES ASSUME Show!Init PROVE ShowInv
  OBVIOUS
<1>1. /\ \A w \in Threads : showTxn[w] = Show!NoTxn
      /\ images = {} /\ stored = {} /\ deleted = {} /\ freed = {} /\ showRaced = {}
  BY DEF Show!Init
<1>2. ShowTypes
  BY <1>1, ShowNoTxn DEF Show!Init, ShowTypes
<1>3. \A w \in Threads : ImportKnows(showTxn[w])
  BY <1>1, ShowNoTxn DEF ImportKnows
<1>4. FilesInv
  <2>1. \A i \in images \cup UNION {showTxn[w].add : w \in Threads} : i.order <= 0
    BY <1>1, ShowNoTxn
  <2> QED BY <1>1, <2>1, ShowNoTxn DEF FilesInv, FilesOf, Apart, OwnFiles, Names, Leaving
<1>5. GalleriesInv
  BY <1>1, ShowNoTxn DEF GalleriesInv, Show!Of, Ordered, OneFirst, OnePlace
<1> QED BY <1>2, <1>3, <1>4, <1>5 DEF ShowInv

(* What an import knows stays known. *)
LEMMA ImportStays ==
    ASSUME NEW x \in ShowTxn, ImportKnows(x), \A v \in Vins : Accounted(v) => Accounted(v)'
    PROVE  ImportKnows(x)'
<1>1. \A r \in DOMAIN x.sheet : x.sheet[r] \in Vins \cup {"bad"}
  BY DEF ShowTxn
<1> QED BY <1>1 DEF ImportKnows

(* A step of one session that leaves the rows alone. *)
LEMMA SessionStep ==
    ASSUME ShowInv, NEW w \in Threads, NEW x \in ShowTxn, showTxn' = [showTxn EXCEPT ![w] = x],
           UNCHANGED <<vin, deleted, images, freed, showRaced>>,
           Names(images) \subseteq stored', stored' \subseteq ImageFiles,
           \A u \in Threads \ {w} : Names(showTxn[u].add) \subseteq stored',
           ImportKnows(x), FilesOf(x)',
           \A u \in Threads \ {w} : /\ Apart(x, showTxn[u])
                                    /\ Names(Leaving(x)) \cap Names(showTxn[u].add) = {}
                                    /\ Names(Leaving(showTxn[u])) \cap Names(x.add) = {},
           Names(Leaving(x)) \cap Names(x.add) = {},
           NEW m \in Nat, \A i \in x.add : i.order <= m,
           \A c \in Cars \ showRaced : c \in x.on => GalleryKnows(x, Show!Of(c))
    PROVE  ShowInv'
<1>1. showTxn'[w] = x /\ \A u \in Threads \ {w} : showTxn'[u] = showTxn[u]
  BY DEF ShowInv, ShowTypes
<1>2. ShowTypes'
  BY DEF ShowInv, ShowTypes
<1>3. ASSUME NEW u \in Threads PROVE ImportKnows(showTxn[u])'
  <2>1. \A v \in Vins : Accounted(v) => Accounted(v)'
    BY DEF Accounted, Show!Taken
  <2>2. ImportKnows(showTxn'[u]) /\ showTxn'[u] \in ShowTxn
    BY <1>1, <1>2 DEF ShowInv, ShowTypes
  <2> QED BY <2>1, <2>2 DEF ImportKnows, Accounted, Show!Taken
<1>4. FilesInv'
  <2>1. ASSUME NEW u \in Threads PROVE FilesOf(showTxn[u])'
    <3>1. CASE u = w
      BY <1>1, <3>1 DEF FilesOf
    <3>2. CASE u # w
      BY <1>1, <3>2 DEF ShowInv, FilesInv, FilesOf
    <3> QED BY <3>1, <3>2
  <2>2. ASSUME NEW u \in Threads, NEW v \in Threads
        PROVE  /\ u # v => Apart(showTxn[u], showTxn[v])'
               /\ (Names(Leaving(showTxn[u])) \cap Names(showTxn[v].add))' = {}
    <3>1. \A a \in Threads \ {w} : Apart(showTxn[a], x)
      BY DEF Apart
    <3>2. \A a, b \in Threads : /\ a # b => Apart(showTxn[a], showTxn[b])
                                /\ Names(Leaving(showTxn[a])) \cap Names(showTxn[b].add) = {}
      BY DEF ShowInv, FilesInv
    <3>3. /\ u # v => Apart(showTxn'[u], showTxn'[v])
          /\ Names(Leaving(showTxn'[u])) \cap Names(showTxn'[v].add) = {}
      BY <1>1, <3>1, <3>2
    <3> QED BY <3>3 DEF Apart, Names, Leaving
  <2>3. \E n \in Nat : \A i \in images' \cup UNION {showTxn'[u].add : u \in Threads} : i.order <= n
    <3>1. PICK n \in Nat : \A i \in images \cup UNION {showTxn[u].add : u \in Threads} : i.order <= n
      BY DEF ShowInv, FilesInv
    <3>2. \A i \in images' \cup UNION {showTxn'[u].add : u \in Threads} : i.order \in Nat
      BY <1>2 DEF ShowTypes, ShowTxn, Show!Image
    <3>3. \A i \in images' \cup UNION {showTxn'[u].add : u \in Threads} : i.order <= n \/ i.order <= m
      BY <1>1, <3>1
    <3>4. \A i \in images' \cup UNION {showTxn'[u].add : u \in Threads} : i.order <= n + m
      BY <3>2, <3>3
    <3> QED BY <3>4
  <2>4. OwnFiles(images)' /\ (Names(images) \subseteq stored)'
    BY DEF ShowInv, FilesInv, OwnFiles, Names
  <2> QED BY <2>1, <2>2, <2>3, <2>4 DEF FilesInv
<1>5. GalleriesInv'
  <2> SUFFICES ASSUME NEW c \in Cars \ showRaced, NEW u \in Threads
               PROVE  /\ Ordered(Show!Of(c))'
                      /\ c \in showTxn'[u].on => GalleryKnows(showTxn'[u], Show!Of(c)')
    BY DEF GalleriesInv
  <2>1. Show!Of(c)' = Show!Of(c)
    BY DEF Show!Of
  <2> QED BY <1>1, <2>1 DEF ShowInv, GalleriesInv
<1> QED BY <1>2, <1>3, <1>4, <1>5 DEF ShowInv

(* A step of a session that has no gallery in memory. *)
LEMMA PlainStep ==
    ASSUME ShowInv, NEW w \in Threads, NEW x \in ShowTxn, Show!Step(w, x), UNCHANGED stored,
           x.on = {}, x.add = {}, Leaving(x) = {}, x.op \in {"idle", "check", "insert"}, ImportKnows(x)
    PROVE  ShowInv'
<1>1. showTxn' = [showTxn EXCEPT ![w] = x] /\ UNCHANGED <<vin, deleted, images, freed, showRaced>>
  BY DEF Show!Step, Show!cars
<1>2. Names(images) \subseteq stored' /\ stored' \subseteq ImageFiles
  BY DEF ShowInv, ShowTypes, FilesInv
<1>3. \A u \in Threads \ {w} : Names(showTxn[u].add) \subseteq stored'
  BY DEF ShowInv, FilesInv, FilesOf
<1>4. x.remove = {} /\ x.pick = {}
  BY DEF Leaving
<1>5. FilesOf(x)'
  BY <1>4 DEF FilesOf, OwnFiles, Names, Leaving
<1>6. \A u \in Threads \ {w} : /\ Apart(x, showTxn[u])
                               /\ Names(Leaving(x)) \cap Names(showTxn[u].add) = {}
                               /\ Names(Leaving(showTxn[u])) \cap Names(x.add) = {}
  BY DEF Apart, Names
<1>7. Names(Leaving(x)) \cap Names(x.add) = {} /\ \A i \in x.add : i.order <= 0
  BY DEF Names
<1> QED BY <1>1, <1>2, <1>3, <1>5, <1>6, <1>7, SessionStep

LEMMA ImportStepsKeep ==
    ASSUME ShowInv, NEW w \in Threads,
           \/ \E sheet \in Sheets : Show!ImportStart(w, sheet)
           \/ Show!RowCheck(w) \/ Show!RowInsert(w)
    PROVE  ShowInv'
<1> DEFINE x == showTxn[w]
<1>1. ASSUME NEW sheet \in Sheets, Show!ImportStart(w, sheet) PROVE ShowInv'
  <2> DEFINE y == [Show!NoTxn EXCEPT !.op = "check", !.sheet = sheet, !.row = 1]
  <2>1. /\ y \in ShowTxn /\ y.op = "check" /\ y.row = 1
        /\ y.on = {} /\ y.add = {} /\ Leaving(y) = {} /\ y.sheet = sheet
    BY ShowNoTxn, ShowroomAssumption DEF ShowTxn, ShowOps, Leaving
  <2>2. Show!Step(w, y) /\ UNCHANGED stored
    BY <1>1 DEF Show!ImportStart
  <2> HIDE DEF y
  <2>3. ImportKnows(y)
    BY <2>1, ShowroomAssumption DEF ImportKnows
  <2> QED BY <2>1, <2>2, <2>3, PlainStep
<1>2. /\ x \in ShowTxn /\ ImportKnows(x)
      /\ x.op \in {"check", "insert"} => x.on = {} /\ x.add = {} /\ Leaving(x) = {}
  BY DEF ShowInv, ShowTypes, FilesInv, FilesOf
<1>3. DOMAIN x.sheet = 1 .. Len(x.sheet) /\ Len(x.sheet) \in Nat /\ x.row \in Nat
      /\ \A r \in DOMAIN x.sheet : x.sheet[r] \in Vins \cup {"bad"}
  BY <1>2 DEF ShowTxn
<1>4. ASSUME Show!RowCheck(w) PROVE ShowInv'
  <2> DEFINE refused == \/ x.sheet[x.row] = "bad" \/ Show!Taken(x.sheet[x.row], {})
                        \/ x.sheet[x.row] \in x.made
  <2>1. /\ x.op = "check" /\ x.row <= Len(x.sheet) /\ UNCHANGED stored
        /\ Show!Step(w, IF refused THEN [x EXCEPT !.row = @ + 1] ELSE [x EXCEPT !.op = "insert"])
    BY <1>4 DEF Show!RowCheck, Show!Row
  <2> HIDE DEF refused
  <2>2. CASE refused
    <3> DEFINE y == [x EXCEPT !.row = @ + 1]
    <3>1. /\ y \in ShowTxn /\ y.op = "check" /\ y.row = x.row + 1 /\ y.made = x.made /\ y.sheet = x.sheet
          /\ y.on = {} /\ y.add = {} /\ Leaving(y) = {}
      BY <1>2, <1>3, <2>1 DEF ShowTxn, Leaving
    <3>2. Show!Step(w, y)
      BY <2>1, <2>2
    <3> HIDE DEF y
    <3>3. x.sheet[x.row] = "bad" \/ Accounted(x.sheet[x.row]) \/ x.sheet[x.row] \in x.made
      BY <2>2 DEF refused, Accounted
    <3>4. ImportKnows(y)
      BY <1>2, <1>3, <3>1, <3>3 DEF ImportKnows
    <3> QED BY <2>1, <3>1, <3>2, <3>4, PlainStep
  <2>3. CASE ~refused
    <3> DEFINE y == [x EXCEPT !.op = "insert"]
    <3>1. /\ y \in ShowTxn /\ y.op = "insert" /\ y.row = x.row /\ y.made = x.made /\ y.sheet = x.sheet
          /\ y.on = {} /\ y.add = {} /\ Leaving(y) = {}
      BY <1>2, <2>1 DEF ShowTxn, Leaving, ShowOps
    <3>2. Show!Step(w, y)
      BY <2>1, <2>3
    <3> HIDE DEF y
    <3>3. y.row \in DOMAIN y.sheet /\ y.sheet[y.row] # "bad"
      <4>1. x.row \in DOMAIN x.sheet
        BY <1>2, <1>3, <2>1 DEF ImportKnows
      <4>2. x.sheet[x.row] # "bad"
        BY <2>3 DEF refused
      <4> QED BY <3>1, <4>1, <4>2
    <3>4. ImportKnows(y)
      BY <1>2, <3>1, <3>3 DEF ImportKnows
    <3> QED BY <2>1, <3>1, <3>2, <3>4, PlainStep
  <2> QED BY <2>2, <2>3
<1>5. ASSUME Show!RowInsert(w) PROVE ShowInv'
  <2> DEFINE v == x.sheet[x.row]
             made == IF Show!Taken(v, {}) THEN x.made ELSE x.made \cup {v}
             y == [x EXCEPT !.op = "check", !.row = @ + 1, !.made = made]
  <2>1. x.op = "insert" /\ Show!Step(w, y) /\ UNCHANGED stored
    BY <1>5 DEF Show!RowInsert, Show!Row
  <2>2. x.row \in DOMAIN x.sheet /\ v \in Vins
    BY <1>2, <1>3, <2>1 DEF ImportKnows
  <2>3. made \subseteq Vins /\ x.made \subseteq made /\ (v \in made \/ Accounted(v))
    BY <1>2, <2>2 DEF ShowTxn, Accounted
  <2> HIDE DEF made
  <2>4. /\ y \in ShowTxn /\ y.op = "check" /\ y.row = x.row + 1 /\ y.made = made /\ y.sheet = x.sheet
        /\ y.on = {} /\ y.add = {} /\ Leaving(y) = {}
    <3> DEFINE n == x.row + 1
    <3>1. n \in Nat /\ made \in SUBSET Vins
      BY <1>3, <2>3
    <3>2. y = [x EXCEPT !.op = "check", !.row = n, !.made = made]
      OBVIOUS
    <3> HIDE DEF y, n
    <3>3. /\ y \in ShowTxn /\ y.op = "check" /\ y.row = n /\ y.made = made /\ y.sheet = x.sheet
          /\ y.on = x.on /\ y.add = x.add /\ y.remove = x.remove /\ y.pick = x.pick
      BY <1>2, <3>1, <3>2 DEF ShowTxn, ShowOps
    <3> QED BY <1>2, <2>1, <3>3 DEF Leaving, n
  <2> HIDE DEF y
  <2>5. ImportKnows(y)
    BY <1>2, <1>3, <2>2, <2>3, <2>4 DEF ImportKnows
  <2> QED BY <2>1, <2>4, <2>5, PlainStep
<1> QED BY <1>1, <1>4, <1>5

LEMMA ShowAbortKeeps == ASSUME ShowInv, NEW w \in Threads, Show!Abort(w) PROVE ShowInv'
<1>1. Show!Step(w, Show!NoTxn) /\ UNCHANGED stored
  BY DEF Show!Abort
<1>2. ImportKnows(Show!NoTxn) /\ Leaving(Show!NoTxn) = {}
  BY ShowNoTxn DEF ImportKnows, Leaving
<1> QED BY <1>1, <1>2, ShowNoTxn, PlainStep

(* The steps that leave the galleries alone: what the sessions know of     *)
(* them stays so.                                                          *)
LEMMA GalleriesLeft ==
    ASSUME ShowInv, UNCHANGED <<images, stored>>, showRaced \subseteq showRaced',
           \A u \in Threads : showTxn'[u] = showTxn[u] \/ showTxn'[u] = Show!NoTxn
    PROVE  FilesInv' /\ GalleriesInv'
<1>1. ASSUME NEW u \in Threads
      PROVE  /\ showTxn'[u].add \subseteq showTxn[u].add
             /\ Leaving(showTxn'[u]) \subseteq Leaving(showTxn[u])
             /\ showTxn'[u].on \subseteq showTxn[u].on
             /\ FilesOf(showTxn'[u])
  <2>1. FilesOf(showTxn[u]) /\ FilesOf(Show!NoTxn)
    BY ShowNoTxn DEF ShowInv, FilesInv, FilesOf, OwnFiles, Names, Leaving
  <2> QED BY <2>1, ShowNoTxn DEF Leaving
<1>2. \A u \in Threads : FilesOf(showTxn[u])'
  BY <1>1 DEF FilesOf
<1>3. ASSUME NEW u \in Threads, NEW v \in Threads
      PROVE  /\ u # v => Apart(showTxn[u], showTxn[v])'
             /\ (Names(Leaving(showTxn[u])) \cap Names(showTxn[v].add))' = {}
  <2>1. /\ u # v => Apart(showTxn[u], showTxn[v])
        /\ Names(Leaving(showTxn[u])) \cap Names(showTxn[v].add) = {}
    BY DEF ShowInv, FilesInv
  <2>2. /\ u # v => Apart(showTxn'[u], showTxn'[v])
        /\ Names(Leaving(showTxn'[u])) \cap Names(showTxn'[v].add) = {}
    BY <1>1, <2>1 DEF Apart, Names
  <2> QED BY <2>2 DEF Apart, Names, Leaving
<1>4. FilesInv'
  BY <1>1, <1>2, <1>3 DEF ShowInv, FilesInv, OwnFiles, Names
<1>5. GalleriesInv'
  <2> SUFFICES ASSUME NEW c \in Cars \ showRaced'
               PROVE  /\ Ordered(Show!Of(c))'
                      /\ \A u \in Threads :
                            c \in showTxn'[u].on => GalleryKnows(showTxn'[u], Show!Of(c)')
    BY DEF GalleriesInv, GalleryKnows
  <2>1. Show!Of(c)' = Show!Of(c)
    BY DEF Show!Of
  <2>2. \A u \in Threads : c \in showTxn'[u].on => showTxn'[u] = showTxn[u]
    BY ShowNoTxn
  <2> QED BY <2>1, <2>2 DEF ShowInv, GalleriesInv, Ordered, OneFirst, OnePlace
<1> QED BY <1>4, <1>5

LEMMA RenameKeeps ==
    ASSUME ShowInv, NEW w \in Threads, NEW c \in Cars,
           (\E v \in Vins : Show!Rename(w, c, v)) \/ Show!Delete(w, c)
    PROVE  ShowInv'
<1>1. UNCHANGED <<images, stored, showTxn, showRaced>>
  BY DEF Show!Rename, Show!Delete, Show!gallery
<1>2. vin[c] \in Vins /\ vin \in [Cars -> Vins \cup {NoOne}]
  BY DEF ShowInv, ShowTypes, Show!Rename, Show!Delete, Show!Live
<1>3. \/ vin' = vin /\ freed' = freed
      \/ freed' = freed \cup {vin[c]} /\ \E v \in Vins : vin' = [vin EXCEPT ![c] = v]
  BY DEF Show!Rename, Show!Delete
<1>4. deleted' = deleted \/ (deleted' = deleted \cup {c} /\ vin' = vin)
  BY DEF Show!Rename, Show!Delete
<1>5. \A v \in Vins : Accounted(v) => Accounted(v)'
  BY <1>2, <1>3 DEF Accounted, Show!Taken
<1>6. ShowTypes'
  <2>1. vin' \in [Cars -> Vins \cup {NoOne}] /\ freed' \subseteq Vins
    BY <1>2, <1>3 DEF ShowInv, ShowTypes
  <2>2. \A d \in deleted' : d \in Cars /\ vin'[d] # NoOne
    BY <1>2, <1>3, <1>4, ShowroomAssumption DEF ShowInv, ShowTypes
  <2> QED BY <1>1, <2>1, <2>2 DEF ShowInv, ShowTypes
<1>7. \A u \in Threads : ImportKnows(showTxn[u])'
  <2> SUFFICES ASSUME NEW u \in Threads PROVE ImportKnows(showTxn[u])'
    OBVIOUS
  <2>1. \A r \in DOMAIN showTxn[u].sheet : showTxn[u].sheet[r] \in Vins \cup {"bad"}
    BY DEF ShowInv, ShowTypes, ShowTxn
  <2> QED BY <1>1, <1>5, <2>1 DEF ShowInv, ImportKnows
<1>8. FilesInv' /\ GalleriesInv'
  BY <1>1, GalleriesLeft
<1> QED BY <1>6, <1>7, <1>8 DEF ShowInv

(* The cars of an import are new, one of each VIN. *)
LEMMA ImportMakes ==
    ASSUME ShowInv, NEW w \in Threads, Show!ImportCommit(w)
    PROVE  /\ vin' \in [Cars -> Vins \cup {NoOne}]
           /\ \A c \in Cars : vin[c] # NoOne => vin'[c] = vin[c]
           /\ \A v \in showTxn[w].made : \E c \in Cars : vin'[c] = v
<1> DEFINE made == showTxn[w].made
<1>1. PICK id \in [made -> Show!Absent] :
         /\ \A v, u \in made : id[v] = id[u] => v = u
         /\ vin' = [c \in Cars |-> IF \E v \in made : id[v] = c
                                   THEN CHOOSE v \in made : id[v] = c ELSE vin[c]]
  BY DEF Show!ImportCommit
<1>2. made \subseteq Vins /\ vin \in [Cars -> Vins \cup {NoOne}]
  BY DEF ShowInv, ShowTypes, ShowTxn
<1> HIDE DEF made
<1>3. \A v \in made : id[v] \in Cars /\ vin[id[v]] = NoOne
  BY <1>1 DEF Show!Absent
<1>4. ASSUME NEW v \in made PROVE vin'[id[v]] = v
  <2>1. id[v] \in Cars
    BY <1>3
  <2>2. (CHOOSE u \in made : id[u] = id[v]) = v
    BY <1>1
  <2> QED BY <1>1, <2>1, <2>2
<1>5. ASSUME NEW c \in Cars
      PROVE  vin'[c] \in Vins \cup {NoOne} /\ (vin[c] # NoOne => vin'[c] = vin[c])
  <2>1. CASE \E v \in made : id[v] = c
    BY <1>2, <1>3, <1>4, <2>1
  <2>2. CASE ~\E v \in made : id[v] = c
    BY <1>1, <1>2, <2>2
  <2> QED BY <2>1, <2>2
<1>6. vin' \in [Cars -> Vins \cup {NoOne}]
  BY <1>1, <1>5
<1> QED BY <1>3, <1>4, <1>5, <1>6 DEF made

LEMMA ImportCommitKeeps == ASSUME ShowInv, NEW w \in Threads, Show!ImportCommit(w) PROVE ShowInv'
<1>1. /\ showTxn' = [showTxn EXCEPT ![w] = Show!NoTxn]
      /\ showRaced' = showRaced \cup
            (showTxn[w].on \cap UNION {showTxn[u].on : u \in Threads \ {w}})
      /\ UNCHANGED <<deleted, images, stored, freed>>
  BY DEF Show!ImportCommit, Show!End, Show!gallery
<1>2. \A v \in Vins : Accounted(v) => Accounted(v)'
  BY <1>1, ImportMakes, ShowroomAssumption DEF Accounted, Show!Taken
<1>3. \A u \in Threads : showTxn'[u] = showTxn[u] \/ showTxn'[u] = Show!NoTxn
  BY <1>1 DEF ShowInv, ShowTypes
<1>4. ShowTypes'
  <2>1. showRaced' \subseteq Cars /\ showTxn' \in [Threads -> ShowTxn]
    BY <1>1, ShowNoTxn DEF ShowInv, ShowTypes, ShowTxn
  <2>2. \A d \in deleted : d \in Cars /\ vin'[d] # NoOne
    BY ImportMakes DEF ShowInv, ShowTypes
  <2> QED BY <1>1, <2>1, <2>2, ImportMakes DEF ShowInv, ShowTypes
<1>5. ASSUME NEW u \in Threads PROVE ImportKnows(showTxn[u])'
  <2>1. CASE showTxn'[u] = showTxn[u]
    <3>1. \A r \in DOMAIN showTxn[u].sheet : showTxn[u].sheet[r] \in Vins \cup {"bad"}
      BY DEF ShowInv, ShowTypes, ShowTxn
    <3> QED BY <1>2, <2>1, <3>1 DEF ShowInv, ImportKnows
  <2>2. CASE showTxn'[u] = Show!NoTxn
    BY <2>2, ShowNoTxn DEF ImportKnows
  <2> QED BY <1>3, <2>1, <2>2
<1>6. FilesInv' /\ GalleriesInv'
  BY <1>1, <1>3, GalleriesLeft
<1> QED BY <1>4, <1>5, <1>6 DEF ShowInv

(* What has been made of the sheet when an import commits. *)
LEMMA ImportIsComplete ==
    ASSUME ShowInv, NEW w \in Threads, Show!ImportCommit(w), NEW r \in DOMAIN showTxn[w].sheet,
           showTxn[w].sheet[r] # "bad"
    PROVE  showTxn[w].sheet[r] \in freed \/ \E c \in Cars : vin'[c] = showTxn[w].sheet[r]
<1> DEFINE x == showTxn[w]
           v == x.sheet[r]
<1>1. x.row > Len(x.sheet)
  BY DEF Show!ImportCommit
<1>2. x \in ShowTxn /\ ImportKnows(x)
  BY DEF ShowInv, ShowTypes
<1>3. r < x.row /\ v \in Vins
  <2>1. r \in 1 .. Len(x.sheet) /\ Len(x.sheet) \in Nat /\ x.row \in Nat /\ v \in Vins \cup {"bad"}
    BY <1>2 DEF ShowTxn
  <2> QED BY <1>1, <2>1
<1>4. v \in x.made \/ v \in freed \/ Show!Taken(v, {})
  BY <1>2, <1>3 DEF ImportKnows, Accounted
<1>5. Show!Taken(v, {}) => \E c \in Cars : vin'[c] = v
  BY <1>3, ImportMakes, ShowroomAssumption DEF Show!Taken
<1> QED BY <1>4, <1>5, ImportMakes

(* A commit to the gallery of a car: what other sessions know of other     *)
(* galleries stays so, and of this one they have raced for it.             *)
LEMMA GalleryCommit ==
    ASSUME ShowInv, NEW w \in Threads, NEW y \in ShowTxn, Show!End(w, y),
           UNCHANGED <<vin, deleted, stored, freed>>, images' \subseteq Show!Image,
           y.on = {}, y.add = {}, y.op \in {"idle", "unlink"}, ImportKnows(y),
           Leaving(y) \subseteq Leaving(showTxn[w]),
           y.op = "idle" => Leaving(y) = {},
           y.op = "unlink" => Names(y.remove) \cap Names(images)' = {},
           OwnFiles(images)', Names(images)' \subseteq Names(images) \cup Names(showTxn[w].add),
           \A i \in images', j \in images : i.file = j.file => i.of = j.of,
           \A n \in Nat : (\A i \in images \cup showTxn[w].add : i.order <= n)
                             => \A i \in images' : i.order <= n,
           NEW c \in Cars, showTxn[w].on = {c},
           \A d \in Cars \ {c} : Show!Of(d)' = Show!Of(d),
           c \notin showRaced' => Ordered(Show!Of(c))'
    PROVE  ShowInv'
<1> DEFINE x == showTxn[w]
<1>1. /\ showTxn'[w] = y /\ \A u \in Threads \ {w} : showTxn'[u] = showTxn[u]
      /\ showTxn' \in [Threads -> ShowTxn]
      /\ showRaced \subseteq showRaced' /\ showRaced' \subseteq Cars
      /\ \A u \in Threads \ {w} : c \in showTxn[u].on => c \in showRaced'
  BY DEF ShowInv, ShowTypes, Show!End
<1>2. ShowTypes'
  BY <1>1 DEF ShowInv, ShowTypes
<1>3. ASSUME NEW u \in Threads PROVE ImportKnows(showTxn[u])'
  <2>1. ImportKnows(showTxn'[u])
    BY <1>1 DEF ShowInv
  <2> QED BY <2>1 DEF ImportKnows, Accounted, Show!Taken
<1>4. /\ \A u, v \in Threads : /\ u # v => Apart(showTxn[u], showTxn[v])
                               /\ Names(Leaving(showTxn[u])) \cap Names(showTxn[v].add) = {}
      /\ \A u \in Threads : FilesOf(showTxn[u])
  BY DEF ShowInv, FilesInv
<1>5. ASSUME NEW u \in Threads PROVE FilesOf(showTxn[u])'
  <2>1. CASE u = w
    <3>1. \A i \in images', r \in Leaving(y) : i.file = r.file => i.of = r.of
      <4> SUFFICES ASSUME NEW i \in images', NEW r \in Leaving(y), i.file = r.file PROVE i.of = r.of
        OBVIOUS
      <4>1. i.file \in Names(images) \/ i.file \in Names(x.add)
        BY DEF Names
      <4>2. i.file \notin Names(x.add)
        BY <1>4 DEF Names
      <4> QED BY <1>4, <4>1, <4>2 DEF Names, FilesOf
    <3>2. showTxn'[u] = y
      BY <1>1, <2>1
    <3>3. y.op # "add" /\ y.op \notin {"add", "delete", "promote"}
      OBVIOUS
    <3> QED BY <3>1, <3>2, <3>3 DEF FilesOf, OwnFiles, Names
  <2>2. CASE u # w
    <3> DEFINE z == showTxn[u]
    <3>1. FilesOf(z) /\ Apart(z, x) /\ Names(Leaving(z)) \cap Names(x.add) = {}
      BY <1>4, <2>2
    <3>2. showTxn'[u] = z
      BY <1>1, <2>2
    <3> HIDE DEF z
    <3>3. Names(z.add) \cap Names(images)' = {}
      BY <3>1 DEF FilesOf, Apart
    <3>4. z.op = "unlink" => Names(z.remove) \cap Names(images)' = {}
      BY <3>1 DEF FilesOf, Leaving, Names
    <3>5. \A i \in images', r \in Leaving(z) : i.file = r.file => i.of = r.of
      <4> SUFFICES ASSUME NEW i \in images', NEW r \in Leaving(z), i.file = r.file PROVE i.of = r.of
        OBVIOUS
      <4>1. i.file \in Names(images) \/ i.file \in Names(x.add)
        BY DEF Names
      <4>2. i.file \notin Names(x.add)
        BY <3>1 DEF Names
      <4> QED BY <3>1, <4>1, <4>2 DEF Names, FilesOf
    <3> QED BY <3>1, <3>2, <3>3, <3>4, <3>5 DEF FilesOf, Names
  <2> QED BY <2>1, <2>2
<1>6. FilesInv'
  <2>1. ASSUME NEW u \in Threads, NEW v \in Threads
        PROVE  /\ u # v => Apart(showTxn[u], showTxn[v])'
               /\ (Names(Leaving(showTxn[u])) \cap Names(showTxn[v].add))' = {}
    <3>1. Apart(y, showTxn[v]) /\ Apart(showTxn[u], y)
      BY DEF Apart, Names
    <3>2. Names(Leaving(y)) \subseteq Names(Leaving(x)) /\ Names(y.add) = {}
      BY DEF Names
    <3>3. /\ u # v => Apart(showTxn'[u], showTxn'[v])
          /\ Names(Leaving(showTxn'[u])) \cap Names(showTxn'[v].add) = {}
      BY <1>1, <1>4, <3>1, <3>2
    <3> QED BY <3>3 DEF Apart, Names, Leaving
  <2>2. Names(images)' \subseteq stored
    BY <1>4 DEF ShowInv, FilesInv, FilesOf
  <2>3. \E n \in Nat : \A i \in images' \cup UNION {showTxn'[u].add : u \in Threads} : i.order <= n
    <3>1. PICK n \in Nat : \A i \in images \cup UNION {showTxn[u].add : u \in Threads} : i.order <= n
      BY DEF ShowInv, FilesInv
    <3>2. \A i \in images' : i.order <= n
      BY <3>1
    <3> QED BY <1>1, <3>1, <3>2
  <2> QED BY <1>5, <2>1, <2>2, <2>3 DEF FilesInv, Names
<1>7. GalleriesInv'
  <2> SUFFICES ASSUME NEW d \in Cars \ showRaced', NEW u \in Threads
               PROVE  /\ Ordered(Show!Of(d))'
                      /\ d \in showTxn'[u].on => GalleryKnows(showTxn'[u], Show!Of(d)')
    BY DEF GalleriesInv
  <2>1. CASE d = c
    BY <1>1, <2>1
  <2>2. CASE d # c
    BY <1>1, <2>2 DEF ShowInv, GalleriesInv
  <2> QED BY <2>1, <2>2
<1> QED BY <1>2, <1>3, <1>6, <1>7 DEF ShowInv

LEMMA AddCommitKeeps == ASSUME ShowInv, NEW w \in Threads, Show!AddCommit(w) PROVE ShowInv'
<1> DEFINE x == showTxn[w]
           y == Show!NoTxn
<1>1. /\ x.op = "add" /\ images' = images \cup x.add /\ Show!End(w, y)
      /\ UNCHANGED <<vin, deleted, stored, freed>>
  BY DEF Show!AddCommit, Show!cars
<1>2. PICK c \in Cars : x.on = {c} /\ \A i \in x.add : i.of = c
  BY <1>1 DEF ShowInv, FilesInv, FilesOf
<1>3. FilesOf(x) /\ OwnFiles(images) /\ x \in ShowTxn /\ images \subseteq Show!Image
  BY DEF ShowInv, FilesInv, ShowTypes
<1> HIDE DEF x
<1>4. images' \subseteq Show!Image /\ OwnFiles(images)' /\ Names(images)' \subseteq Names(images) \cup Names(x.add)
      /\ \A i \in images', j \in images : i.file = j.file => i.of = j.of
  BY <1>1, <1>3 DEF ShowTxn, FilesOf, OwnFiles, Names
<1>5. /\ y \in ShowTxn /\ y.op = "idle" /\ y.on = {} /\ y.add = {} /\ Leaving(y) = {} /\ ImportKnows(y)
  BY ShowNoTxn DEF Leaving, ImportKnows
<1>6. \A d \in Cars \ {c} : Show!Of(d)' = Show!Of(d)
  BY <1>1, <1>2 DEF Show!Of
<1>7. ASSUME c \notin showRaced' PROVE Ordered(Show!Of(c))'
  <2>1. c \notin showRaced
    BY <1>1, <1>7 DEF Show!End
  <2>2. Ordered(Show!Of(c) \cup x.add)
    BY <1>1, <1>2, <2>1 DEF x, ShowInv, GalleriesInv, GalleryKnows
  <2>3. Show!Of(c)' = Show!Of(c) \cup x.add
    BY <1>1, <1>2 DEF Show!Of
  <2> QED BY <2>2, <2>3 DEF Ordered, OneFirst, OnePlace
<1> HIDE DEF y
<1> QED BY <1>1, <1>2, <1>4, <1>5, <1>6, <1>7, GalleryCommit DEF x

LEMMA NoThree ==
    ASSUME NEW F, IsFiniteSet(F), Cardinality(F) \in {1, 2}, NEW a \in F, NEW b \in F, NEW c \in F,
           a # b, a # c, b # c
    PROVE  FALSE
<1> DEFINE one == {a}
           two == one \cup {b}
           three == two \cup {c}
<1>1. Cardinality(one) = 1 /\ IsFiniteSet(one) /\ b \notin one
  BY FS_Singleton
<1>2. Cardinality(two) = 2 /\ IsFiniteSet(two) /\ c \notin two
  <2> HIDE DEF one
  <2>1. Cardinality(two) = 2 /\ IsFiniteSet(two)
    <3>1. /\ IsFiniteSet(two)
          /\ Cardinality(two) = IF b \in one THEN Cardinality(one) ELSE Cardinality(one) + 1
      BY <1>1, FS_AddElement
    <3> HIDE DEF two
    <3> QED BY <1>1, <3>1
  <2> QED BY <2>1 DEF one
<1>3. Cardinality(three) = 3
  <2> HIDE DEF two
  <2>1. Cardinality(three) = IF c \in two THEN Cardinality(two) ELSE Cardinality(two) + 1
    BY <1>2, FS_AddElement
  <2> HIDE DEF three
  <2> QED BY <1>2, <2>1
<1>4. Cardinality(three) <= Cardinality(F)
  BY FS_Subset
<1> HIDE DEF three
<1> QED BY <1>3, <1>4

LEMMA ImagesCounted == ASSUME NEW S PROVE Show!Cardinality(S) = Cardinality(S)
  BY DEF Show!Cardinality, Cardinality

LEMMA KeptImage ==
    ASSUME NEW c, NEW f, NEW o, NEW p, NEW n
    PROVE  [[of |-> c, file |-> f, order |-> o, primary |-> p] EXCEPT !.primary = @ /\ n]
           = [of |-> c, file |-> f, order |-> o, primary |-> p /\ n]
  OBVIOUS

(* The images of an upload follow those there are, each in its own place,  *)
(* and one of them comes first if none did.                                *)
LEMMA PreparedFollow ==
    ASSUME ShowInv, NEW c \in Cars, NEW files \in SUBSET ImageFiles, Cardinality(files) \in {1, 2},
           NEW first \in files
    PROVE  LET add == Show!Prepared(c, files, first)
               G == Show!Of(c)
           IN /\ add \subseteq Show!Image /\ Names(add) = files /\ OwnFiles(add)
              /\ \A i \in add : i.of = c
              /\ \E m \in Nat : \A i \in add : i.order <= m
              /\ (G = {} \/ \E j \in G : j.primary) /\ OnePlace(G) /\ OneFirst(G) => Ordered(G \cup add)
<1> DEFINE G == Show!Of(c)
           S == {i.order : i \in G}
           top == CHOOSE n \in S : \A i \in G : i.order <= n
           next == IF G = {} THEN 0 ELSE 1 + top
           order(f) == IF f = first THEN 0 ELSE 1
           none == ~\E j \in G : j.primary
           img(f) == [of |-> c, file |-> f, order |-> next + order(f), primary |-> f = first /\ none]
<1>1. \A i \in G : i \in Show!Image /\ i.order \in Nat
  BY DEF Show!Of, ShowInv, ShowTypes, Show!Image
<1>2. next \in Nat /\ \A i \in G : i.order < next
  <2>1. CASE G = {}
    BY <2>1
  <2>2. CASE G # {}
    <3>1. S \in SUBSET Nat /\ S # {}
      BY <1>1, <2>2
    <3>2. PICK b \in Nat : \A i \in images : i.order <= b
      BY DEF ShowInv, FilesInv
    <3>3. \A n \in S : n <= b
      BY <3>2 DEF Show!Of
    <3>4. \E n \in S : \A k \in S : k <= n
      <4> HIDE DEF S
      <4> QED BY <3>1, <3>3, GreatestExists
    <3>5. top \in S /\ \A i \in G : i.order <= top
      BY <3>4
    <3> HIDE DEF top
    <3> QED BY <1>1, <2>2, <3>1, <3>5
  <2> QED BY <2>1, <2>2
<1>3. Show!Prepared(c, files, first) = {img(f) : f \in files}
  <2> DEFINE raw(f) == [of |-> c, file |-> f, order |-> next + order(f), primary |-> f = first]
             kept(i) == [i EXCEPT !.primary = @ /\ none]
  <2>1. Show!NewImages(c, files, first) = {raw(f) : f \in files}
    BY DEF Show!NewImages
  <2>2. Show!Prepared(c, files, first) = {kept(i) : i \in Show!NewImages(c, files, first)}
    BY Zenon DEF Show!Prepared
  <2> HIDE DEF next, order, none
  <2>3. ASSUME NEW f \in files PROVE kept(raw(f)) = img(f)
    <3> DEFINE o == next + order(f)
    <3>1. raw(f) = [of |-> c, file |-> f, order |-> o, primary |-> f = first]
      OBVIOUS
    <3>2. img(f) = [of |-> c, file |-> f, order |-> o, primary |-> (f = first) /\ none]
      OBVIOUS
    <3> DEFINE p == f = first
    <3>3. [[of |-> c, file |-> f, order |-> o, primary |-> p] EXCEPT !.primary = @ /\ none]
          = [of |-> c, file |-> f, order |-> o, primary |-> p /\ none]
      <4> HIDE DEF o, p, img, raw
      <4> QED BY KeptImage
    <3> QED BY Zenon, <3>3
  <2> HIDE DEF raw, img, kept
  <2> QED BY <2>1, <2>2, <2>3
<1> HIDE DEF next, none
<1>4. ASSUME NEW f \in files
      PROVE  /\ img(f) \in Show!Image /\ img(f).of = c /\ img(f).file = f
             /\ img(f).order = next + order(f) /\ img(f).order \in Nat
             /\ (img(f).primary <=> f = first /\ none)
  <2> DEFINE p == f = first /\ none
             o == next + order(f)
  <2>1. p \in BOOLEAN /\ o \in Nat
    BY <1>2 DEF none
  <2>2. img(f) = [of |-> c, file |-> f, order |-> o, primary |-> p]
    OBVIOUS
  <2> HIDE DEF img, p, o
  <2>3. /\ img(f) \in Show!Image /\ img(f).of = c /\ img(f).file = f
        /\ img(f).order = o /\ (img(f).primary <=> p)
    BY <2>1, <2>2 DEF Show!Image
  <2> QED BY <2>1, <2>3 DEF p, o
<1>5. \A f, g \in files : f # g => order(f) # order(g)
  <2>1. IsFiniteSet(files)
    BY FS_Subset, ShowroomAssumption
  <2> QED BY <2>1, NoThree
<1>6. \A f \in files : order(f) \in Nat /\ order(f) <= 1
  OBVIOUS
<1> DEFINE add == {img(f) : f \in files}
<1>7. add \subseteq Show!Image /\ Names(add) = files /\ OwnFiles(add) /\ \A i \in add : i.of = c
  <2> HIDE DEF img
  <2> QED BY <1>4 DEF Names, OwnFiles
<1>8. \E m \in Nat : \A i \in add : i.order <= m
  <2> HIDE DEF img, order
  <2>1. \A i \in add : i.order <= next + 1
    BY <1>2, <1>4, <1>6
  <2> QED BY <1>2, <2>1
<1>9. \A i \in G, j \in add : i.order < j.order
  <2> HIDE DEF img, order
  <2> QED BY <1>1, <1>2, <1>4, <1>6
<1>10. OnePlace(add)
  <2> HIDE DEF img, order
  <2>1. \A f, g \in files : img(f).order = img(g).order => f = g
    BY <1>2, <1>4, <1>5, <1>6
  <2> QED BY <2>1 DEF OnePlace
<1>11. /\ ~none => \A j \in add : ~j.primary
       /\ none => \E i \in add : i.primary /\ \A j \in add : j.primary => j = i
  <2> HIDE DEF img
  <2>1. \A j \in add : \E f \in files : j = img(f) /\ (j.primary <=> f = first /\ none)
    BY <1>4
  <2>2. img(first) \in add /\ (img(first).primary <=> none)
    BY <1>4
  <2> HIDE DEF add
  <2> QED BY <2>1, <2>2
<1>12. ASSUME G = {} \/ ~none, OnePlace(G), OneFirst(G) PROVE Ordered(G \cup add)
  <2> HIDE DEF add
  <2>1. OnePlace(G \cup add)
    <3>1. \A j \in add : j.order \in Nat
      BY <1>7 DEF Show!Image
    <3>2. \A i \in G, j \in add : i.order # j.order
      BY <1>1, <1>9, <3>1
    <3> QED BY <1>10, <1>12, <3>2 DEF OnePlace
  <2>2. OneFirst(G \cup add)
    <3>1. CASE G = {}
      BY <1>11, <3>1 DEF OneFirst, none
    <3>2. CASE ~none
      BY <1>11, <1>12, <3>2 DEF OneFirst, none
    <3> QED BY <1>12, <3>1, <3>2
  <2> QED BY <2>1, <2>2 DEF Ordered
<1> QED BY <1>3, <1>7, <1>8, <1>12 DEF none

LEMMA AddReadKeeps ==
    ASSUME ShowInv, NEW w \in Threads, NEW c \in Cars, NEW files \in SUBSET Show!Unsaved,
           Cardinality(files) \in {1, 2}, Show!AddRead(w, c, files)
    PROVE  ShowInv'
<1>1. PICK first \in files :
         Show!Step(w, [Show!NoTxn EXCEPT !.op = "add", !.on = {c}, !.add = Show!Prepared(c, files, first)])
  BY DEF Show!AddRead
<1> DEFINE G == Show!Of(c)
<1>0. PICK add : add = Show!Prepared(c, files, first)
  OBVIOUS
<1>13. PICK y : y = [Show!NoTxn EXCEPT !.op = "add", !.on = {c}, !.add = add]
  OBVIOUS
<1>2. files \in SUBSET ImageFiles /\ stored' = stored \cup files
  BY DEF Show!Unsaved, Show!AddRead
<1>3. /\ add \subseteq Show!Image /\ Names(add) = files /\ OwnFiles(add) /\ \A i \in add : i.of = c
      /\ (G = {} \/ \E j \in G : j.primary) /\ OnePlace(G) /\ OneFirst(G) => Ordered(G \cup add)
  BY <1>0, <1>2, PreparedFollow
<1>4. PICK m \in Nat : \A i \in add : i.order <= m
  BY <1>0, <1>2, PreparedFollow
<1>5. \A f \in files : /\ f \notin Names(images)
                       /\ \A u \in Threads : f \notin Names(showTxn[u].add) /\ f \notin Names(Leaving(showTxn[u]))
  BY DEF Show!Unsaved, Show!Remembered, Names, Leaving
<1> HIDE DEF G
<1>6. /\ y \in ShowTxn /\ y.op = "add" /\ y.on = {c} /\ y.add = add /\ y.sheet = << >>
      /\ y.remove = {} /\ y.pick = {}
  BY <1>3, <1>13, ShowNoTxn DEF ShowTxn, ShowOps
<1>7. /\ showTxn' = [showTxn EXCEPT ![w] = y] /\ UNCHANGED <<vin, deleted, images, freed, showRaced>>
  BY <1>0, <1>1, <1>13 DEF Show!Step, Show!cars
<1>8. Leaving(y) = {} /\ ImportKnows(y)
  BY <1>6 DEF Leaving, ImportKnows
<1>9. FilesOf(y)'
  BY <1>2, <1>3, <1>5, <1>6, <1>7, <1>8 DEF FilesOf, Names
<1>10. \A u \in Threads \ {w} : /\ Apart(y, showTxn[u])
                                /\ Names(Leaving(y)) \cap Names(showTxn[u].add) = {}
                                /\ Names(Leaving(showTxn[u])) \cap Names(y.add) = {}
  BY <1>3, <1>5, <1>6, <1>8 DEF Apart, Names
<1>11. \A d \in Cars \ showRaced : d \in y.on => GalleryKnows(y, Show!Of(d))
  <2> SUFFICES ASSUME c \notin showRaced PROVE GalleryKnows(y, G)
    BY <1>6 DEF G
  <2>1. Ordered(G)
    BY DEF ShowInv, GalleriesInv, G
  <2>2. Ordered(G \cup add)
    BY <1>3, <2>1 DEF Ordered, OneFirst
  <2>3. G \cap add = {}
    BY <1>3, <1>5 DEF G, Show!Of, Names
  <2> QED BY <1>6, <2>2, <2>3 DEF GalleryKnows
<1>12. /\ Names(images) \subseteq stored' /\ stored' \subseteq ImageFiles
       /\ \A u \in Threads \ {w} : Names(showTxn[u].add) \subseteq stored'
       /\ Names(Leaving(y)) \cap Names(y.add) = {} /\ \A i \in y.add : i.order <= m
  BY <1>2, <1>4, <1>6, <1>8 DEF ShowInv, ShowTypes, FilesInv, FilesOf, Names
<1> QED BY <1>6, <1>7, <1>8, <1>9, <1>10, <1>11, <1>12, SessionStep

LEMMA UnlinkKeeps == ASSUME ShowInv, NEW w \in Threads, Show!Unlink(w) PROVE ShowInv'
<1> DEFINE x == showTxn[w]
           y == Show!NoTxn
<1>1. /\ x.op = "unlink" /\ stored' = stored \ Names(x.remove)
      /\ showTxn' = [showTxn EXCEPT ![w] = y] /\ UNCHANGED <<vin, deleted, images, freed, showRaced>>
  BY DEF Show!Unlink, Names, Show!Step, Show!cars
<1>2. /\ y \in ShowTxn /\ y.op = "idle" /\ y.on = {} /\ y.add = {} /\ Leaving(y) = {} /\ ImportKnows(y)
  BY ShowNoTxn DEF Leaving, ImportKnows
<1> HIDE DEF y
<1>3. Names(images) \subseteq stored' /\ stored' \subseteq ImageFiles
  BY <1>1 DEF ShowInv, ShowTypes, FilesInv, FilesOf
<1>4. \A u \in Threads \ {w} : Names(showTxn[u].add) \subseteq stored'
  <2>1. \A u \in Threads : /\ Names(showTxn[u].add) \subseteq stored
                           /\ Names(Leaving(x)) \cap Names(showTxn[u].add) = {}
    BY DEF ShowInv, FilesInv, FilesOf
  <2> QED BY <1>1, <2>1 DEF Leaving, Names
<1>5. FilesOf(y)'
  BY <1>2 DEF FilesOf, OwnFiles, Names
<1>6. \A u \in Threads \ {w} : /\ Apart(y, showTxn[u])
                               /\ Names(Leaving(y)) \cap Names(showTxn[u].add) = {}
                               /\ Names(Leaving(showTxn[u])) \cap Names(y.add) = {}
  BY <1>2 DEF Apart, Names
<1>7. Names(Leaving(y)) \cap Names(y.add) = {} /\ (\A i \in y.add : i.order <= 0)
      /\ \A d \in Cars \ showRaced : d \in y.on => GalleryKnows(y, Show!Of(d))
  BY <1>2 DEF Names
<1> QED BY <1>1, <1>2, <1>3, <1>4, <1>5, <1>6, <1>7, SessionStep

LEMMA DeleteReadKeeps ==
    ASSUME ShowInv, NEW w \in Threads, NEW i \in images, Show!DeleteRead(w, i) PROVE ShowInv'
<1> DEFINE c == i.of
           G == Show!Of(c)
<1>10. PICK y : y = [Show!NoTxn EXCEPT !.op = "delete", !.on = {c}, !.seen = G, !.remove = {i}]
  OBVIOUS
<1>1. /\ showTxn' = [showTxn EXCEPT ![w] = y]
      /\ UNCHANGED <<vin, deleted, images, freed, showRaced, stored>>
  BY <1>10 DEF Show!DeleteRead, Show!Step, Show!cars
<1>2. i \in Show!Image /\ c \in Cars /\ G \subseteq Show!Image
  BY DEF ShowInv, ShowTypes, Show!Image, Show!Of
<1> HIDE DEF G, c
<1>3. /\ y \in ShowTxn /\ y.op = "delete" /\ y.on = {c} /\ y.seen = G /\ y.remove = {i}
      /\ y.add = {} /\ y.pick = {} /\ y.sheet = << >>
  BY <1>2, <1>10, ShowNoTxn DEF ShowTxn, ShowOps
<1>4. Leaving(y) = {i} /\ ImportKnows(y)
  BY <1>3 DEF Leaving, ImportKnows
<1>5. FilesOf(y)'
  <2>1. \A j, k \in images : j.file = k.file => j = k
    BY DEF ShowInv, FilesInv, OwnFiles
  <2> QED BY <1>1, <1>2, <1>3, <1>4, <2>1 DEF FilesOf, OwnFiles, Names, c
<1>6. \A u \in Threads : Names(Leaving(y)) \cap Names(showTxn[u].add) = {} /\ Names(showTxn[u].add) \subseteq stored
  BY <1>4 DEF ShowInv, FilesInv, FilesOf, Names
<1>7. \A u \in Threads \ {w} : /\ Apart(y, showTxn[u])
                               /\ Names(Leaving(y)) \cap Names(showTxn[u].add) = {}
                               /\ Names(Leaving(showTxn[u])) \cap Names(y.add) = {}
  BY <1>3, <1>6 DEF Apart, Names
<1>8. \A d \in Cars \ showRaced : d \in y.on => GalleryKnows(y, Show!Of(d))
  BY <1>3 DEF GalleryKnows, G, c, Show!Of
<1>9. /\ Names(images) \subseteq stored' /\ stored' \subseteq ImageFiles
      /\ Names(Leaving(y)) \cap Names(y.add) = {} /\ \A j \in y.add : j.order <= 0
  BY <1>1, <1>3 DEF ShowInv, ShowTypes, FilesInv, Names
<1> QED BY <1>1, <1>3, <1>4, <1>5, <1>6, <1>7, <1>8, <1>9, SessionStep

(* The rows that a deletion finds, in a gallery it alone has in memory. *)
LEMMA GoneIs ==
    ASSUME ShowInv, NEW w \in Threads, NEW r \in images, showTxn[w].remove = {r} PROVE Show!Gone(w) = {r}
  BY DEF ShowInv, FilesInv, OwnFiles, Show!Gone, Show!Same

(* The heir of a gallery's primary image, if that one goes. *)
LEMMA HeirComesFirst ==
    ASSUME ShowInv, NEW w \in Threads, showTxn[w].op = "delete", NEW pick \in Show!Heirs(w),
           NEW c \in Cars \ showRaced, c \in showTxn[w].on
    PROVE  \E r \in Show!Of(c) :
              /\ showTxn[w].remove = {r}
              /\ Show!Of(c) # {r} => \E i \in Show!Of(c) \ {r} : \A j \in Show!Of(c) \ {r} :
                    j.primary \/ (\E k \in pick : Show!Same(j, k)) <=> j = i
<1> DEFINE x == showTxn[w]
           G == Show!Of(c)
           left == (UNION {Show!Of(d) : d \in x.on}) \ Show!Gone(w)
           next == {i \in left : \A j \in left : i.order <= j.order}
           Written(i) == {i} \ {k \in left : \E j \in x.seen : Show!Same(k, j) /\ j.primary}
<1>1. x.on = {c} /\ Ordered(G) /\ x.seen = G
  <2>1. FilesOf(x) /\ Ordered(G) /\ GalleryKnows(x, G)
    BY DEF ShowInv, FilesInv, GalleriesInv
  <2> HIDE DEF G
  <2> QED BY <2>1 DEF FilesOf, GalleryKnows
<1>2. PICK r \in G : x.remove = {r}
  BY DEF ShowInv, GalleriesInv, GalleryKnows
<1>3. r \in images /\ G \subseteq images
  BY DEF Show!Of
<1>4. left = G \ {r}
  <2>1. Show!Gone(w) = {r}
    BY <1>2, <1>3, GoneIs
  <2>2. UNION {Show!Of(d) : d \in x.on} = G
    BY <1>1
  <2> QED BY <2>1, <2>2
<1>5. pick \in IF next # {} /\ r.primary THEN {Written(i) : i \in next} ELSE {{}}
  BY <1>2 DEF Show!Heirs
<1>6. \A i, j \in G : Show!Same(i, j) => i = j
  BY <1>3 DEF Show!Same, ShowInv, FilesInv, OwnFiles
<1>7. left # {} => next # {}
  <2> SUFFICES ASSUME left # {} PROVE next # {}
    OBVIOUS
  <2> DEFINE S == {i.order : i \in left}
  <2>1. \A i \in left : i.order \in Nat
    BY <1>3, <1>4 DEF ShowInv, ShowTypes, Show!Image
  <2> HIDE DEF left
  <2>2. S \in SUBSET Nat /\ S # {}
    BY <2>1
  <2>3. PICK m \in S : \A n \in S : m <= n
    <3> HIDE DEF S
    <3> QED BY <2>2, LeastExists
  <2> QED BY <2>3
<1> HIDE DEF G, left, next
<1>8. CASE G = {r}
  BY <1>2, <1>8 DEF G
<1>9. CASE G # {r} /\ r.primary
  <2>1. PICK i \in next : pick = Written(i)
    BY <1>2, <1>4, <1>5, <1>7, <1>9
  <2>2. i \in G \ {r} /\ \A j \in G : j.primary => j = r
    BY <1>1, <1>2, <1>4, <1>9 DEF next, Ordered, OneFirst
  <2>3. pick = {i}
    BY <1>1, <1>4, <1>6, <2>1, <2>2
  <2>4. \A j \in G \ {r} : j.primary \/ (\E k \in pick : Show!Same(j, k)) <=> j = i
    BY <1>6, <2>2, <2>3 DEF Show!Same
  <2> QED BY <1>2, <2>2, <2>4 DEF G
<1>10. CASE G # {r} /\ ~r.primary
  <2>1. pick = {}
    BY <1>5, <1>10
  <2>2. PICK i \in G : i.primary /\ \A j \in G : j.primary => j = i
    BY <1>1, <1>2 DEF Ordered, OneFirst
  <2> QED BY <1>2, <1>10, <2>1, <2>2 DEF G
<1> QED BY <1>8, <1>9, <1>10

LEMMA DeleteFlushKeeps == ASSUME ShowInv, NEW w \in Threads, Show!DeleteFlush(w) PROVE ShowInv'
<1> DEFINE x == showTxn[w]
<1>1. x.op = "delete" /\ UNCHANGED stored /\ \E p \in Show!Heirs(w) :
        Show!Step(w, [x EXCEPT !.op = "promote", !.pick = p])
  BY DEF Show!DeleteFlush
<1>2. PICK pick \in Show!Heirs(w) : Show!Step(w, [x EXCEPT !.op = "promote", !.pick = pick])
  BY <1>1
<1>15. PICK y : y = [x EXCEPT !.op = "promote", !.pick = pick]
  OBVIOUS
<1>3. /\ showTxn' = [showTxn EXCEPT ![w] = y]
      /\ UNCHANGED <<vin, deleted, images, freed, showRaced>>
  BY <1>2, <1>15 DEF Show!Step, Show!cars
<1>4. /\ x \in ShowTxn /\ FilesOf(x) /\ x.add = {} /\ ImportKnows(x)
  BY <1>1 DEF ShowInv, ShowTypes, FilesInv, FilesOf
<1>5. PICK c \in Cars : x.on = {c} /\ \A i \in x.add \cup Leaving(x) : i.of = c
  BY <1>1, <1>4 DEF FilesOf
<1>6. pick \subseteq images /\ \A i \in pick : i.of = c
  BY <1>5 DEF Show!Heirs, Show!Of
<1> HIDE DEF x
<1>7. /\ y \in ShowTxn /\ y.op = "promote" /\ y.on = {c} /\ y.remove = x.remove /\ y.pick = pick
      /\ y.add = {} /\ y.sheet = x.sheet /\ y.row = x.row /\ y.made = x.made
  BY <1>4, <1>5, <1>6, <1>15 DEF ShowTxn, ShowOps, ShowInv, ShowTypes
<1>8. Leaving(y) = x.remove \cup pick /\ x.remove \subseteq Leaving(x)
  BY <1>7 DEF Leaving
<1>9. ImportKnows(y)
  BY <1>4, <1>7 DEF ImportKnows
<1>10. FilesOf(y)'
  <2>1. \A j, k \in images : j.file = k.file => j = k
    BY DEF ShowInv, FilesInv, OwnFiles
  <2>2. \A j \in images, r \in Leaving(x) : j.file = r.file => j.of = r.of
    BY <1>4 DEF FilesOf
  <2>3. \A j \in Leaving(y) : j \in Leaving(x) \/ j \in pick
    BY <1>8
  <2>4. \A j \in images', r \in Leaving(y) : j.file = r.file => j.of = r.of
    BY <1>3, <1>6, <2>1, <2>2, <2>3
  <2>5. \A j \in y.add \cup Leaving(y) : j.of = c
    BY <1>5, <1>6, <1>7, <2>3
  <2> QED BY <1>7, <2>4, <2>5 DEF FilesOf, OwnFiles, Names
<1>11. \A u \in Threads : Names(Leaving(y)) \cap Names(showTxn[u].add) = {} /\ Names(showTxn[u].add) \subseteq stored
  <2>1. \A u \in Threads : /\ Names(Leaving(x)) \cap Names(showTxn[u].add) = {}
                           /\ Names(images) \cap Names(showTxn[u].add) = {} /\ Names(showTxn[u].add) \subseteq stored
    BY DEF ShowInv, FilesInv, FilesOf, x
  <2> QED BY <1>6, <1>8, <2>1 DEF Names
<1>12. \A u \in Threads \ {w} : /\ Apart(y, showTxn[u])
                                /\ Names(Leaving(y)) \cap Names(showTxn[u].add) = {}
                                /\ Names(Leaving(showTxn[u])) \cap Names(y.add) = {}
  BY <1>7, <1>11 DEF Apart, Names
<1>13. \A d \in Cars \ showRaced : d \in y.on => GalleryKnows(y, Show!Of(d))
  BY <1>1, <1>5, <1>7, HeirComesFirst DEF GalleryKnows, x
<1>14. /\ Names(images) \subseteq stored' /\ stored' \subseteq ImageFiles
       /\ Names(Leaving(y)) \cap Names(y.add) = {} /\ \A j \in y.add : j.order <= 0
  BY <1>1, <1>7 DEF ShowInv, ShowTypes, FilesInv, Names
<1> QED BY <1>1, <1>3, <1>7, <1>9, <1>10, <1>11, <1>12, <1>13, <1>14, SessionStep

LEMMA DeleteCommitKeeps == ASSUME ShowInv, NEW w \in Threads, Show!DeleteCommit(w) PROVE ShowInv'
<1> DEFINE x == showTxn[w]
           y == [Show!NoTxn EXCEPT !.op = "unlink", !.remove = x.remove]
           Heir(i) == \E j \in x.pick : Show!Same(i, j)
           h(i) == [i EXCEPT !.primary = @ \/ Heir(i)]
           stay == images \ Show!Gone(w)
<1>1. /\ x.op = "promote" /\ Show!End(w, y) /\ images' = {h(i) : i \in stay}
      /\ UNCHANGED <<vin, deleted, stored, freed>>
  BY DEF Show!DeleteCommit, Show!cars
<1>2. x \in ShowTxn /\ FilesOf(x) /\ x.add = {}
  BY <1>1 DEF ShowInv, ShowTypes, FilesInv, FilesOf
<1>3. PICK c \in Cars : x.on = {c} /\ \A i \in Leaving(x) : i.of = c
  BY <1>1, <1>2 DEF FilesOf
<1>4. \A i \in images : i.of # c => i \in stay /\ ~Heir(i)
  <2>1. \A i \in images, r \in Leaving(x) : i.file = r.file => i.of = r.of
    BY <1>2 DEF FilesOf
  <2> QED BY <1>3, <2>1 DEF Show!Gone, Show!Same, Leaving
<1>5. \A i \in images : /\ h(i) \in Show!Image /\ h(i).of = i.of /\ h(i).file = i.file /\ h(i).order = i.order
                        /\ h(i).primary = (i.primary \/ Heir(i))
  BY DEF ShowInv, ShowTypes, Show!Image
<1>6. \A i \in images : i.of # c => h(i) = i
  <2> SUFFICES ASSUME NEW i \in images, i.of # c PROVE h(i) = i
    OBVIOUS
  <2>1. i \in Show!Image /\ ~Heir(i)
    BY <1>4 DEF ShowInv, ShowTypes
  <2> HIDE DEF Heir
  <2>2. (i.primary \/ Heir(i)) = i.primary
    BY <2>1 DEF Show!Image
  <2> QED BY <2>1, <2>2 DEF Show!Image
<1> HIDE DEF h
<1>7. /\ y \in ShowTxn /\ y.op = "unlink" /\ y.on = {} /\ y.add = {} /\ y.remove = x.remove /\ y.pick = {}
      /\ y.sheet = << >>
  BY <1>2, ShowNoTxn DEF ShowTxn, ShowOps
<1>8. Leaving(y) \subseteq Leaving(x) /\ ImportKnows(y)
  BY <1>7 DEF Leaving, ImportKnows
<1>9. Names(y.remove) \cap Names(images)' = {}
  <2>1. \A i \in stay, r \in x.remove : i.file # r.file
    BY DEF Show!Gone, Show!Same
  <2> QED BY <1>1, <1>5, <1>7, <2>1 DEF Names
<1>10. /\ images' \subseteq Show!Image /\ OwnFiles(images)' /\ Names(images)' \subseteq Names(images)
       /\ \A i \in images', j \in images : i.file = j.file => i.of = j.of
       /\ \A n \in Nat : (\A i \in images \cup x.add : i.order <= n) => \A i \in images' : i.order <= n
  <2>1. OwnFiles(images)
    BY DEF ShowInv, FilesInv
  <2> QED BY <1>1, <1>5, <2>1 DEF OwnFiles, Names
<1>11. \A d \in Cars \ {c} : Show!Of(d)' = Show!Of(d)
  <2> SUFFICES ASSUME NEW d \in Cars \ {c} PROVE \A i : i \in Show!Of(d)' <=> i \in Show!Of(d)
    OBVIOUS
  <2> QED BY <1>1, <1>4, <1>5, <1>6 DEF Show!Of
<1>12. ASSUME c \notin showRaced' PROVE Ordered(Show!Of(c))'
  <2> DEFINE G == Show!Of(c)
  <2>1. c \in Cars \ showRaced
    BY <1>1, <1>12 DEF Show!End
  <2>2. PICK r \in G :
           /\ x.remove = {r}
           /\ G # {r} => \E i \in G \ {r} : \A j \in G \ {r} :
                 j.primary \/ (\E k \in x.pick : Show!Same(j, k)) <=> j = i
    BY <1>1, <1>3, <2>1 DEF ShowInv, GalleriesInv, GalleryKnows
  <2>3. r \in images /\ Show!Gone(w) = {r} /\ OnePlace(G)
    BY <2>1, <2>2, GoneIs DEF Show!Of, ShowInv, GalleriesInv, Ordered
  <2>4. Show!Of(c)' = {h(i) : i \in G \ {r}}
    BY <1>1, <1>5, <2>3 DEF Show!Of
  <2>5. \A i \in G : i \in images
    BY DEF Show!Of
  <2> HIDE DEF G
  <2>6. OnePlace(Show!Of(c)')
    BY <1>5, <2>3, <2>4, <2>5 DEF OnePlace
  <2>7. OneFirst(Show!Of(c)')
    <3>1. CASE G = {r}
      BY <2>4, <3>1 DEF OneFirst
    <3>2. CASE G # {r}
      <4>1. PICK i \in G \ {r} : \A j \in G \ {r} : j.primary \/ Heir(j) <=> j = i
        BY <2>2, <3>2
      <4> HIDE DEF Heir
      <4>2. \A j \in G \ {r} : h(j).primary <=> j = i
        BY <1>5, <2>5, <4>1
      <4> QED BY <2>4, <4>2 DEF OneFirst
    <3> QED BY <3>1, <3>2
  <2> QED BY <2>6, <2>7 DEF Ordered, OneFirst, OnePlace
<1> HIDE DEF y
<1> QED BY <1>1, <1>3, <1>7, <1>8, <1>9, <1>10, <1>11, <1>12, GalleryCommit

LEMMA ShowNextKeeps == ASSUME ShowInv, [Show!Next]_show PROVE ShowInv'
<1>1. CASE UNCHANGED show
  <2>1. UNCHANGED <<vin, deleted, images, stored, showTxn, freed, showRaced>>
    BY <1>1 DEF show
  <2>2. ShowTypes' /\ FilesInv' /\ GalleriesInv'
    <3>1. ShowTypes'
      BY <2>1 DEF ShowInv, ShowTypes
    <3> QED BY <2>1, <3>1, GalleriesLeft
  <2>3. \A u \in Threads : ImportKnows(showTxn[u])'
    BY <2>1 DEF ShowInv, ImportKnows, Accounted, Show!Taken
  <2> QED BY <2>2, <2>3 DEF ShowInv
<1>2. ASSUME NEW w \in Threads, Show!Inventory(w) PROVE ShowInv'
  BY <1>2, ImportStepsKeep, ImportCommitKeeps, RenameKeeps DEF Show!Inventory
<1>3. ASSUME NEW w \in Threads, Show!Gallery(w) PROVE ShowInv'
  <2>1. CASE \E c \in Cars, files \in SUBSET Show!Unsaved :
                Show!Cardinality(files) \in {1, 2} /\ Show!AddRead(w, c, files)
    <3>1. PICK c \in Cars, files \in SUBSET Show!Unsaved :
                Show!Cardinality(files) \in {1, 2} /\ Show!AddRead(w, c, files)
      BY <2>1
    <3>2. Cardinality(files) \in {1, 2}
      BY <3>1, ImagesCounted
    <3> QED BY <3>1, <3>2, AddReadKeeps
  <2>2. CASE \E i \in images : Show!DeleteRead(w, i)
    BY <2>2, DeleteReadKeeps
  <2>3. CASE \/ Show!AddCommit(w) \/ Show!DeleteFlush(w)
             \/ Show!DeleteCommit(w) \/ Show!Unlink(w)
    BY <2>3, AddCommitKeeps, DeleteFlushKeeps, DeleteCommitKeeps, UnlinkKeeps
  <2> QED BY <1>3, <2>1, <2>2, <2>3 DEF Show!Gallery
<1>4. ASSUME NEW w \in Threads, Show!Abort(w) PROVE ShowInv'
  BY <1>4, ShowAbortKeeps
<1> QED BY <1>1, <1>2, <1>3, <1>4 DEF Show!Next

LEMMA ShowAlways == BackOfficeSpec => []ShowInv
<1>1. BackOfficeInit => ShowInv
  BY ShowInitially DEF BackOfficeInit
<1>2. ShowInv /\ [BackOfficeNext]_backOfficeVars => ShowInv'
  BY OnePartMoves, ShowNextKeeps
<1> QED BY <1>1, <1>2, PTL DEF BackOfficeSpec

(* inventory/service.py: every image has its file and every gallery that   *)
(* no two handlers had at once one primary image and one order, for any    *)
(* number of cars, images and admins.                                      *)
THEOREM GalleriesStaySound == BackOfficeSpec => []GallerySound
<1>1. ASSUME ShowInv PROVE GallerySound
  <2>1. \A i \in images : i.file \in stored
    BY <1>1 DEF ShowInv, FilesInv, Names
  <2>2. ASSUME NEW c \in Cars \ showRaced, Show!Of(c) # {}
        PROVE  Show!Cardinality({i \in Show!Of(c) : i.primary}) = 1
    <3>1. PICK p \in Show!Of(c) : p.primary /\ \A q \in Show!Of(c) : q.primary => q = p
      BY <1>1, <2>2 DEF ShowInv, GalleriesInv, Ordered, OneFirst
    <3>2. {i \in Show!Of(c) : i.primary} = {p}
      BY <3>1
    <3> QED BY <3>2, FS_Singleton, ImagesCounted
  <2>3. \A c \in Cars \ showRaced : OnePlace(Show!Of(c))
    BY <1>1 DEF ShowInv, GalleriesInv, Ordered
  <2> QED BY <2>1, <2>2, <2>3 DEF GallerySound, Show!GallerySound, OnePlace
<1> QED BY <1>1, ShowAlways, PTL

(* inventory/service.py: an import leaves no valid row of its sheet out,   *)
(* for any number of imports of any length at once.                        *)
THEOREM ImportsLeaveNoneOut == BackOfficeSpec => ImportLeavesNoneOut
<1> DEFINE Complete == \A w \in Threads : Show!ImportCommit(w) =>
              \A r \in DOMAIN showTxn[w].sheet :
                  LET v == showTxn[w].sheet[r]
                  IN v # "bad" => v \in freed \/ \E c \in Cars : vin'[c] = v
<1>1. ShowInv => Complete
  BY ImportIsComplete
<1>2. ImportLeavesNoneOut <=> [][Complete]_Show!vars
  BY DEF ImportLeavesNoneOut, Show!ImportLeavesNoneOut
<1>3. ShowInv => [Complete]_Show!vars
  BY <1>1
<1> HIDE DEF Complete
<1> QED BY <1>2, <1>3, ShowAlways, PTL

--------------------------------------------------------------------------------
(* Every part keeps its types, for any sets of everything.                 *)
THEOREM BackOfficeTypeCorrect == BackOfficeSpec => []BackOfficeTypeOK
<1> DEFINE Inv == TypeOK /\ LeadInv /\ PlanInv
<1>1. BackOfficeInit => Inv
  <2>1. Init => TypeOK
    BY DEF Init, TypeOK, Places, Users
  <2> QED BY <2>1, LeadInitially, PlanInitially DEF BackOfficeInit
<1>2. Inv /\ [BackOfficeNext]_backOfficeVars => Inv'
  <2>1. ASSUME TypeOK, [Next]_vars PROVE TypeOK'
    BY <2>1, StepTyped DEF vars, TypeOK
  <2> QED BY <2>1, OnePartMoves, LeadNextKeeps, PlanNextKeeps
<1>3. LeadInv => Lead!TypeOK
  BY DEF LeadInv
<1>4. ASSUME PlanInv PROVE Plan!TypeOK
  <2>1. \A w \in Threads : DOMAIN planTxn[w] = DOMAIN Plan!NoTxn
    BY <1>4 DEF PlanInv, PlanSessions, PlanTxn, Plan!NoTxn
  <2>2. /\ \A i \in DOMAIN versions : versions[i] \in Plan!Version
        /\ \A i \in DOMAIN rules : rules[i] \in Plan!Rule
    BY <1>4 DEF PlanInv, Records, Book
  <2> QED BY <1>4, <2>1, <2>2 DEF PlanInv, Records, Plan!TypeOK
<1>5. ASSUME GarageInv PROVE Garage!TypeOK
  <2>1. \A w \in Threads : DOMAIN garageTxn[w] = DOMAIN Garage!NoTxn
    BY <1>5 DEF GarageInv, GarageTypes, GarageTxn, Garage!NoTxn
  <2> QED BY <1>5, <2>1 DEF GarageInv, GarageTypes, Garage!TypeOK
<1>6. ASSUME ShowInv PROVE Show!TypeOK
  <2>1. \A w \in Threads : DOMAIN showTxn[w] = DOMAIN Show!NoTxn
    BY <1>6 DEF ShowInv, ShowTypes, ShowTxn, Show!NoTxn
  <2> QED BY <1>6, <2>1 DEF ShowInv, ShowTypes, Show!TypeOK
<1>7. BackOfficeSpec => []Inv
  BY <1>1, <1>2, PTL DEF BackOfficeSpec
<1>8. Inv /\ GarageInv /\ ShowInv => BackOfficeTypeOK
  BY <1>3, <1>4, <1>5, <1>6 DEF BackOfficeTypeOK
<1> QED BY <1>7, <1>8, GarageAlways, ShowAlways, PTL

=============================================================================

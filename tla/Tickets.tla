------------------------------- MODULE Tickets --------------------------------
(***************************************************************************)
(* Support tickets: how they are numbered, how their status follows the    *)
(* conversation, and how a message reaches the people who watch a ticket,  *)
(* live over a socket or afterwards by asking for what they missed.        *)
(*                                                                         *)
(* Two kinds of process write.  A REST handler runs on a thread of its own *)
(* (Workers).  All sockets share one event loop: what the gateway does     *)
(* between two awaits, a frame's transaction included, no other socket     *)
(* sees half-done, but a REST handler may run in the middle of it.         *)
(***************************************************************************)
EXTENDS Naturals, Sequences, FiniteSets

CONSTANTS
    Workers,   \* REST requests at work at once
    Loop,      \* the event loop, as a process of its own
    Tickets,   \* tickets ever opened (a bound)
    Busy,      \* those on which anything happens afterwards (a bound)
    Msgs,      \* messages ever written (a bound)
    Clients,   \* devices and consoles that watch a ticket
    Side,      \* who sits at each: "customer" or "staff"
    Watched,   \* the ticket each of them watches
    Horizon    \* transactions with a message ever begun (a bound)

ASSUME ClientsAssumption ==
    Side \in [Clients -> {"customer", "staff"}] /\ Watched \in [Clients -> Tickets]
ASSUME LoopAssumption == Loop \notin Workers
ASSUME HorizonAssumption == Horizon \in Nat

VARIABLES
    number,   \* ticket_number of each, counted from 1 (TKT-1001); 0 before
    status,   \* support_tickets.status
    dated,    \* tickets with a resolved_at
    thread,   \* the messages of a ticket in the order their rows committed
    read,     \* messages with a read_at
    now,      \* transactions with a message so far: the database's clock
    txn,      \* the session of each handler
    room,     \* clients whose socket has joined
    inbox,    \* frames on their way to each, in order
    held,     \* messages each client holds
    caughtUp  \* clients that have asked for what they missed since joining

handlers == <<txn, now>>
tickets == <<number, status, dated, thread, read>>
clients == <<room, inbox, held, caughtUp>>
vars == <<number, status, dated, thread, read, now, txn, room, inbox, held, caughtUp>>

Done == {"resolved", "closed"}
TicketStatus == {"open", "assigned", "in_progress", "waiting_customer"} \cup Done

Handlers == Workers \cup {Loop}

(* A message row: created_at is when its transaction began.                *)
Message == [id : Msgs, by : {"customer", "staff"}, at : 1 .. Horizon,
            over : {"rest", "socket"}]

(* A session: the ticket it has loaded and the status it had, and what it  *)
(* will write; "same" and {} stand for what it leaves alone.  One that has *)
(* begun has loaded no ticket yet.                                         *)
NoTxn == [op |-> "none", on |-> {}, seen |-> "none", to |-> "same",
          date |-> FALSE, post |-> {}, num |-> 0]
Txn == [op : {"none", "begun", "open", "update", "resolve", "reply", "frame"},
        on : SUBSET Tickets, seen : TicketStatus \cup {"none"},
        to : TicketStatus \cup {"same"}, date : BOOLEAN,
        post : SUBSET Message, num : Nat]

Sent(t) == {thread[t][i] : i \in DOMAIN thread[t]}
Opened == {t \in Tickets : number[t] # 0}

TypeOK ==
    /\ number \in [Tickets -> 0 .. Cardinality(Tickets)]
    /\ status \in [Tickets -> TicketStatus]
    /\ dated \subseteq Opened
    /\ \A t \in Tickets : Sent(t) \subseteq Message /\ (t \notin Opened => thread[t] = <<>>)
    /\ read \subseteq Msgs
    /\ now \in 0 .. Horizon
    /\ txn \in [Handlers -> Txn]
    /\ room \subseteq Clients /\ caughtUp \subseteq room
    /\ \A c \in Clients : /\ \A i \in DOMAIN inbox[c] : inbox[c][i] \in Message
                          /\ held[c] \subseteq Message

Init ==
    /\ number = [t \in Tickets |-> 0]
    /\ status = [t \in Tickets |-> "open"]
    /\ dated = {}
    /\ thread = [t \in Tickets |-> <<>>]
    /\ read = {}
    /\ now = 0
    /\ txn = [h \in Handlers |-> NoTxn]
    /\ room = {}
    /\ inbox = [c \in Clients |-> <<>>]
    /\ held = [c \in Clients |-> {}]
    /\ caughtUp = {}

Idle(h) == txn[h] = NoTxn

Turn(h, x) ==
    /\ txn' = [txn EXCEPT ![h] = x]
    /\ UNCHANGED <<tickets, clients>>

(* A handler that loads its ticket: it is in memory from here on.          *)
Load(h, x) == Idle(h) /\ Turn(h, x)

(* A message not written yet, by a session that will write it; its time is *)
(* that of the transaction.                                                *)
Unwritten == Msgs \ ({m.id : m \in UNION {Sent(t) : t \in Tickets}} \cup
                     {m.id : m \in UNION {txn[h].post : h \in Handlers}})
Drafts(by, over) == [id : Unwritten, by : {by}, at : {now + 1}, over : {over}]
Tick == now < Horizon /\ now' = now + 1

(* The transaction of a REST handler begins with the query for its user:   *)
(* that dates the message it is to write, before it has read anything.     *)
Authenticate(w, by) ==
    /\ Idle(w) /\ Tick
    /\ \E m \in Drafts(by, "rest") : Turn(w, [NoTxn EXCEPT !.op = "begun", !.post = {m}])

(* It loads its ticket then. *)
LoadToPost(w, by, x) ==
    /\ txn[w].op = "begun" /\ \A m \in txn[w].post : m.by = by
    /\ Turn(w, [x EXCEPT !.post = txn[w].post])
    /\ UNCHANGED now

Session(op, t) == [NoTxn EXCEPT !.op = op, !.on = {t}, !.seen = status[t]]
Writing(new, old) == IF new = old THEN "same" ELSE new

--------------------------------------------------------------------------------
(* Opening a ticket *)

(* _next_ticket_number *)
NextNumber == Cardinality(Opened) + 1

Unused(t) == t \notin Opened /\ \A h \in Handlers : t \notin txn[h].on

(* create_customer_ticket, with the customer's report; create_ticket, with *)
(* a first message from the desk.                                          *)
OpenLoad(w, t, by) ==
    /\ Unused(t)
    /\ LoadToPost(w, by, [NoTxn EXCEPT !.op = "open", !.on = {t}, !.to = "open",
                                       !.num = NextNumber])

(* create_ticket without one *)
OpenBare(w, t) ==
    /\ Unused(t)
    /\ Load(w, [NoTxn EXCEPT !.op = "open", !.on = {t}, !.to = "open", !.num = NextNumber])
    /\ UNCHANGED now

--------------------------------------------------------------------------------
(* Status changes by staff *)

(* update_ticket: any status; the first time it is resolved or closed is   *)
(* dated.                                                                  *)
UpdateLoad(w, t, to) ==
    /\ t \in Opened
    /\ Load(w, [Session("update", t) EXCEPT !.to = Writing(to, status[t]),
                                            !.date = to \in Done /\ t \notin dated])
    /\ UNCHANGED now

(* update_ticket, an assignee: an open ticket is assigned. *)
AssignLoad(w, t) ==
    /\ t \in Opened /\ status[t] = "open"
    /\ Load(w, [Session("update", t) EXCEPT !.to = "assigned"])
    /\ UNCHANGED now

(* resolve_ticket dates it again each time. *)
ResolveLoad(w, t) ==
    /\ t \in Opened
    /\ Load(w, [Session("resolve", t) EXCEPT !.to = Writing("resolved", status[t]),
                                             !.date = TRUE])
    /\ UNCHANGED now

--------------------------------------------------------------------------------
(* Messages *)

(* add_staff_message: whatever the status is. *)
ReplyByStaff(w, t) ==
    /\ t \in Opened
    /\ LoadToPost(w, "staff", [Session("reply", t) EXCEPT
           !.to = IF status[t] \in {"open", "assigned"} THEN "in_progress" ELSE "same"])

(* What a customer's message does to the status, on either path.           *)
AfterCustomer(t) == IF status[t] = "waiting_customer" THEN "in_progress" ELSE "same"

(* Mutant: a customer may always write. *)
ReplyByCustomerAlways(w, t) ==
    /\ t \in Opened
    /\ LoadToPost(w, "customer", [Session("reply", t) EXCEPT !.to = AfterCustomer(t)])

(* add_customer_message: refused on a ticket that is done. *)
ReplyByCustomer(w, t) ==
    /\ t \in Opened /\ status[t] \notin Done
    /\ LoadToPost(w, "customer", [Session("reply", t) EXCEPT !.to = AfterCustomer(t)])

(* _handle_message, for a frame of a joined socket. *)
FrameLoad(c) ==
    LET t == Watched[c]
    IN /\ c \in room /\ status[t] \notin Done
       /\ Tick
       /\ \E m \in Drafts(Side[c], "socket") :
             Load(Loop, [Session("frame", t) EXCEPT
                           !.post = {m},
                           !.to = IF Side[c] = "customer" THEN AfterCustomer(t)
                                  ELSE IF status[t] = "open" THEN "in_progress" ELSE "same"])

(* _mark_read: the other side's messages. *)
MarkRead(c) ==
    LET unread == {m \in Sent(Watched[c]) : m.by # Side[c] /\ m.id \notin read}
    IN /\ c \in room /\ Idle(Loop)
       /\ unread # {}
       /\ read' = read \cup {m.id : m \in unread}
       /\ UNCHANGED <<number, status, dated, thread, handlers, clients>>

--------------------------------------------------------------------------------
(* Commits *)

(* Mutant: the number is not unique. *)
NeverRefused(x) == FALSE

(* ticket_number is unique: the second ticket with a number is refused.    *)
Refused(x) == x.op = "open" /\ \E t \in Opened : number[t] = x.num

(* Whom a saved message is sent to.  The gateway runs on the loop and      *)
(* broadcasts to everyone in the room; a REST handler runs on a thread,    *)
(* where publish finds no running loop and skips the broadcast.            *)
Hears(h, c) == h = Loop /\ c \in room /\ Watched[c] \in txn[h].on

Commit(h) ==
    LET x == txn[h]
    IN /\ x.op \notin {"none", "begun"}
       /\ ~Refused(x)
       /\ number' = [t \in Tickets |-> IF t \in x.on /\ x.op = "open" THEN x.num ELSE number[t]]
       /\ status' = [t \in Tickets |-> IF t \in x.on /\ x.to # "same" THEN x.to ELSE status[t]]
       /\ dated' = IF x.date THEN dated \cup x.on ELSE dated
       /\ \E row \in {<<>>} \cup {<<m>> : m \in x.post} :
             /\ row = <<>> <=> x.post = {}
             /\ thread' = [t \in Tickets |-> IF t \in x.on THEN thread[t] \o row ELSE thread[t]]
             /\ inbox' = [c \in Clients |-> IF Hears(h, c) THEN inbox[c] \o row ELSE inbox[c]]
       /\ txn' = [txn EXCEPT ![h] = NoTxn]
       /\ UNCHANGED <<read, now, room, held, caughtUp>>

(* The commit is refused, the handler raises, the process restarts. *)
Abort(h) ==
    /\ ~Idle(h)
    /\ txn' = [txn EXCEPT ![h] = NoTxn]
    /\ UNCHANGED <<tickets, now, clients>>

--------------------------------------------------------------------------------
(* Clients.  They are external: modelled as the gateway and the endpoints  *)
(* expect them to be.  One that joins first asks for what it missed and    *)
(* then turns to the frames that have queued up behind the answer.         *)

Join(c) ==
    /\ c \notin room /\ Idle(Loop) /\ Watched[c] \in Opened
    /\ room' = room \cup {c}
    /\ UNCHANGED <<tickets, handlers, inbox, held, caughtUp>>

(* created_at of the last message it holds *)
Cursor(c) == IF held[c] = {} THEN 0
             ELSE CHOOSE n \in {m.at : m \in held[c]} : \A m \in held[c] : m.at <= n

(* Mutant: only what the other side wrote. *)
MissedFromOthers(c) ==
    {m \in Sent(Watched[c]) : m.by # Side[c] /\ (Side[c] = "customer" => m.at > Cursor(c))}

(* list_customer_messages_since, by a customer; staff load the thread.     *)
Missed(c) == {m \in Sent(Watched[c]) : Side[c] = "customer" => m.at > Cursor(c)}

CatchUp(c) ==
    /\ c \in room \ caughtUp
    /\ held' = [held EXCEPT ![c] = @ \cup Missed(c)]
    /\ caughtUp' = caughtUp \cup {c}
    /\ UNCHANGED <<tickets, handlers, room, inbox>>

Receive(c) ==
    /\ c \in caughtUp /\ inbox[c] # <<>>
    /\ held' = [held EXCEPT ![c] = @ \cup {Head(inbox[c])}]
    /\ inbox' = [inbox EXCEPT ![c] = Tail(@)]
    /\ UNCHANGED <<tickets, handlers, room, caughtUp>>

(* Mutant: what a client asked for before it was cut off still counts. *)
DropKeepingCursor(c) ==
    /\ c \in room
    /\ room' = room \ {c}
    /\ inbox' = [inbox EXCEPT ![c] = <<>>]
    /\ UNCHANGED <<tickets, handlers, held, caughtUp>>

(* disconnect, by the client or because a send to it failed: every frame   *)
(* on its way is lost.                                                     *)
Drop(c) ==
    /\ c \in room
    /\ room' = room \ {c}
    /\ caughtUp' = caughtUp \ {c}
    /\ inbox' = [inbox EXCEPT ![c] = <<>>]
    /\ UNCHANGED <<tickets, handlers, held>>

--------------------------------------------------------------------------------
Customer(w) ==
    \/ Authenticate(w, "customer")
    \/ \E t \in Tickets : OpenLoad(w, t, "customer")
    \/ \E t \in Busy : ReplyByCustomer(w, t)

Staff(w) ==
    \/ Authenticate(w, "staff")
    \/ \E t \in Tickets : OpenLoad(w, t, "staff") \/ OpenBare(w, t)
    \/ \E t \in Busy, to \in TicketStatus : UpdateLoad(w, t, to)
    \/ \E t \in Busy : AssignLoad(w, t) \/ ResolveLoad(w, t) \/ ReplyByStaff(w, t)

Socket(c) ==
    \/ FrameLoad(c) \/ MarkRead(c)
    \/ Join(c) \/ CatchUp(c) \/ Receive(c) \/ Drop(c)

Next ==
    \/ \E w \in Workers : Customer(w) \/ Staff(w)
    \/ \E c \in Clients : Socket(c)
    \/ \E h \in Handlers : Commit(h) \/ Abort(h)

Spec == Init /\ [][Next]_vars

--------------------------------------------------------------------------------
(* Properties *)

(* Tickets are numbered without gaps or repetitions, however many are      *)
(* opened at once and whichever of them fail (_next_ticket_number).        *)
NumbersConsecutive ==
    /\ {number[t] : t \in Opened} = 1 .. Cardinality(Opened)
    /\ \A t, u \in Opened : number[t] = number[u] => t = u

(* A conversation that is done stays as it is, unless staff change its     *)
(* status or write to it; what else still lands had loaded the ticket      *)
(* before it was done.                                                     *)
DoneIsQuiet ==
    [][\A t \in Opened : \A h \in Handlers :
          /\ Commit(h) /\ txn[h].on = {t} /\ txn[h].op \in {"reply", "frame"}
          /\ status[t] \in Done
          => \/ txn[h].seen \notin Done
             \/ status'[t] = status[t] /\ \A m \in txn[h].post : m.by = "staff"]_vars

(* A message that was committed after one with a later created_at.         *)
Late(m, t) ==
    \E i, j \in DOMAIN thread[t] : i < j /\ thread[t][j] = m /\ thread[t][i].at > m.at

(* A client that has caught up holds every message sent over a socket, or  *)
(* it is on its way: joining before asking, committing before broadcasting *)
(* and the cursor leave no gap.  Not so for replies over REST, nor for one *)
(* that committed out of order.                                            *)
NoGap ==
    \A c \in caughtUp : \A m \in Sent(Watched[c]) :
        \/ m \in held[c] \/ \E i \in DOMAIN inbox[c] : inbox[c][i] = m
        \/ m.over = "rest" \/ Late(m, Watched[c])

(* customer_router.py: "A client that reconnects asks for everything after *)
(* the last message it holds, so nothing sent during the outage is lost."  *)
CatchUpMissesNothing ==
    [][\A c \in Clients : CatchUp(c) => Sent(Watched[c]) \subseteq held'[c]]_vars

=============================================================================

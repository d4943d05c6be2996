----------------------------- MODULE TicketsProofs -----------------------------
(***************************************************************************)
(* Proofs about Tickets, for any number of tickets, messages, clients and  *)
(* requests at work.                                                       *)
(*                                                                         *)
(* A message is known by the time its transaction began: no two have the   *)
(* same.  A client that has caught up misses nothing because the frames on *)
(* their way to it are in the order of the thread, and because whatever    *)
(* came before a message it holds it holds as well.                        *)
(***************************************************************************)
EXTENDS Tickets, FiniteSetTheorems, SequenceTheorems, WellFoundedInduction, TLAPS

(* What the tables and the sessions are made of; `at` is a number though   *)
(* nothing bounds it here.                                                 *)
Types ==
    /\ number \in [Tickets -> Nat]
    /\ status \in [Tickets -> TicketStatus]
    /\ dated \subseteq Opened
    /\ thread \in [Tickets -> Seq(Message)]
    /\ \A t \in Tickets \ Opened : thread[t] = <<>>
    /\ read \subseteq Msgs
    /\ now \in 0 .. Horizon
    /\ txn \in [Handlers -> Txn]
    /\ room \subseteq Clients /\ caughtUp \subseteq room
    /\ inbox \in [Clients -> Seq(Message)]
    /\ held \in [Clients -> SUBSET Message]

(* A session that opens a ticket has it to itself, with a number that is   *)
(* taken or is the next; any other is about tickets there are.             *)
OpensAlone(h) ==
    /\ txn[h].num \in 1 .. Cardinality(Opened) + 1
    /\ \E t \in Tickets \ Opened :
          txn[h].on = {t} /\ \A g \in Handlers \ {h} : t \notin txn[g].on
Loaded(h) == IF txn[h].op = "open" THEN OpensAlone(h) ELSE txn[h].on \subseteq Opened

(* A session that has read a ticket as done changes no status, and only    *)
(* staff have one that writes.                                             *)
Quiet(h) ==
    txn[h].op \in {"reply", "frame"} /\ txn[h].seen \in Done =>
        txn[h].to = "same" /\ \A m \in txn[h].post : m.by = "staff"

JoinedIsOpen == \A c \in room : Watched[c] \in Opened

Numbered == IsFiniteSet(Opened) /\ NumbersConsecutive

(* No two messages have the same time, in a thread or about to be.         *)
PostTimed(h) ==
    /\ \A m, n \in txn[h].post : m = n
    /\ \A m \in txn[h].post :
          /\ m.at <= now
          /\ m.over = IF h = Loop THEN "socket" ELSE "rest"
          /\ \A t \in Tickets : \A i \in DOMAIN thread[t] : thread[t][i].at # m.at
          /\ \A g \in Handlers \ {h} : \A n \in txn[g].post : n.at # m.at
ThreadTimed(t) ==
    /\ \A i \in DOMAIN thread[t] : thread[t][i].at <= now
    /\ \A i, j \in DOMAIN thread[t] : thread[t][i].at = thread[t][j].at => i = j
Timed == (\A h \in Handlers : PostTimed(h)) /\ \A t \in Tickets : ThreadTimed(t)

(* What is on its way is in the order of the thread.                       *)
InboxOrdered(c) ==
    LET t == Watched[c]
    IN /\ \A a \in DOMAIN inbox[c] : inbox[c][a] \in Sent(t)
       /\ \A a, b \in DOMAIN inbox[c] : \A i, j \in DOMAIN thread[t] :
             a < b /\ thread[t][i] = inbox[c][a] /\ thread[t][j] = inbox[c][b] => i < j

(* A message a client may do without.                                      *)
Spared(m, t) == m.over = "rest" \/ Late(m, t)

(* Whatever came before a message it holds it holds as well.               *)
HeldClosed(c) ==
    LET t == Watched[c]
    IN /\ held[c] \subseteq Sent(t)
       /\ \A i, j \in DOMAIN thread[t] :
             i < j /\ thread[t][j] \in held[c] =>
                 thread[t][i] \in held[c] \/ Spared(thread[t][i], t)

Delivered == NoGap /\ \A c \in Clients : InboxOrdered(c) /\ HeldClosed(c)

IInv ==
    /\ Types /\ Numbered /\ JoinedIsOpen /\ Timed /\ Delivered
    /\ \A h \in Handlers : Loaded(h) /\ Quiet(h)

--------------------------------------------------------------------------------
(* Sessions that begin, or load their ticket.  All that matters of them    *)
(* afterwards: *)

(* a message they will write is the latest of all, or the one they had; *)
Writes(h, x) ==
    \/ x.post = txn[h].post /\ now' = now
    \/ x.post = {} /\ now' = now
    \/ /\ now' = now + 1 /\ now' <= Horizon
       /\ \E m \in Message : /\ x.post = {m} /\ m.at = now + 1
                             /\ m.over = IF h = Loop THEN "socket" ELSE "rest"

(* the ticket is new, with the next number, or there is one. *)
Finds(x) ==
    IF x.op = "open" THEN x.num = NextNumber /\ \E t \in Tickets : x.on = {t} /\ Unused(t)
    ELSE x.on \subseteq Opened

Begins(h, x) ==
    /\ x \in Txn
    /\ txn' = [txn EXCEPT ![h] = x]
    /\ UNCHANGED <<tickets, clients>>
    /\ Writes(h, x) /\ Finds(x)
    /\ x.op \in {"reply", "frame"} /\ x.seen \in Done =>
          x.to = "same" /\ \A m \in x.post : m.by = "staff"

LEMMA NoTxnTyped == NoTxn \in Txn
BY DEF NoTxn, Txn

LEMMA RowsTyped ==
    ASSUME NEW s \in Seq(Message)
    PROVE  /\ DOMAIN s = 1 .. Len(s) /\ Len(s) \in Nat
           /\ \A i \in DOMAIN s : s[i] \in Message /\ s[i].at \in Nat
<1>1. DOMAIN s = 1 .. Len(s) /\ Len(s) \in Nat
  BY LenProperties
<1>2. \A i \in DOMAIN s : s[i] \in Message
  BY <1>1, ElementOfSeq
<1>3. \A m \in Message : m.at \in Nat
  BY HorizonAssumption DEF Message
<1> QED BY <1>1, <1>2, <1>3

LEMMA DraftsTyped ==
    ASSUME Types, Tick,
           NEW by \in {"customer", "staff"}, NEW over \in {"rest", "socket"},
           NEW m \in Drafts(by, over)
    PROVE  /\ m \in Message /\ m.by = by /\ m.over = over /\ m.at = now + 1
           /\ now' = now + 1 /\ now' <= Horizon
<1>1. now + 1 \in 1 .. Horizon /\ now' = now + 1
  BY HorizonAssumption DEF Types, Tick
<1>2. PICK i \in Unwritten : m = [id |-> i, by |-> by, at |-> now + 1, over |-> over]
  BY DEF Drafts
<1>3. i \in Msgs
  BY <1>2 DEF Unwritten
<1> QED BY <1>1, <1>2, <1>3 DEF Message

(* A REST handler that will write no message. *)
LEMMA SilentBegins ==
    ASSUME NEW w \in Workers, NEW x \in Txn, Load(w, x), now' = now,
           x.post = {}, Finds(x), x.op \notin {"reply", "frame"}
    PROVE  Begins(w, x)
BY DEF Begins, Load, Turn, Writes

(* The user is known, the ticket is not. *)
LEMMA AuthenticateBegins ==
    ASSUME IInv, NEW w \in Workers, NEW by \in {"customer", "staff"}, Authenticate(w, by)
    PROVE  \E x : Begins(w, x)
<1> DEFINE x(m) == [NoTxn EXCEPT !.op = "begun", !.post = {m}]
<1>1. PICK m \in Drafts(by, "rest") : Turn(w, x(m))
  BY DEF Authenticate
<1>2. m \in Message /\ m.over = "rest" /\ m.at = now + 1 /\ now' = now + 1 /\ now' <= Horizon
  BY DraftsTyped DEF IInv, Authenticate
<1>3. x(m) \in Txn /\ x(m).post = {m} /\ x(m).on = {} /\ x(m).op = "begun"
  BY <1>2 DEF NoTxn, Txn, TicketStatus
<1> DEFINE y == x(m)
<1>4. Turn(w, y) /\ y \in Txn /\ y.post = {m} /\ y.on = {} /\ y.op = "begun"
  BY <1>1, <1>3
<1> HIDE DEF y
<1>5. w # Loop
  BY LoopAssumption
<1> QED BY <1>2, <1>4, <1>5 DEF Begins, Turn, Writes, Finds

LEMMA OpenBegins ==
    ASSUME IInv, NEW w \in Workers, NEW t \in Tickets,
           OpenBare(w, t) \/ \E by \in {"customer", "staff"} : OpenLoad(w, t, by)
    PROVE  \E x : Begins(w, x)
<1>1. txn[w] \in Txn
  BY DEF IInv, Types, Handlers
<1>2. NextNumber \in Nat
  BY FS_CardinalityType DEF NextNumber, IInv, Numbered
<1>3. CASE OpenBare(w, t)
  <2> DEFINE x == [NoTxn EXCEPT !.op = "open", !.on = {t}, !.to = "open", !.num = NextNumber]
  <2>1. Load(w, x) /\ now' = now /\ Unused(t)
    BY <1>3 DEF OpenBare
  <2>2. x \in Txn /\ x.post = {} /\ x.op = "open" /\ x.on = {t} /\ x.num = NextNumber
    BY <1>2 DEF NoTxn, Txn, TicketStatus
  <2> HIDE DEF x
  <2>3. Finds(x)
    BY <2>1, <2>2 DEF Finds
  <2>4. Begins(w, x)
    BY <2>1, <2>2, <2>3, SilentBegins
  <2> QED BY <2>4
<1>4. ASSUME NEW by \in {"customer", "staff"}, OpenLoad(w, t, by)
      PROVE  \E x : Begins(w, x)
  <2> DEFINE x == [[NoTxn EXCEPT !.op = "open", !.on = {t}, !.to = "open", !.num = NextNumber]
                     EXCEPT !.post = txn[w].post]
  <2>1. Unused(t) /\ Turn(w, x) /\ now' = now
    BY <1>4 DEF OpenLoad, LoadToPost
  <2>2. x \in Txn /\ x.post = txn[w].post /\ x.on = {t} /\ x.op = "open" /\ x.num = NextNumber
    BY <1>1, <1>2 DEF NoTxn, Txn, TicketStatus
  <2> HIDE DEF x
  <2>3. Begins(w, x)
    BY <2>1, <2>2 DEF Begins, Turn, Writes, Finds
  <2> QED BY <2>3
<1> QED BY <1>3, <1>4

LEMMA UpdateBegins ==
    ASSUME IInv, NEW w \in Workers, NEW t,
           \/ \E to \in TicketStatus : UpdateLoad(w, t, to)
           \/ AssignLoad(w, t) \/ ResolveLoad(w, t)
    PROVE  \E x : Begins(w, x)
<1>1. t \in Opened /\ t \in Tickets /\ status[t] \in TicketStatus /\ now' = now
  BY DEF UpdateLoad, AssignLoad, ResolveLoad, Opened, IInv, Types
<1>2. ASSUME NEW op \in {"update", "resolve"}, NEW to \in TicketStatus \cup {"same"},
             NEW d \in BOOLEAN, NEW x \in {[Session(op, t) EXCEPT !.to = to, !.date = d],
                                           [Session(op, t) EXCEPT !.to = to]},
             Load(w, x)
      PROVE  Begins(w, x)
  <2>1. x \in Txn /\ x.post = {} /\ x.op = op /\ x.on = {t}
    <3>1. CASE x = [Session(op, t) EXCEPT !.to = to, !.date = d]
      BY <1>1, <3>1 DEF Session, NoTxn, Txn
    <3>2. CASE x = [Session(op, t) EXCEPT !.to = to]
      BY <1>1, <3>2 DEF Session, NoTxn, Txn
    <3> QED BY <3>1, <3>2
  <2>2. Finds(x)
    BY <1>1, <2>1 DEF Finds
  <2> QED BY <1>1, <1>2, <2>1, <2>2, SilentBegins
<1>3. ASSUME NEW to \in TicketStatus, UpdateLoad(w, t, to)
      PROVE  \E x : Begins(w, x)
  <2> DEFINE new == Writing(to, status[t])
             d == to \in Done /\ t \notin dated
  <2>1. new \in TicketStatus \cup {"same"} /\ d \in BOOLEAN
    BY DEF Writing
  <2>2. Load(w, [Session("update", t) EXCEPT !.to = new, !.date = d])
    BY <1>3 DEF UpdateLoad
  <2> QED BY <1>2, <2>1, <2>2
<1>4. ASSUME AssignLoad(w, t)
      PROVE  \E x : Begins(w, x)
  <2>1. Load(w, [Session("update", t) EXCEPT !.to = "assigned"])
    BY <1>4 DEF AssignLoad
  <2> QED BY <1>2, <2>1 DEF TicketStatus
<1>5. ASSUME ResolveLoad(w, t)
      PROVE  \E x : Begins(w, x)
  <2> DEFINE new == Writing("resolved", status[t])
  <2>1. new \in TicketStatus \cup {"same"}
    BY DEF Writing, TicketStatus, Done
  <2>2. Load(w, [Session("resolve", t) EXCEPT !.to = new, !.date = TRUE])
    BY <1>5 DEF ResolveLoad
  <2> QED BY <1>2, <2>1, <2>2
<1> QED BY <1>3, <1>4, <1>5

(* A reply over REST. *)
LEMMA PostBegins ==
    ASSUME IInv, NEW w \in Workers, NEW t \in Opened, NEW by \in {"customer", "staff"},
           NEW to \in TicketStatus \cup {"same"},
           status[t] \in Done => to = "same" /\ by = "staff",
           LoadToPost(w, by, [Session("reply", t) EXCEPT !.to = to])
    PROVE  \E x : Begins(w, x)
<1> DEFINE x == [[Session("reply", t) EXCEPT !.to = to] EXCEPT !.post = txn[w].post]
<1>1. /\ txn[w] \in Txn /\ status[t] \in TicketStatus /\ t \in Tickets
      /\ Turn(w, x) /\ now' = now /\ \A m \in txn[w].post : m.by = by
  BY DEF IInv, Types, Handlers, Opened, LoadToPost
<1>2. /\ x \in Txn /\ x.post = txn[w].post /\ x.on = {t} /\ x.op = "reply"
      /\ x.seen = status[t] /\ x.to = to
  BY <1>1 DEF Session, NoTxn, Txn
<1> HIDE DEF x
<1>3. Begins(w, x)
  BY <1>1, <1>2 DEF Begins, Turn, Writes, Finds
<1> QED BY <1>3

LEMMA ReplyBegins ==
    ASSUME IInv, NEW w \in Workers, NEW t,
           ReplyByCustomer(w, t) \/ ReplyByStaff(w, t)
    PROVE  \E x : Begins(w, x)
<1>1. t \in Opened
  BY DEF ReplyByCustomer, ReplyByStaff
<1>2. CASE ReplyByCustomer(w, t)
  <2>1. LoadToPost(w, "customer", [Session("reply", t) EXCEPT !.to = AfterCustomer(t)])
    BY <1>2 DEF ReplyByCustomer
  <2>2. AfterCustomer(t) \in TicketStatus \cup {"same"} /\ status[t] \notin Done
    BY <1>2 DEF ReplyByCustomer, AfterCustomer, TicketStatus
  <2> QED BY <1>1, <2>1, <2>2, PostBegins
<1>3. CASE ReplyByStaff(w, t)
  <2> DEFINE to == IF status[t] \in {"open", "assigned"} THEN "in_progress" ELSE "same"
  <2>1. LoadToPost(w, "staff", [Session("reply", t) EXCEPT !.to = to])
    BY <1>3 DEF ReplyByStaff
  <2>2. to \in TicketStatus \cup {"same"} /\ (status[t] \in Done => to = "same")
    BY DEF TicketStatus, Done
  <2> HIDE DEF to
  <2> QED BY <1>1, <2>1, <2>2, PostBegins
<1> QED BY <1>2, <1>3

LEMMA FrameBegins ==
    ASSUME IInv, NEW c \in Clients, FrameLoad(c)
    PROVE  \E x : Begins(Loop, x)
<1> DEFINE t == Watched[c]
           to == IF Side[c] = "customer" THEN AfterCustomer(t)
                 ELSE IF status[t] = "open" THEN "in_progress" ELSE "same"
           x(m) == [Session("frame", t) EXCEPT !.post = {m}, !.to = to]
<1>1. Loop \in Handlers /\ t \in Opened /\ Tick /\ status[t] \notin Done
  BY DEF Handlers, FrameLoad, IInv, JoinedIsOpen
<1>2. PICK m \in Drafts(Side[c], "socket") : Load(Loop, x(m))
  BY DEF FrameLoad
<1>3. to \in TicketStatus \cup {"same"} /\ Side[c] \in {"customer", "staff"}
  BY ClientsAssumption DEF AfterCustomer, TicketStatus
<1>4. t \in Tickets /\ status[t] \in TicketStatus
  BY <1>1 DEF Opened, IInv, Types
<1>5. m \in Message /\ m.over = "socket" /\ m.at = now + 1 /\ now' = now + 1 /\ now' <= Horizon
  BY <1>1, <1>3, DraftsTyped DEF IInv
<1> HIDE DEF to
<1>6. /\ x(m) \in Txn /\ x(m).post = {m} /\ x(m).on = {t} /\ x(m).op = "frame"
      /\ x(m).seen = status[t]
  BY <1>3, <1>4, <1>5 DEF Session, NoTxn, Txn
<1> DEFINE y == x(m)
<1>7. /\ Load(Loop, y) /\ y \in Txn /\ y.post = {m} /\ y.on = {t} /\ y.op = "frame"
      /\ y.seen = status[t]
  BY <1>2, <1>6
<1> HIDE DEF y
<1> QED BY <1>1, <1>5, <1>7 DEF Begins, Load, Turn, Writes, Finds

--------------------------------------------------------------------------------
(* Steps that change no thread *)

LEMMA BeginKeeps ==
    ASSUME IInv, NEW h \in Handlers, NEW x, Begins(h, x)
    PROVE  IInv'
<1>1. /\ x \in Txn /\ txn' = [txn EXCEPT ![h] = x] /\ txn \in [Handlers -> Txn]
      /\ UNCHANGED <<number, status, dated, thread, read, room, inbox, held, caughtUp>>
      /\ now \in 0 .. Horizon /\ now' \in 0 .. Horizon /\ now <= now'
  <2>1. now \in 0 .. Horizon /\ (now' = now \/ (now' = now + 1 /\ now' <= Horizon))
    BY DEF IInv, Types, Begins, Writes
  <2>2. now' \in 0 .. Horizon /\ now <= now'
    BY HorizonAssumption, <2>1
  <2> QED BY <2>1, <2>2 DEF IInv, Types, Begins, tickets, clients
<1>2. txn'[h] = x /\ \A g \in Handlers \ {h} : txn'[g] = txn[g]
  BY <1>1
<1>3. Opened' = Opened /\ (\A t : Sent(t)' = Sent(t)) /\ \A m, t : Late(m, t)' = Late(m, t)
  BY <1>1 DEF Opened, Sent, Late
<1>4. Types'
  BY <1>1, <1>2, <1>3 DEF IInv, Types
<1>5. Numbered' /\ JoinedIsOpen'
  BY <1>1, <1>3 DEF IInv, Numbered, NumbersConsecutive, JoinedIsOpen
<1>6. Delivered'
  BY <1>1, <1>3 DEF IInv, Delivered, NoGap, InboxOrdered, HeldClosed, Spared
<1>7. Timed'
  <2>1. ASSUME NEW t \in Tickets PROVE ThreadTimed(t)'
    <3>2. \A i \in DOMAIN thread[t] : thread[t][i].at \in Nat
      BY RowsTyped DEF IInv, Types
    <3> QED BY <1>1, <3>2 DEF IInv, Timed, ThreadTimed
  <2>2. ASSUME NEW g \in Handlers \ {h} PROVE PostTimed(g)'
    <3>1. \A m \in txn[g].post : m.at \in Nat /\ m.at <= now
      BY HorizonAssumption DEF IInv, Types, Txn, Message, Timed, PostTimed
    <3>2. \A m \in x.post : m.at = now + 1 \/ m \in txn[h].post
      BY DEF Begins, Writes
    <3>3. \A m \in txn[g].post, n \in txn'[h].post : n.at # m.at
      BY <1>1, <1>2, <3>1, <3>2 DEF IInv, Timed, PostTimed
    <3>4. \A m \in txn[g].post : m.at <= now'
      BY <1>1, <3>1
    <3> QED BY <1>1, <1>2, <3>3, <3>4 DEF IInv, Timed, PostTimed
  <2>3. PostTimed(h)'
    <3>1. CASE x.post = {}
      BY <1>2, <3>1 DEF PostTimed
    <3>2. ASSUME NEW m \in Message, x.post = {m}, m.at = now + 1, now' = now + 1,
                 m.over = IF h = Loop THEN "socket" ELSE "rest"
          PROVE  PostTimed(h)'
      <4>1. \A t \in Tickets : \A i \in DOMAIN thread[t] : thread[t][i].at # m.at
        <5>1. \A t \in Tickets : \A i \in DOMAIN thread[t] :
                 thread[t][i].at \in Nat /\ thread[t][i].at <= now
          BY RowsTyped DEF IInv, Types, Timed, ThreadTimed
        <5> QED BY <1>1, <3>2, <5>1
      <4>2. \A g \in Handlers \ {h} : \A n \in txn'[g].post : n.at # m.at
        <5>1. \A g \in Handlers : \A n \in txn[g].post : n.at \in Nat /\ n.at <= now
          BY HorizonAssumption DEF IInv, Types, Txn, Message, Timed, PostTimed
        <5> QED BY <1>1, <1>2, <3>2, <5>1
      <4>3. m.at <= now'
        BY <1>1, <3>2
      <4> QED BY <1>1, <1>2, <3>2, <4>1, <4>2, <4>3 DEF PostTimed
    <3>3. CASE x.post = txn[h].post /\ now' = now
      BY <1>1, <1>2, <3>3 DEF IInv, Timed, PostTimed
    <3> QED BY <3>1, <3>2, <3>3 DEF Begins, Writes
  <2> QED BY <2>1, <2>2, <2>3 DEF Timed
<1>8. ASSUME NEW g \in Handlers PROVE Loaded(g)' /\ Quiet(g)'
  <2>1. CASE g # h
    <3>1. txn'[g] = txn[g] /\ Loaded(g) /\ Quiet(g)
      BY <1>2, <2>1 DEF IInv
    <3>2. Quiet(g)'
      BY <3>1 DEF Quiet
    <3>3. CASE txn[g].op # "open"
      BY <1>3, <3>1, <3>2, <3>3 DEF Loaded
    <3>4. CASE txn[g].op = "open"
      <4>1. PICK t \in Tickets \ Opened :
                txn[g].on = {t} /\ \A k \in Handlers \ {g} : t \notin txn[k].on
        BY <3>1, <3>4 DEF Loaded, OpensAlone
      <4>2. t \notin x.on
        BY <2>1, <4>1 DEF Begins, Finds, Unused
      <4>3. \A k \in Handlers \ {g} : t \notin txn'[k].on
        BY <1>2, <4>1, <4>2
      <4> QED BY <1>3, <3>1, <3>2, <3>4, <4>1, <4>3 DEF Loaded, OpensAlone
    <3> QED BY <3>2, <3>3, <3>4
  <2>2. CASE g = h
    <3>1. txn'[g] = x
      BY <1>2, <2>2
    <3>2. Quiet(g)'
      BY <3>1 DEF Begins, Quiet
    <3>3. CASE x.op # "open"
      BY <1>3, <3>1, <3>2, <3>3 DEF Loaded, Begins, Finds
    <3>4. CASE x.op = "open"
      <4>1. PICK t \in Tickets : x.on = {t} /\ Unused(t)
        BY <3>4 DEF Begins, Finds
      <4>2. Cardinality(Opened) \in Nat /\ x.num = Cardinality(Opened) + 1
        BY <3>4, FS_CardinalityType DEF Begins, Finds, NextNumber, IInv, Numbered
      <4>3. \A k \in Handlers \ {g} : t \notin txn'[k].on
        BY <1>2, <2>2, <4>1 DEF Unused
      <4> QED BY <1>3, <3>1, <3>2, <3>4, <4>1, <4>2, <4>3 DEF Loaded, OpensAlone, Unused
    <3> QED BY <3>2, <3>3, <3>4
  <2> QED BY <2>1, <2>2
<1> QED BY <1>4, <1>5, <1>6, <1>7, <1>8 DEF IInv

LEMMA AbortKeeps ==
    ASSUME IInv, NEW h \in Handlers, Abort(h)
    PROVE  IInv'
<1>1. /\ txn' = [txn EXCEPT ![h] = NoTxn] /\ txn \in [Handlers -> Txn]
      /\ UNCHANGED <<number, status, dated, thread, read, now, room, inbox, held, caughtUp>>
  BY DEF Abort, tickets, clients, IInv, Types
<1>2. txn'[h] = NoTxn /\ \A g \in Handlers \ {h} : txn'[g] = txn[g]
  BY <1>1
<1>3. Opened' = Opened /\ (\A t : Sent(t)' = Sent(t)) /\ \A m, t : Late(m, t)' = Late(m, t)
  BY <1>1 DEF Opened, Sent, Late
<1>4. Types'
  BY <1>1, <1>3, NoTxnTyped DEF IInv, Types
<1>5. Numbered' /\ JoinedIsOpen'
  BY <1>1, <1>3 DEF IInv, Numbered, NumbersConsecutive, JoinedIsOpen
<1>6. Delivered'
  BY <1>1, <1>3 DEF IInv, Delivered, NoGap, InboxOrdered, HeldClosed, Spared
<1>7. Timed'
  <2>1. \A t \in Tickets : ThreadTimed(t)'
    BY <1>1 DEF IInv, Timed, ThreadTimed
  <2>2. \A g \in Handlers : txn'[g].post \subseteq txn[g].post
    BY <1>2 DEF NoTxn
  <2>3. \A g \in Handlers : PostTimed(g)'
    BY <1>1, <2>2 DEF IInv, Timed, PostTimed
  <2> QED BY <2>1, <2>3 DEF Timed
<1>8. ASSUME NEW g \in Handlers PROVE Loaded(g)' /\ Quiet(g)'
  <2>1. CASE g = h
    BY <1>2, <2>1 DEF NoTxn, Loaded, Quiet
  <2>2. CASE g # h
    <3>1. txn'[g] = txn[g] /\ \A k \in Handlers : txn'[k].on \subseteq txn[k].on
      BY <1>2, <2>2 DEF NoTxn
    <3> QED BY <1>3, <3>1 DEF IInv, Loaded, OpensAlone, Quiet
  <2> QED BY <2>1, <2>2
<1> QED BY <1>4, <1>5, <1>6, <1>7, <1>8 DEF IInv

(* A step of a client: the rows and the sessions are as they were. *)
LEMMA RowsStay ==
    ASSUME IInv, UNCHANGED <<number, status, dated, thread, now, txn>>
    PROVE  /\ Numbered' /\ Timed' /\ \A h \in Handlers : Loaded(h)' /\ Quiet(h)'
           /\ Opened' = Opened /\ \A t : Sent(t)' = Sent(t)
           /\ \A m, t : Late(m, t)' = Late(m, t) /\ Spared(m, t)' = Spared(m, t)
<1>1. Opened' = Opened /\ (\A t : Sent(t)' = Sent(t)) /\ \A m, t : Late(m, t)' = Late(m, t)
  BY DEF Opened, Sent, Late
<1>2. Numbered'
  BY <1>1 DEF IInv, Numbered, NumbersConsecutive
<1>3. Timed'
  BY DEF IInv, Timed, PostTimed, ThreadTimed
<1>4. \A h \in Handlers : Loaded(h)' /\ Quiet(h)'
  BY <1>1 DEF IInv, Loaded, OpensAlone, Quiet
<1> QED BY <1>1, <1>2, <1>3, <1>4 DEF Spared

LEMMA OrderStays ==
    ASSUME IInv, UNCHANGED thread, NEW c \in Clients, inbox'[c] = inbox[c]
    PROVE  InboxOrdered(c)'
<1>1. InboxOrdered(c) /\ \A t : Sent(t)' = Sent(t)
  BY DEF IInv, Delivered, Sent
<1> QED BY <1>1 DEF InboxOrdered

LEMMA ClosedStays ==
    ASSUME IInv, UNCHANGED thread, NEW c \in Clients, held'[c] = held[c]
    PROVE  HeldClosed(c)'
<1>1. HeldClosed(c) /\ (\A t : Sent(t)' = Sent(t)) /\ \A m, t : Spared(m, t)' = Spared(m, t)
  BY DEF IInv, Delivered, Sent, Spared, Late
<1> QED BY <1>1 DEF HeldClosed

LEMMA MarkReadKeeps ==
    ASSUME IInv, NEW c \in Clients, MarkRead(c)
    PROVE  IInv'
<1>1. /\ UNCHANGED <<number, status, dated, thread, now, txn, room, inbox, held, caughtUp>>
      /\ read' \subseteq read \cup {m.id : m \in Sent(Watched[c])}
  BY DEF MarkRead, handlers, clients
<1>2. \A m \in Sent(Watched[c]) : m.id \in Msgs
  <2>1. thread[Watched[c]] \in Seq(Message)
    BY ClientsAssumption DEF IInv, Types
  <2>2. Sent(Watched[c]) \subseteq Message
    BY <2>1, RowsTyped DEF Sent
  <2> QED BY <2>2 DEF Message
<1>3. Types'
  BY <1>1, <1>2, RowsStay DEF IInv, Types
<1>4. JoinedIsOpen'
  BY <1>1, RowsStay DEF IInv, JoinedIsOpen
<1>5. NoGap'
  BY <1>1, RowsStay DEF IInv, Delivered, NoGap
<1>6. Delivered'
  BY <1>1, <1>5, OrderStays, ClosedStays DEF Delivered
<1> QED BY <1>1, <1>3, <1>4, <1>6, RowsStay DEF IInv

LEMMA JoinKeeps ==
    ASSUME IInv, NEW c \in Clients, Join(c)
    PROVE  IInv'
<1>1. /\ UNCHANGED <<number, status, dated, thread, now, txn, read, inbox, held, caughtUp>>
      /\ room' = room \cup {c} /\ Watched[c] \in Opened
  BY DEF Join, tickets, handlers
<1>2. Types' /\ JoinedIsOpen'
  BY <1>1, RowsStay DEF IInv, Types, JoinedIsOpen
<1>3. Delivered'
  BY <1>1, RowsStay DEF IInv, Delivered, NoGap, InboxOrdered, HeldClosed
<1> QED BY <1>1, <1>2, <1>3, RowsStay DEF IInv

LEMMA DropKeeps ==
    ASSUME IInv, NEW c \in Clients, Drop(c)
    PROVE  IInv'
<1>1. /\ UNCHANGED <<number, status, dated, thread, now, txn, read, held>>
      /\ room' = room \ {c} /\ caughtUp' = caughtUp \ {c}
      /\ inbox' = [inbox EXCEPT ![c] = <<>>]
  BY DEF Drop, tickets, handlers
<1>2. inbox \in [Clients -> Seq(Message)] /\ <<>> \in Seq(Message) /\ DOMAIN <<>> = {}
  BY EmptySeq, LenProperties DEF IInv, Types
<1>3. Types' /\ JoinedIsOpen'
  BY <1>1, <1>2, RowsStay DEF IInv, Types, JoinedIsOpen
<1>4. \A d \in Clients : inbox'[d] = IF d = c THEN <<>> ELSE inbox[d]
  BY <1>1, <1>2
<1>5. NoGap'
  BY <1>1, <1>4, RowsStay DEF IInv, Types, Delivered, NoGap
<1>6. ASSUME NEW d \in Clients PROVE InboxOrdered(d)' /\ HeldClosed(d)'
  <2>1. HeldClosed(d)'
    BY <1>1, ClosedStays
  <2>2. CASE d = c
    BY <1>2, <1>4, <2>1, <2>2 DEF InboxOrdered
  <2>3. CASE d # c
    BY <1>1, <1>4, <2>1, <2>3, OrderStays
  <2> QED BY <2>2, <2>3
<1> QED BY <1>1, <1>3, <1>5, <1>6, RowsStay DEF IInv, Delivered

--------------------------------------------------------------------------------
(* Asking for what was missed *)

LEMMA LatestExists ==
    ASSUME NEW S \in SUBSET (1 .. Horizon), S # {}
    PROVE  \E n \in S : \A k \in S : k <= n
<1> DEFINE T == {Horizon - n : n \in S}
<1>1. T \subseteq Nat /\ T # {}
  <2>1. \A n \in S : Horizon - n \in Nat
    BY HorizonAssumption
  <2> QED BY <2>1
<1>2. PICK x \in T : \A y \in T : ~ (<<y, x>> \in OpToRel(<, Nat))
  BY <1>1, WFMin, NatLessThanWellFounded
<1>3. \A y \in T : ~(y < x)
  BY <1>1, <1>2 DEF OpToRel
<1>4. PICK n \in S : x = Horizon - n
  BY <1>2
<1>5. ASSUME NEW k \in S PROVE k <= n
  <2>1. ~(Horizon - k < Horizon - n)
    BY <1>3, <1>4
  <2> QED BY <2>1, HorizonAssumption
<1> QED BY <1>5

(* The cursor is the time of a message it holds. *)
LEMMA CursorHeld ==
    ASSUME Types, NEW c \in Clients, held[c] # {}
    PROVE  \E m \in held[c] : Cursor(c) = m.at
<1> DEFINE S == {m.at : m \in held[c]}
<1>1. S \in SUBSET (1 .. Horizon) /\ S # {}
  BY DEF Types, Message
<1>2. \E n \in S : \A k \in S : k <= n
  BY <1>1, LatestExists
<1>3. Cursor(c) \in S
  BY <1>2 DEF Cursor
<1> QED BY <1>3

(* After asking, a client holds whatever it may not do without.            *)
LEMMA NothingMissed ==
    ASSUME IInv, NEW c \in Clients, NEW m \in Sent(Watched[c])
    PROVE  m \in held[c] \cup Missed(c) \/ Spared(m, Watched[c])
<1> DEFINE t == Watched[c]
<1>1. thread[t] \in Seq(Message)
  BY ClientsAssumption DEF IInv, Types
<1>2. CASE Side[c] = "customer" => m.at > Cursor(c)
  BY <1>2 DEF Missed
<1>3. CASE Side[c] = "customer" /\ ~(m.at > Cursor(c))
  <2>1. m.at \in 1 .. Horizon
    BY <1>1, RowsTyped DEF Sent, Message
  <2>2. held[c] # {}
    BY <1>3, <2>1 DEF Cursor
  <2>3. PICK n \in held[c] : Cursor(c) = n.at
    BY <2>2, CursorHeld DEF IInv
  <2>4. HeldClosed(c)
    BY DEF IInv, Delivered
  <2>5. PICK i \in DOMAIN thread[t] : m = thread[t][i]
    BY DEF Sent
  <2>6. PICK j \in DOMAIN thread[t] : n = thread[t][j]
    BY <2>3, <2>4 DEF HeldClosed, Sent
  <2>7. i \in Nat /\ j \in Nat /\ m.at \in Nat /\ n.at \in Nat /\ m.at <= n.at
    BY <1>1, <1>3, <2>3, <2>5, <2>6, RowsTyped
  <2>8. CASE i = j
    BY <2>3, <2>5, <2>6, <2>8
  <2>9. CASE i < j
    BY <2>3, <2>4, <2>5, <2>6, <2>9 DEF HeldClosed
  <2>10. CASE j < i
    <3>1. thread[t][j].at # thread[t][i].at
      BY <2>5, <2>6, <2>7, <2>10, ClientsAssumption DEF IInv, Timed, ThreadTimed
    <3>2. thread[t][j].at > m.at
      BY <2>5, <2>6, <2>7, <3>1
    <3>3. Late(m, t)
      BY <2>5, <2>10, <3>2 DEF Late
    <3> QED BY <3>3 DEF Spared
  <2> QED BY <2>7, <2>8, <2>9, <2>10
<1> QED BY <1>2, <1>3

LEMMA CatchUpKeeps ==
    ASSUME IInv, NEW c \in Clients, CatchUp(c)
    PROVE  IInv'
<1> DEFINE t == Watched[c]
<1>1. /\ UNCHANGED <<number, status, dated, thread, now, txn, read, room, inbox>>
      /\ held' = [held EXCEPT ![c] = held[c] \cup Missed(c)]
      /\ caughtUp' = caughtUp \cup {c} /\ c \in room
      /\ held \in [Clients -> SUBSET Message]
  BY DEF CatchUp, tickets, handlers, IInv, Types
<1>2. Missed(c) \subseteq Sent(t) /\ Sent(t) \subseteq Message
  <2>1. thread[t] \in Seq(Message)
    BY ClientsAssumption DEF IInv, Types
  <2> QED BY <2>1, RowsTyped DEF Missed, Sent
<1>3. \A d \in Clients : held'[d] = IF d = c THEN held[c] \cup Missed(c) ELSE held[d]
  BY <1>1
<1>4. held' \in [Clients -> SUBSET Message]
  BY <1>1, <1>2
<1>5. Types' /\ JoinedIsOpen'
  BY <1>1, <1>4, RowsStay DEF IInv, Types, JoinedIsOpen
<1>6. \A m \in Sent(t) : m \in held'[c] \/ Spared(m, t)
  BY <1>3, NothingMissed
<1>7. NoGap'
  <2> SUFFICES ASSUME NEW d \in caughtUp', NEW m \in Sent(Watched[d])
               PROVE  \/ m \in held'[d] \/ \E i \in DOMAIN inbox[d] : inbox[d][i] = m
                      \/ m.over = "rest" \/ Late(m, Watched[d])
    BY <1>1, RowsStay DEF NoGap
  <2>1. CASE d = c
    BY <1>6, <2>1 DEF Spared
  <2>2. CASE d # c
    BY <1>1, <1>3, <2>2 DEF IInv, Types, Delivered, NoGap
  <2> QED BY <2>1, <2>2
<1>8. ASSUME NEW d \in Clients PROVE HeldClosed(d)'
  <2>1. CASE d # c
    BY <1>1, <1>3, <2>1, ClosedStays
  <2>2. CASE d = c
    <3>1. held'[c] \subseteq Sent(t)
      BY <1>2, <1>3 DEF IInv, Delivered, HeldClosed
    <3>2. \A i \in DOMAIN thread[t] : thread[t][i] \in held'[c] \/ Spared(thread[t][i], t)
      BY <1>6 DEF Sent
    <3> QED BY <1>1, <2>2, <3>1, <3>2, RowsStay DEF HeldClosed
  <2> QED BY <2>1, <2>2
<1>9. Delivered'
  BY <1>1, <1>7, <1>8, OrderStays DEF Delivered
<1> QED BY <1>1, <1>5, <1>9, RowsStay DEF IInv

LEMMA ReceiveKeeps ==
    ASSUME IInv, NEW c \in Clients, Receive(c)
    PROVE  IInv'
<1> DEFINE t == Watched[c]
           in == inbox[c]
<1>1. /\ UNCHANGED <<number, status, dated, thread, now, txn, read, room, caughtUp>>
      /\ held' = [held EXCEPT ![c] = held[c] \cup {Head(in)}]
      /\ inbox' = [inbox EXCEPT ![c] = Tail(in)]
      /\ c \in caughtUp /\ in # <<>>
      /\ held \in [Clients -> SUBSET Message] /\ inbox \in [Clients -> Seq(Message)]
  BY DEF Receive, tickets, handlers, IInv, Types
<1>2. /\ in \in Seq(Message) /\ Head(in) = in[1] /\ 1 \in DOMAIN in
      /\ Tail(in) \in Seq(Message) /\ DOMAIN Tail(in) = 1 .. Len(in) - 1
      /\ DOMAIN in = 1 .. Len(in) /\ Len(in) \in Nat
      /\ \A i \in 1 .. Len(in) - 1 : Tail(in)[i] = in[i + 1]
  <2>1. in \in Seq(Message)
    BY <1>1
  <2>2. /\ Tail(in) \in Seq(Message) /\ Len(Tail(in)) = Len(in) - 1
        /\ \A i \in 1 .. Len(Tail(in)) : Tail(in)[i] = in[i + 1]
    BY <1>1, <2>1, HeadTailProperties
  <2>3. Len(in) \in Nat \ {0} /\ DOMAIN in = 1 .. Len(in)
    BY <1>1, <2>1, EmptySeq, LenProperties
  <2>4. DOMAIN Tail(in) = 1 .. Len(in) - 1
    BY <2>2, LenProperties
  <2> QED BY <2>1, <2>2, <2>3, <2>4
<1>3. /\ \A d \in Clients : held'[d] = IF d = c THEN held[c] \cup {in[1]} ELSE held[d]
      /\ \A d \in Clients : inbox'[d] = IF d = c THEN Tail(in) ELSE inbox[d]
  BY <1>1, <1>2
<1>4. in[1] \in Message /\ InboxOrdered(c) /\ HeldClosed(c)
  BY <1>2, RowsTyped DEF IInv, Delivered
<1>5. Types' /\ JoinedIsOpen'
  <2>1. held' \in [Clients -> SUBSET Message] /\ inbox' \in [Clients -> Seq(Message)]
    BY <1>1, <1>2, <1>4
  <2> QED BY <1>1, <2>1, RowsStay DEF IInv, Types, JoinedIsOpen
<1>6. NoGap'
  <2> SUFFICES ASSUME NEW d \in caughtUp, NEW m \in Sent(Watched[d])
               PROVE  \/ m \in held'[d] \/ \E i \in DOMAIN inbox'[d] : inbox'[d][i] = m
                      \/ m.over = "rest" \/ Late(m, Watched[d])
    BY <1>1, RowsStay DEF NoGap
  <2>1. /\ d \in Clients
        /\ \/ m \in held[d] \/ \E i \in DOMAIN inbox[d] : inbox[d][i] = m
           \/ m.over = "rest" \/ Late(m, Watched[d])
    BY DEF IInv, Types, Delivered, NoGap
  <2>2. CASE d # c
    BY <1>3, <2>1, <2>2
  <2>3. ASSUME d = c, NEW i \in DOMAIN in, in[i] = m, i # 1
        PROVE  \E k \in DOMAIN Tail(in) : Tail(in)[k] = m
    <3>1. i - 1 \in 1 .. Len(in) - 1 /\ i - 1 + 1 = i
      BY <1>2, <2>3
    <3>2. Tail(in)[i - 1] = m
      BY <1>2, <2>3, <3>1
    <3> QED BY <1>2, <3>1, <3>2
  <2> QED BY <1>3, <2>1, <2>2, <2>3
<1>7. ASSUME NEW d \in Clients PROVE InboxOrdered(d)'
  <2>1. CASE d # c
    BY <1>1, <1>3, <2>1, OrderStays
  <2>2. CASE d = c
    <3>1. \A i \in DOMAIN Tail(in) : Tail(in)[i] = in[i + 1] /\ i + 1 \in DOMAIN in /\ i \in Nat
      BY <1>2
    <3>2. \A a, b \in DOMAIN Tail(in) : a < b => a + 1 < b + 1
      BY <1>2
    <3>3. \A a \in DOMAIN Tail(in) : Tail(in)[a] \in Sent(t)
      BY <1>4, <3>1 DEF InboxOrdered
    <3>4. \A a, b \in DOMAIN Tail(in) : \A i, j \in DOMAIN thread[t] :
             a < b /\ thread[t][i] = Tail(in)[a] /\ thread[t][j] = Tail(in)[b] => i < j
      BY <1>4, <3>1, <3>2 DEF InboxOrdered
    <3> QED BY <1>1, <1>3, <2>2, <3>3, <3>4, RowsStay DEF InboxOrdered
  <2> QED BY <2>1, <2>2
<1>8. ASSUME NEW d \in Clients PROVE HeldClosed(d)'
  <2>1. CASE d # c
    BY <1>1, <1>3, <2>1, ClosedStays
  <2>2. CASE d = c
    <3>1. held'[c] \subseteq Sent(t)
      BY <1>2, <1>3, <1>4 DEF InboxOrdered, HeldClosed
    <3>2. ASSUME NEW i \in DOMAIN thread[t], NEW j \in DOMAIN thread[t],
                 i < j, thread[t][j] \in held'[c]
          PROVE  thread[t][i] \in held'[c] \/ Spared(thread[t][i], t)
      <4>1. CASE thread[t][j] \in held[c]
        BY <1>3, <1>4, <3>2, <4>1 DEF HeldClosed
      <4>2. CASE thread[t][j] = in[1]
        <5>1. \/ thread[t][i] \in held[c] \/ Spared(thread[t][i], t)
              \/ \E k \in DOMAIN in : in[k] = thread[t][i]
          BY <1>1 DEF IInv, Delivered, NoGap, Spared, Sent
        <5>2. ASSUME NEW k \in DOMAIN in, in[k] = thread[t][i] PROVE k = 1
          <6>1. ~(1 < k)
            <7> SUFFICES ASSUME 1 < k PROVE FALSE
              OBVIOUS
            <7>1. j < i
              BY <1>2, <1>4, <4>2, <5>2 DEF InboxOrdered
            <7>2. i \in Nat /\ j \in Nat
              BY ClientsAssumption, RowsTyped DEF IInv, Types
            <7> QED BY <3>2, <7>1, <7>2
          <6> QED BY <1>2, <6>1
        <5> QED BY <1>3, <5>1, <5>2
      <4> QED BY <1>3, <3>2, <4>1, <4>2
    <3> QED BY <1>1, <2>2, <3>1, <3>2, RowsStay DEF HeldClosed
  <2> QED BY <2>1, <2>2
<1>9. Delivered'
  BY <1>6, <1>7, <1>8 DEF Delivered
<1> QED BY <1>1, <1>5, <1>9, RowsStay DEF IInv

--------------------------------------------------------------------------------
(* Commits *)

(* u is s and then m. *)
Grown(s, u, m) ==
    /\ u \in Seq(Message) /\ Len(u) = Len(s) + 1
    /\ \A i \in 1 .. Len(s) : u[i] = s[i]
    /\ u[Len(u)] = m

LEMMA AppendedIsGrown ==
    ASSUME NEW s \in Seq(Message), NEW m \in Message
    PROVE  Grown(s, s \o <<m>>, m)
<1>1. Len(s) \in Nat /\ <<m>> \in Seq(Message) /\ Len(<<m>>) = 1 /\ <<m>>[1] = m
  BY LenProperties
<1>2. /\ s \o <<m>> \in Seq(Message) /\ Len(s \o <<m>>) = Len(s) + 1
      /\ \A i \in 1 .. Len(s) + 1 :
            (s \o <<m>>)[i] = IF i <= Len(s) THEN s[i] ELSE <<m>>[i - Len(s)]
  BY <1>1, ConcatProperties
<1>3. \A i \in 1 .. Len(s) : (s \o <<m>>)[i] = s[i]
  BY <1>1, <1>2
<1>4. (s \o <<m>>)[Len(s) + 1] = m
  <2>1. Len(s) + 1 \in 1 .. Len(s) + 1 /\ ~(Len(s) + 1 <= Len(s)) /\ Len(s) + 1 - Len(s) = 1
    BY <1>1
  <2> QED BY <1>1, <1>2, <2>1
<1> QED BY <1>2, <1>3, <1>4 DEF Grown

(* A commit adds the session's message, if it has one, to its tickets and  *)
(* to what is on its way to those who hear of it.                          *)
CommitAdds(h, m) ==
    /\ \A t \in Tickets : IF t \in txn[h].on THEN Grown(thread[t], thread'[t], m)
                          ELSE thread'[t] = thread[t]
    /\ \A c \in Clients : IF Hears(h, c) THEN Grown(inbox[c], inbox'[c], m)
                          ELSE inbox'[c] = inbox[c]

LEMMA CommitSays ==
    ASSUME IInv, NEW h \in Handlers, Commit(h)
    PROVE  /\ thread' \in [Tickets -> Seq(Message)] /\ inbox' \in [Clients -> Seq(Message)]
           /\ \/ thread' = thread /\ inbox' = inbox /\ txn[h].post = {}
              \/ \E m \in txn[h].post : m \in Message /\ CommitAdds(h, m)
<1> DEFINE x == txn[h]
<1>1. x.post \subseteq Message
  BY DEF IInv, Types, Txn
<1>2. thread \in [Tickets -> Seq(Message)] /\ inbox \in [Clients -> Seq(Message)]
  BY DEF IInv, Types
<1>3. PICK row \in {<<>>} \cup {<<m>> : m \in x.post} :
          /\ row = <<>> <=> x.post = {}
          /\ thread' = [t \in Tickets |-> IF t \in x.on THEN thread[t] \o row ELSE thread[t]]
          /\ inbox' = [c \in Clients |-> IF Hears(h, c) THEN inbox[c] \o row ELSE inbox[c]]
  BY DEF Commit
<1>4. CASE row = <<>>
  <2>1. \A t \in Tickets : thread[t] \o row = thread[t]
    BY <1>2, <1>4, ConcatEmptySeq
  <2>2. \A c \in Clients : inbox[c] \o row = inbox[c]
    BY <1>2, <1>4, ConcatEmptySeq
  <2>3. thread' = thread
    BY <1>2, <1>3, <2>1
  <2>4. inbox' = inbox
    BY <1>2, <1>3, <2>2
  <2> QED BY <1>2, <1>3, <1>4, <2>3, <2>4
<1>5. CASE row # <<>>
  <2>1. PICK m \in x.post : row = <<m>>
    BY <1>3, <1>5
  <2>2. m \in Message
    BY <1>1
  <2>3. \A t \in Tickets : Grown(thread[t], thread[t] \o row, m)
    BY <1>2, <2>1, <2>2, AppendedIsGrown
  <2>4. \A c \in Clients : Grown(inbox[c], inbox[c] \o row, m)
    BY <1>2, <2>1, <2>2, AppendedIsGrown
  <2>5. \A t \in Tickets : thread'[t] = IF t \in x.on THEN thread[t] \o row ELSE thread[t]
    BY <1>3
  <2>6. \A c \in Clients : inbox'[c] = IF Hears(h, c) THEN inbox[c] \o row ELSE inbox[c]
    BY <1>3
  <2>7. CommitAdds(h, m)
    BY <2>3, <2>4, <2>5, <2>6 DEF CommitAdds
  <2>8. thread' \in [Tickets -> Seq(Message)]
    <3>1. \A t \in Tickets : thread[t] \o row \in Seq(Message)
      BY <2>3 DEF Grown
    <3> QED BY <1>2, <1>3, <3>1
  <2>9. inbox' \in [Clients -> Seq(Message)]
    <3>1. \A c \in Clients : inbox[c] \o row \in Seq(Message)
      BY <2>4 DEF Grown
    <3> QED BY <1>2, <1>3, <3>1
  <2> QED BY <2>2, <2>7, <2>8, <2>9
<1> QED BY <1>4, <1>5

(* The number of a ticket that opens is the next. *)
LEMMA CommitNumbers ==
    ASSUME IInv, NEW h \in Handlers, Commit(h)
    PROVE  /\ Numbered' /\ number' \in [Tickets -> Nat]
           /\ Opened' = Opened \cup txn[h].on
           /\ Cardinality(Opened) \in Nat /\ Cardinality(Opened') \in Nat
           /\ Cardinality(Opened) <= Cardinality(Opened')
<1> DEFINE x == txn[h]
<1>1. /\ number \in [Tickets -> Nat] /\ IsFiniteSet(Opened) /\ NumbersConsecutive /\ Loaded(h)
      /\ number' = [t \in Tickets |-> IF t \in x.on /\ x.op = "open" THEN x.num ELSE number[t]]
      /\ ~Refused(x)
  BY DEF IInv, Types, Numbered, Commit
<1>2. Cardinality(Opened) \in Nat
  BY <1>1, FS_CardinalityType
<1>3. CASE x.op # "open"
  <2>1. number' = number /\ x.on \subseteq Opened
    BY <1>1, <1>3 DEF Loaded
  <2>2. Opened' = Opened /\ Opened' = Opened \cup x.on
    BY <2>1 DEF Opened
  <2>3. Numbered'
    BY <1>1, <2>1, <2>2 DEF Numbered, NumbersConsecutive
  <2> QED BY <1>1, <1>2, <2>1, <2>2, <2>3
<1>4. CASE x.op = "open"
  <2>1. PICK t \in Tickets \ Opened : x.on = {t}
    BY <1>1, <1>4 DEF Loaded, OpensAlone
  <2>2. x.num \in 1 .. Cardinality(Opened) + 1
    BY <1>1, <1>4 DEF Loaded, OpensAlone
  <2>3. \A u \in Opened : number[u] # x.num
    BY <1>1, <1>4 DEF Refused
  <2>4. x.num \notin 1 .. Cardinality(Opened)
    BY <1>1, <2>3 DEF NumbersConsecutive
  <2>5. x.num = Cardinality(Opened) + 1 /\ x.num \in Nat \ {0}
    BY <1>2, <2>2, <2>4
  <2>6. \A u \in Tickets : number'[u] = IF u = t THEN x.num ELSE number[u]
    BY <1>1, <1>4, <2>1
  <2>7. Opened' = Opened \cup {t}
    BY <2>5, <2>6 DEF Opened
  <2>8. IsFiniteSet(Opened') /\ Cardinality(Opened') = Cardinality(Opened) + 1
    BY <1>1, <2>1, <2>7, FS_AddElement
  <2>9. NumbersConsecutive'
    <3>1. {number'[u] : u \in Opened'} = {number[u] : u \in Opened} \cup {x.num}
      <4>1. \A u \in Opened : u \in Tickets /\ number'[u] = number[u]
        BY <2>1, <2>6 DEF Opened
      <4> QED BY <2>1, <2>6, <2>7, <4>1
    <3>2. 1 .. Cardinality(Opened) + 1 = (1 .. Cardinality(Opened)) \cup {Cardinality(Opened) + 1}
      BY <1>2
    <3>3. {number'[u] : u \in Opened'} = 1 .. Cardinality(Opened')
      BY <1>1, <2>5, <2>8, <3>1, <3>2 DEF NumbersConsecutive
    <3>4. \A u, v \in Opened' : number'[u] = number'[v] => u = v
      <4>1. \A u \in Opened : u \in Tickets /\ u # t
        BY <2>1 DEF Opened
      <4> QED BY <1>1, <2>3, <2>6, <2>7, <4>1 DEF NumbersConsecutive
    <3> QED BY <3>3, <3>4 DEF NumbersConsecutive
  <2>10. number' \in [Tickets -> Nat]
    BY <1>1, <2>5
  <2> QED BY <1>2, <2>1, <2>7, <2>8, <2>9, <2>10 DEF Numbered
<1> QED BY <1>3, <1>4

(* What Grown says of where each message is. *)
LEMMA GrownRows ==
    ASSUME NEW s \in Seq(Message), NEW u, NEW m, Grown(s, u, m)
    PROVE  /\ Len(s) \in Nat /\ DOMAIN s = 1 .. Len(s) /\ DOMAIN u = 1 .. Len(s) + 1
           /\ \A i \in DOMAIN s : i \in DOMAIN u /\ u[i] = s[i]
           /\ Len(s) + 1 \in DOMAIN u /\ u[Len(s) + 1] = m
           /\ \A i \in DOMAIN u : i \in DOMAIN s \/ i = Len(s) + 1
           /\ {u[i] : i \in DOMAIN u} = {s[i] : i \in DOMAIN s} \cup {m}
<1>1. /\ Len(s) \in Nat /\ DOMAIN s = 1 .. Len(s)
      /\ DOMAIN u = 1 .. Len(s) + 1 /\ u[Len(s) + 1] = m
  BY LenProperties DEF Grown
<1>2. \A i \in DOMAIN s : i \in DOMAIN u /\ u[i] = s[i]
  BY <1>1 DEF Grown
<1>3. Len(s) + 1 \in DOMAIN u /\ \A i \in DOMAIN u : i \in DOMAIN s \/ i = Len(s) + 1
  BY <1>1
<1>4. {u[i] : i \in DOMAIN u} = {s[i] : i \in DOMAIN s} \cup {m}
  BY <1>1, <1>2, <1>3
<1> QED BY <1>1, <1>2, <1>3, <1>4

LEMMA CommitTimes ==
    ASSUME IInv, NEW h \in Handlers, Commit(h)
    PROVE  Timed'
<1>1. /\ txn \in [Handlers -> Txn] /\ txn' = [txn EXCEPT ![h] = NoTxn] /\ now' = now
      /\ thread \in [Tickets -> Seq(Message)] /\ Timed
  BY DEF IInv, Types, Commit
<1>2. /\ txn'[h].post = {} /\ \A g \in Handlers \ {h} : txn'[g] = txn[g]
      /\ \A g \in Handlers : txn'[g].post \subseteq txn[g].post
  BY <1>1 DEF NoTxn
<1>3. CASE thread' = thread
  <2>1. \A t \in Tickets : ThreadTimed(t)'
    BY <1>1, <1>3 DEF Timed, ThreadTimed
  <2>2. \A g \in Handlers : PostTimed(g)'
    BY <1>1, <1>2, <1>3 DEF Timed, PostTimed
  <2> QED BY <2>1, <2>2 DEF Timed
<1>4. ASSUME NEW m \in txn[h].post, CommitAdds(h, m)
      PROVE  Timed'
  <2>1. /\ m.at <= now
        /\ \A t \in Tickets : \A i \in DOMAIN thread[t] : thread[t][i].at # m.at
        /\ \A g \in Handlers \ {h} : \A n \in txn[g].post : n.at # m.at
    BY <1>1 DEF Timed, PostTimed
  <2>2. ASSUME NEW t \in Tickets PROVE ThreadTimed(t)'
    <3>1. ThreadTimed(t) /\ thread[t] \in Seq(Message)
      BY <1>1 DEF Timed
    <3>2. CASE thread'[t] = thread[t]
      BY <1>1, <3>1, <3>2 DEF ThreadTimed
    <3>3. CASE Grown(thread[t], thread'[t], m)
      <4>1. \A i \in DOMAIN thread'[t] : thread'[t][i].at <= now'
        BY <1>1, <2>1, <3>1, <3>3, GrownRows DEF ThreadTimed
      <4>2. \A i, j \in DOMAIN thread'[t] : thread'[t][i].at = thread'[t][j].at => i = j
        <5> SUFFICES ASSUME NEW i \in DOMAIN thread'[t], NEW j \in DOMAIN thread'[t],
                            thread'[t][i].at = thread'[t][j].at
                     PROVE  i = j
          OBVIOUS
        <5>1. /\ i \in DOMAIN thread[t] \/ i = Len(thread[t]) + 1
              /\ j \in DOMAIN thread[t] \/ j = Len(thread[t]) + 1
              /\ \A k \in DOMAIN thread[t] : thread'[t][k] = thread[t][k]
              /\ thread'[t][Len(thread[t]) + 1] = m
          BY <3>1, <3>3, GrownRows
        <5>2. CASE i \in DOMAIN thread[t] /\ j \in DOMAIN thread[t]
          BY <3>1, <5>1, <5>2 DEF ThreadTimed
        <5>3. CASE i \notin DOMAIN thread[t] \/ j \notin DOMAIN thread[t]
          BY <2>1, <5>1, <5>3
        <5> QED BY <5>2, <5>3
      <4> QED BY <4>1, <4>2 DEF ThreadTimed
    <3> QED BY <1>4, <3>2, <3>3 DEF CommitAdds
  <2>3. ASSUME NEW g \in Handlers PROVE PostTimed(g)'
    <3>1. CASE g = h
      BY <1>2, <3>1 DEF PostTimed
    <3>2. CASE g # h
      <4>1. PostTimed(g) /\ txn'[g] = txn[g]
        BY <1>1, <1>2, <3>2 DEF Timed
      <4>2. ASSUME NEW n \in txn[g].post, NEW t \in Tickets, NEW i \in DOMAIN thread'[t]
            PROVE  thread'[t][i].at # n.at
        <5>1. thread[t] \in Seq(Message)
          BY <1>1
        <5>2. CASE thread'[t] = thread[t]
          BY <4>1, <4>2, <5>2 DEF PostTimed
        <5>3. CASE Grown(thread[t], thread'[t], m)
          <6>1. thread'[t][i] = m \/ (i \in DOMAIN thread[t] /\ thread'[t][i] = thread[t][i])
            BY <4>2, <5>1, <5>3, GrownRows
          <6> QED BY <2>1, <3>2, <4>1, <4>2, <6>1 DEF PostTimed
        <5> QED BY <1>4, <5>2, <5>3 DEF CommitAdds
      <4> QED BY <1>1, <1>2, <4>1, <4>2 DEF PostTimed
    <3> QED BY <3>1, <3>2
  <2> QED BY <2>2, <2>3 DEF Timed
<1> QED BY <1>3, <1>4, CommitSays

LEMMA CommitDelivers ==
    ASSUME IInv, NEW h \in Handlers, Commit(h)
    PROVE  Delivered'
<1>1. /\ UNCHANGED <<room, held, caughtUp>>
      /\ thread \in [Tickets -> Seq(Message)] /\ inbox \in [Clients -> Seq(Message)]
      /\ NoGap /\ Timed /\ caughtUp \subseteq room /\ room \subseteq Clients
      /\ Watched \in [Clients -> Tickets]
  BY ClientsAssumption DEF IInv, Types, Delivered, Commit
<1>2. CASE thread' = thread /\ inbox' = inbox
  <2>1. \A m, t : Sent(t)' = Sent(t) /\ Late(m, t)' = Late(m, t)
    BY <1>2 DEF Sent, Late
  <2>2. NoGap'
    BY <1>1, <1>2, <2>1 DEF NoGap
  <2> QED BY <1>1, <1>2, <2>2, OrderStays, ClosedStays DEF Delivered
<1>3. ASSUME NEW m \in txn[h].post, CommitAdds(h, m)
      PROVE  Delivered'
  <2>1. /\ m.over = IF h = Loop THEN "socket" ELSE "rest"
        /\ \A t \in Tickets : \A i \in DOMAIN thread[t] : thread[t][i] # m
    BY <1>1 DEF Timed, PostTimed
  <2>2. ASSUME NEW t \in Tickets
        PROVE  /\ \A n : Late(n, t) => Late(n, t)'
               /\ \A n : Spared(n, t) => Spared(n, t)'
               /\ Sent(t) \subseteq Sent(t)'
               /\ thread[t] \in Seq(Message)
    <3>1. thread[t] \in Seq(Message)
      BY <1>1
    <3>2. \A i \in DOMAIN thread[t] : i \in DOMAIN thread'[t] /\ thread'[t][i] = thread[t][i]
      BY <1>3, <3>1, GrownRows DEF CommitAdds
    <3>3. \A n : Late(n, t) => Late(n, t)'
      BY <3>2 DEF Late
    <3>4. Sent(t) \subseteq Sent(t)'
      BY <3>2 DEF Sent
    <3> QED BY <3>1, <3>3, <3>4 DEF Spared
  <2>3. NoGap'
    <3> SUFFICES ASSUME NEW c \in caughtUp, NEW n \in Sent(Watched[c])'
                 PROVE  \/ n \in held[c] \/ \E i \in DOMAIN inbox'[c] : inbox'[c][i] = n
                        \/ n.over = "rest" \/ Late(n, Watched[c])'
      BY <1>1 DEF NoGap
    <3> DEFINE t == Watched[c]
    <3>1. c \in room /\ c \in Clients /\ t \in Tickets /\ inbox[c] \in Seq(Message)
      BY <1>1
    <3>2. CASE n \in Sent(t)
      <4>1. \/ n \in held[c] \/ \E i \in DOMAIN inbox[c] : inbox[c][i] = n
            \/ n.over = "rest" \/ Late(n, t)
        BY <1>1, <3>2 DEF NoGap
      <4>2. \A i \in DOMAIN inbox[c] : i \in DOMAIN inbox'[c] /\ inbox'[c][i] = inbox[c][i]
        BY <1>3, <3>1, GrownRows DEF CommitAdds
      <4> QED BY <2>2, <3>1, <4>1, <4>2
    <3>3. CASE n \notin Sent(t)
      <4>1. t \in txn[h].on /\ n = m
        <5>1. thread'[t] # thread[t]
          BY <3>3 DEF Sent
        <5>2. t \in txn[h].on /\ Grown(thread[t], thread'[t], m)
          BY <1>3, <3>1, <5>1 DEF CommitAdds
        <5> QED BY <2>2, <3>1, <3>3, <5>2, GrownRows DEF Sent
      <4>2. CASE h # Loop
        BY <2>1, <4>1, <4>2
      <4>3. CASE h = Loop
        <5>1. Hears(h, c)
          BY <3>1, <4>1, <4>3 DEF Hears
        <5>2. Grown(inbox[c], inbox'[c], m)
          BY <1>3, <3>1, <5>1 DEF CommitAdds
        <5> QED BY <3>1, <4>1, <5>2, GrownRows
      <4> QED BY <4>2, <4>3
    <3> QED BY <3>2, <3>3
  <2>4. ASSUME NEW c \in Clients PROVE InboxOrdered(c)'
    <3> DEFINE t == Watched[c]
               in == inbox[c]
    <3>1. t \in Tickets /\ in \in Seq(Message) /\ InboxOrdered(c) /\ thread[t] \in Seq(Message)
      BY <1>1 DEF IInv, Delivered
    <3>2. \A a \in DOMAIN in : in[a] \in Sent(t) /\ in[a] # m
      BY <2>1, <3>1 DEF InboxOrdered, Sent
    <3>3. CASE in' = in
      <4>1. \A a \in DOMAIN in : in[a] \in Sent(t)'
        BY <2>2, <3>1, <3>2
      <4>2. ASSUME NEW a \in DOMAIN in, NEW b \in DOMAIN in,
                   NEW i \in DOMAIN thread'[t], NEW j \in DOMAIN thread'[t],
                   a < b, thread'[t][i] = in[a], thread'[t][j] = in[b]
            PROVE  i < j
        <5>1. /\ i \in DOMAIN thread[t] /\ thread[t][i] = in[a]
              /\ j \in DOMAIN thread[t] /\ thread[t][j] = in[b]
          <6>1. CASE thread'[t] = thread[t]
            BY <4>2, <6>1
          <6>2. CASE Grown(thread[t], thread'[t], m)
            BY <3>1, <3>2, <4>2, <6>2, GrownRows
          <6> QED BY <1>3, <3>1, <6>1, <6>2 DEF CommitAdds
        <5> QED BY <3>1, <4>2, <5>1 DEF InboxOrdered
      <4> QED BY <3>3, <4>1, <4>2 DEF InboxOrdered
    <3>4. CASE Hears(h, c) /\ Grown(in, in', m)
      <4>1. t \in txn[h].on /\ Grown(thread[t], thread'[t], m)
        BY <1>3, <3>1, <3>4 DEF Hears, CommitAdds
      <4>2. \A a \in DOMAIN in' : in'[a] \in Sent(t)'
        <5>1. m \in Sent(t)'
          BY <3>1, <4>1, GrownRows DEF Sent
        <5> QED BY <2>2, <3>1, <3>2, <3>4, <5>1, GrownRows
      <4>3. ASSUME NEW a \in DOMAIN in', NEW b \in DOMAIN in',
                   NEW i \in DOMAIN thread'[t], NEW j \in DOMAIN thread'[t],
                   a < b, thread'[t][i] = in'[a], thread'[t][j] = in'[b]
            PROVE  i < j
        <5>1. a \in DOMAIN in /\ in'[a] = in[a]
          <6>1. /\ Len(in) \in Nat /\ DOMAIN in = 1 .. Len(in) /\ DOMAIN in' = 1 .. Len(in) + 1
                /\ \A k \in DOMAIN in : in'[k] = in[k]
            BY <3>1, <3>4, GrownRows
          <6> QED BY <4>3, <6>1
        <5>2. i \in DOMAIN thread[t] /\ thread[t][i] = in[a]
          BY <3>1, <3>2, <4>1, <4>3, <5>1, GrownRows
        <5>3. CASE j = Len(thread[t]) + 1
          <6>1. Len(thread[t]) \in Nat /\ DOMAIN thread[t] = 1 .. Len(thread[t])
            BY <3>1, LenProperties
          <6> QED BY <5>2, <5>3, <6>1
        <5>4. CASE j # Len(thread[t]) + 1
          <6>1. j \in DOMAIN thread[t] /\ thread[t][j] = thread'[t][j]
            BY <3>1, <4>1, <4>3, <5>4, GrownRows
          <6>2. in'[b] # m
            BY <2>1, <3>1, <4>3, <6>1
          <6>3. b \in DOMAIN in /\ in'[b] = in[b]
            BY <3>1, <3>4, <4>3, <6>2, GrownRows
          <6> QED BY <3>1, <4>3, <5>1, <5>2, <6>1, <6>3 DEF InboxOrdered
        <5> QED BY <5>3, <5>4
      <4> QED BY <4>2, <4>3 DEF InboxOrdered
    <3> QED BY <1>3, <3>3, <3>4 DEF CommitAdds
  <2>5. ASSUME NEW c \in Clients PROVE HeldClosed(c)'
    <3> DEFINE t == Watched[c]
    <3>1. t \in Tickets /\ HeldClosed(c) /\ thread[t] \in Seq(Message)
      BY <1>1 DEF IInv, Delivered
    <3>2. held[c] \subseteq Sent(t)' /\ m \notin held[c]
      BY <2>1, <2>2, <3>1 DEF HeldClosed, Sent
    <3>3. ASSUME NEW i \in DOMAIN thread'[t], NEW j \in DOMAIN thread'[t],
                 i < j, thread'[t][j] \in held[c], NEW n, n = thread'[t][i]
          PROVE  n \in held[c] \/ Spared(n, t)'
      <4>1. /\ i \in DOMAIN thread[t] /\ thread'[t][i] = thread[t][i]
            /\ j \in DOMAIN thread[t] /\ thread'[t][j] = thread[t][j]
        <5>1. CASE thread'[t] = thread[t]
          BY <3>3, <5>1
        <5>2. CASE Grown(thread[t], thread'[t], m)
          <6>1. /\ Len(thread[t]) \in Nat /\ DOMAIN thread[t] = 1 .. Len(thread[t])
                /\ DOMAIN thread'[t] = 1 .. Len(thread[t]) + 1
                /\ \A k \in DOMAIN thread[t] : thread'[t][k] = thread[t][k]
                /\ thread'[t][Len(thread[t]) + 1] = m
            BY <3>1, <5>2, GrownRows
          <6>2. j # Len(thread[t]) + 1
            BY <3>2, <3>3, <6>1
          <6> QED BY <3>3, <6>1, <6>2
        <5> QED BY <1>3, <3>1, <5>1, <5>2 DEF CommitAdds
      <4> QED BY <2>2, <3>1, <3>3, <4>1 DEF HeldClosed
    <3>4. \A i, j \in DOMAIN thread'[t] : \A n :
             i < j /\ thread'[t][j] \in held[c] /\ n = thread'[t][i] =>
                 n \in held[c] \/ n.over = "rest" \/ Late(n, t)'
      BY <3>3 DEF Spared
    <3>5. \A i, j \in DOMAIN thread'[t] :
             i < j /\ thread'[t][j] \in held[c] =>
                 \/ thread'[t][i] \in held[c] \/ thread'[t][i].over = "rest"
                 \/ \E k, l \in DOMAIN thread'[t] :
                       /\ k < l /\ thread'[t][l] = thread'[t][i]
                       /\ thread'[t][k].at > thread'[t][i].at
      BY <3>4 DEF Late
    <3> QED BY <1>1, <3>2, <3>5 DEF HeldClosed, Spared, Late
  <2> QED BY <2>3, <2>4, <2>5 DEF Delivered
<1> QED BY <1>2, <1>3, CommitSays

LEMMA CommitKeeps ==
    ASSUME IInv, NEW h \in Handlers, Commit(h)
    PROVE  IInv'
<1> DEFINE x == txn[h]
<1>1. /\ x \in Txn /\ txn \in [Handlers -> Txn] /\ txn' = [txn EXCEPT ![h] = NoTxn]
      /\ UNCHANGED <<read, now, room, held, caughtUp>>
      /\ status' = [t \in Tickets |-> IF t \in x.on /\ x.to # "same" THEN x.to ELSE status[t]]
      /\ dated' = IF x.date THEN dated \cup x.on ELSE dated
  BY DEF IInv, Types, Commit
<1>2. /\ txn'[h] = NoTxn /\ \A g \in Handlers \ {h} : txn'[g] = txn[g]
      /\ txn' \in [Handlers -> Txn]
  BY <1>1, NoTxnTyped
<1>3. Opened' = Opened \cup x.on /\ x.on \subseteq Tickets
  BY <1>1, CommitNumbers DEF Txn
<1>4. Types'
  <2>1. status' \in [Tickets -> TicketStatus]
    BY <1>1 DEF IInv, Types, Txn
  <2>2. dated' \subseteq Opened'
    BY <1>1, <1>3 DEF IInv, Types
  <2>3. \A t \in Tickets \ Opened' : thread'[t] = <<>>
    <3>1. \A t \in Tickets \ x.on : thread'[t] = thread[t]
      BY CommitSays DEF CommitAdds
    <3> QED BY <1>3, <3>1 DEF IInv, Types
  <2> QED BY <1>1, <1>2, <2>1, <2>2, <2>3, CommitNumbers, CommitSays DEF IInv, Types
<1>5. JoinedIsOpen'
  BY <1>1, <1>3 DEF IInv, JoinedIsOpen
<1>6. ASSUME NEW g \in Handlers PROVE Loaded(g)' /\ Quiet(g)'
  <2>1. CASE g = h
    BY <1>2, <2>1 DEF NoTxn, Loaded, Quiet
  <2>2. CASE g # h
    <3>1. txn'[g] = txn[g] /\ Loaded(g) /\ Quiet(g)
      BY <1>2, <2>2 DEF IInv
    <3>2. Quiet(g)'
      BY <3>1 DEF Quiet
    <3>3. CASE txn[g].op # "open"
      BY <1>3, <3>1, <3>2, <3>3 DEF Loaded
    <3>4. CASE txn[g].op = "open"
      <4>1. PICK t \in Tickets \ Opened :
                txn[g].on = {t} /\ \A k \in Handlers \ {g} : t \notin txn[k].on
        BY <3>1, <3>4 DEF Loaded, OpensAlone
      <4>2. t \in Tickets \ Opened'
        BY <1>3, <2>2, <4>1
      <4>3. \A k \in Handlers \ {g} : t \notin txn'[k].on
        BY <1>2, <4>1 DEF NoTxn
      <4>4. txn[g].num \in 1 .. Cardinality(Opened') + 1
        <5>1. txn[g].num \in 1 .. Cardinality(Opened) + 1
          BY <3>1, <3>4 DEF Loaded, OpensAlone
        <5> QED BY <5>1, CommitNumbers
      <4> QED BY <3>1, <3>2, <3>4, <4>1, <4>2, <4>3, <4>4 DEF Loaded, OpensAlone
    <3> QED BY <3>3, <3>4
  <2> QED BY <2>1, <2>2
<1> QED BY <1>4, <1>5, <1>6, CommitNumbers, CommitTimes, CommitDelivers DEF IInv

--------------------------------------------------------------------------------

LEMMA InitHolds ==
    ASSUME Init
    PROVE  IInv
<1>1. Opened = {} /\ \A t \in Tickets : Sent(t) = {} /\ DOMAIN thread[t] = {}
  BY DEF Init, Opened, Sent
<1>2. IsFiniteSet({}) /\ Cardinality({}) = 0
  BY FS_EmptySet
<1>3. Types
  <2>1. <<>> \in Seq(Message)
    BY EmptySeq
  <2>2. now \in 0 .. Horizon
    BY HorizonAssumption DEF Init
  <2> QED BY <1>1, <2>1, <2>2, NoTxnTyped DEF Init, Types, TicketStatus
<1>4. Numbered
  BY <1>1, <1>2 DEF Numbered, NumbersConsecutive
<1>5. \A h \in Handlers : Loaded(h) /\ Quiet(h) /\ PostTimed(h)
  BY DEF Init, NoTxn, Loaded, Quiet, PostTimed
<1>6. Timed
  BY <1>1, <1>5 DEF Timed, ThreadTimed
<1>7. \A c \in Clients : Watched[c] \in Tickets /\ DOMAIN inbox[c] = {} /\ held[c] = {}
  BY ClientsAssumption DEF Init
<1>8. Delivered
  BY <1>1, <1>7 DEF Init, Delivered, NoGap, InboxOrdered, HeldClosed
<1> QED BY <1>3, <1>4, <1>5, <1>6, <1>8 DEF IInv, JoinedIsOpen, Init

LEMMA StepHolds ==
    ASSUME IInv, [Next]_vars
    PROVE  IInv'
<1>1. ASSUME NEW w \in Workers, Customer(w) \/ Staff(w) PROVE IInv'
  <2>1. w \in Handlers
    BY DEF Handlers
  <2>2. \E x : Begins(w, x)
    BY <1>1, AuthenticateBegins, OpenBegins, UpdateBegins, ReplyBegins DEF Customer, Staff
  <2> QED BY <2>1, <2>2, BeginKeeps
<1>2. ASSUME NEW c \in Clients, Socket(c) PROVE IInv'
  <2>1. CASE FrameLoad(c)
    BY <2>1, FrameBegins, BeginKeeps DEF Handlers
  <2>2. CASE MarkRead(c) \/ Join(c) \/ Drop(c)
    BY <2>2, MarkReadKeeps, JoinKeeps, DropKeeps
  <2>3. CASE CatchUp(c) \/ Receive(c)
    BY <2>3, CatchUpKeeps, ReceiveKeeps
  <2> QED BY <1>2, <2>1, <2>2, <2>3 DEF Socket
<1>3. ASSUME NEW h \in Handlers, Commit(h) \/ Abort(h) PROVE IInv'
  BY <1>3, CommitKeeps, AbortKeeps
<1>4. CASE UNCHANGED vars
  <2>1. UNCHANGED <<number, status, dated, thread, now, txn, read, room, inbox, held, caughtUp>>
    BY <1>4 DEF vars
  <2>2. Types' /\ JoinedIsOpen'
    BY <2>1, RowsStay DEF IInv, Types, JoinedIsOpen
  <2>3. NoGap'
    BY <2>1, RowsStay DEF IInv, Delivered, NoGap
  <2>4. Delivered'
    BY <2>1, <2>3, OrderStays, ClosedStays DEF Delivered
  <2> QED BY <2>1, <2>2, <2>4, RowsStay DEF IInv
<1> QED BY <1>1, <1>2, <1>3, <1>4 DEF Next

THEOREM TicketsInductive == Spec => []IInv
<1>1. Init => IInv
  BY InitHolds
<1>2. IInv /\ [Next]_vars => IInv'
  BY StepHolds
<1> QED BY <1>1, <1>2, PTL DEF Spec

(* Rows and sessions keep their types. *)
THEOREM TicketsTypeCorrect == ASSUME IsFiniteSet(Tickets) PROVE Spec => []TypeOK
<1>1. ASSUME IInv PROVE TypeOK
  <2>1. number \in [Tickets -> 0 .. Cardinality(Tickets)]
    <3>1. Opened \subseteq Tickets /\ IsFiniteSet(Opened)
      BY <1>1 DEF Opened, IInv, Numbered
    <3>2. Cardinality(Opened) \in Nat /\ Cardinality(Tickets) \in Nat
      BY <3>1, FS_CardinalityType
    <3>3. Cardinality(Opened) <= Cardinality(Tickets)
      BY <3>1, FS_Subset
    <3>4. \A t \in Opened : number[t] \in 1 .. Cardinality(Opened)
      BY <1>1 DEF IInv, Numbered, NumbersConsecutive
    <3>5. \A t \in Tickets : number[t] \in 0 .. Cardinality(Tickets)
      <4>1. \A t \in Tickets \ Opened : number[t] = 0
        BY DEF Opened
      <4> QED BY <3>2, <3>3, <3>4, <4>1
    <3> QED BY <1>1, <3>5 DEF IInv, Types
  <2>2. \A t \in Tickets : Sent(t) \subseteq Message
    BY <1>1, RowsTyped DEF IInv, Types, Sent
  <2>3. \A c \in Clients : \A i \in DOMAIN inbox[c] : inbox[c][i] \in Message
    BY <1>1, RowsTyped DEF IInv, Types
  <2> QED BY <1>1, <2>1, <2>2, <2>3 DEF IInv, Types, TypeOK
<1> QED BY <1>1, TicketsInductive, PTL

(* _next_ticket_number: tickets are numbered without gaps or repetitions.  *)
THEOREM TicketsNumberedInOrder == Spec => []NumbersConsecutive
<1>1. IInv => NumbersConsecutive
  BY DEF IInv, Numbered
<1> QED BY <1>1, TicketsInductive, PTL

(* The gateway and the catch-up endpoint leave no gap between them: what   *)
(* is sent over a socket reaches whoever has caught up, in order or not.   *)
THEOREM CaughtUpMissNothing == Spec => []NoGap
<1>1. IInv => NoGap
  BY DEF IInv, Delivered
<1> QED BY <1>1, TicketsInductive, PTL

(* add_customer_message and _handle_message: nothing a customer says       *)
(* moves a conversation that was done when it was loaded.                  *)
THEOREM DoneStaysQuiet == Spec => DoneIsQuiet
<1> DEFINE Step ==
        \A t \in Opened : \A h \in Handlers :
            /\ Commit(h) /\ txn[h].on = {t} /\ txn[h].op \in {"reply", "frame"}
            /\ status[t] \in Done
            => \/ txn[h].seen \notin Done
               \/ status'[t] = status[t] /\ \A m \in txn[h].post : m.by = "staff"
<1>1. IInv /\ [Next]_vars => [Step]_vars
  <2> SUFFICES ASSUME IInv, NEW t \in Opened, NEW h \in Handlers,
                      Commit(h), txn[h].on = {t}, txn[h].op \in {"reply", "frame"},
                      txn[h].seen \in Done
               PROVE  status'[t] = status[t] /\ \A m \in txn[h].post : m.by = "staff"
    OBVIOUS
  <2>1. txn[h].to = "same" /\ \A m \in txn[h].post : m.by = "staff"
    BY DEF IInv, Quiet
  <2>2. t \in Tickets
    BY DEF Opened
  <2> QED BY <2>1, <2>2 DEF Commit
<1> QED BY <1>1, TicketsInductive, PTL DEF Spec, DoneIsQuiet

=============================================================================

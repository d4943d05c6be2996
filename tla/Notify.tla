-------------------------------- MODULE Notify --------------------------------
(***************************************************************************)
(* Notices about what happened to a customer's bookings, claims and        *)
(* tickets: on which channels each goes out, as the customer prefers, and  *)
(* what the log of deliveries says of it.                                  *)
(*                                                                         *)
(* A preference is a switch for a channel, all switches in one column that *)
(* is rewritten whole, or a row for a category and a channel, which comes  *)
(* before the switch.  notify() runs after the commit of what it tells,    *)
(* asks for the rows channel by channel, and commits its log at the end,   *)
(* or when a push meets a dead token.                                      *)
(***************************************************************************)

CONSTANTS
    Workers,       \* request threads at work at once
    Categories,
    Controllable,  \* channels a customer controls; in-app is not one of them
    Events,        \* the catalogue
    Payloads,      \* what settings screens send: "on" or "off" for some cells
    Notices        \* notices ever sent (a bound)

VARIABLES
    switchedOff,  \* users.preferences: the channels it turns off
    matrix,       \* notification_preferences
    event,        \* what each notice is about
    log,          \* notification_deliveries, with the in-app row
    txn,          \* the session of each worker
    left,         \* what left the house (ghost)
    silent,       \* channels muted ever since each notice began (ghost)
    cut           \* notices whose request did not end (ghost)

preferences == <<switchedOff, matrix>>
vars == <<preferences, event, log, txn, left, silent, cut>>

Event == [category : Categories, channels : SUBSET Controllable, force : BOOLEAN]
Status == {"sent", "failed", "suppressed"}
Delivery == [of : Notices, on : Controllable \cup {"in_app"}, status : Status]
Cells == Categories \X Controllable
Stored == {"default", "on", "off"}

(* off: the switches as the session has loaded them, or is to write them;  *)
(* was: as a request to change them found them; draft: the rows it adds.   *)
NoTxn == [op |-> "idle", of |-> {}, todo |-> {}, off |-> {}, draft |-> {},
          items |-> <<>>, seen |-> <<>>, was |-> {}]

TypeOK ==
    /\ switchedOff \subseteq Controllable
    /\ matrix \in [Cells -> Stored]
    /\ \A n \in Notices : event[n] \in {{}} \cup {{e} : e \in Events}
    /\ log \subseteq Delivery
    /\ \A w \in Workers : DOMAIN txn[w] = DOMAIN NoTxn
    /\ left \subseteq Notices \X Controllable
    /\ silent \in [Notices -> SUBSET Controllable]
    /\ cut \subseteq Notices

Init ==
    /\ switchedOff = {}
    /\ matrix = [c \in Cells |-> "default"]
    /\ event = [n \in Notices |-> {}]
    /\ log = {}
    /\ txn = [w \in Workers |-> NoTxn]
    /\ left = {} /\ cut = {}
    /\ silent = [n \in Notices |-> {}]

Idle(w) == txn[w].op = "idle"
Begin(w, x) == Idle(w) /\ txn' = [txn EXCEPT ![w] = x]
End(w) == txn' = [txn EXCEPT ![w] = NoTxn]

--------------------------------------------------------------------------------
(* _channel_allowed *)

(* Mutant: the switches alone decide, as they do for rules and campaigns.  *)
WantsSwitchOnly(category, c, rows, off) == c \notin off

Wants(category, c, rows, off) ==
    \/ rows[<<category, c>>] = "on"
    \/ rows[<<category, c>>] = "default" /\ c \notin off

(* The switches in force for a session: as they were when it loaded them;  *)
(* a commit in between makes it load them again.                           *)
SwitchesOf(x) == IF x.off = {} THEN switchedOff ELSE CHOOSE off \in x.off : TRUE

Allowed(x, e, c) == e.force \/ Wants(e.category, c, matrix, SwitchesOf(x))

(* What a customer has muted, by a row or, without one, by the switch. *)
Silenced(category, rows, off) ==
    {c \in Controllable : \/ rows[<<category, c>>] = "off"
                          \/ rows[<<category, c>>] = "default" /\ c \in off}

--------------------------------------------------------------------------------
(* notify *)

Row(n, c, status) == [of |-> n, on |-> c, status |-> status]

(* The in-app row comes first, with the switches of the user's row.        *)
Notify(w, n, e) ==
    /\ event[n] = {}
    /\ Begin(w, [NoTxn EXCEPT !.op = "notify", !.of = {n}, !.todo = e.channels,
                              !.off = {switchedOff}, !.draft = {Row(n, "in_app", "sent")}])
    /\ event' = [event EXCEPT ![n] = {e}]
    /\ silent' = [silent EXCEPT ![n] = Silenced(e.category, matrix, switchedOff)]
    /\ UNCHANGED <<preferences, log, left, cut>>

(* The next channel of the event; a push comes before the others.          *)
Turn(w, n, e, c) ==
    /\ txn[w].op = "notify" /\ n \in txn[w].of /\ e \in event[n]
    /\ c \in txn[w].todo /\ ("push" \in txn[w].todo => c = "push")

Done(w, n, c, status) ==
    txn' = [txn EXCEPT ![w].todo = @ \ {c}, ![w].draft = @ \cup {Row(n, c, status)}]

Suppress(w, n, e, c) ==
    /\ Turn(w, n, e, c) /\ ~Allowed(txn[w], e, c)
    /\ Done(w, n, c, "suppressed")
    /\ UNCHANGED <<preferences, event, log, left, silent, cut>>

(* The transport: it delivers, has nobody to deliver to (a customer with   *)
(* no device), fails, or fails to say that it delivered.                   *)
Send(w, n, e, c) ==
    /\ Turn(w, n, e, c) /\ Allowed(txn[w], e, c)
    /\ \E gone \in SUBSET {<<n, c>>} :
          /\ left' = left \cup gone
          /\ \/ Done(w, n, c, "failed")
             \/ (c = "push" \/ gone # {}) /\ Done(w, n, c, "sent")
    /\ UNCHANGED <<preferences, event, log, silent, cut>>

(* A push that meets a dead token: drop_tokens commits what the session    *)
(* has added, and the user's row is loaded again when it is next read.     *)
SendPruning(w, n, e) ==
    /\ Turn(w, n, e, "push") /\ Allowed(txn[w], e, "push")
    /\ \E gone \in SUBSET {<<n, "push">>} : left' = left \cup gone
    /\ log' = log \cup txn[w].draft
    /\ txn' = [txn EXCEPT ![w].todo = @ \ {"push"}, ![w].off = {},
                          ![w].draft = {Row(n, "push", "sent")}]
    /\ UNCHANGED <<preferences, event, silent, cut>>

NotifyCommit(w) ==
    /\ txn[w].op = "notify" /\ txn[w].todo = {}
    /\ log' = log \cup txn[w].draft
    /\ silent' = [n \in Notices |-> IF n \in txn[w].of THEN {} ELSE silent[n]]
    /\ End(w)
    /\ UNCHANGED <<preferences, event, left, cut>>

(* safe_notify rolls back what it catches; so does a process that stops.   *)
Abort(w) ==
    /\ ~Idle(w)
    /\ cut' = cut \cup txn[w].of
    /\ silent' = [n \in Notices |-> IF n \in txn[w].of THEN {} ELSE silent[n]]
    /\ End(w)
    /\ UNCHANGED <<preferences, event, log, left>>

--------------------------------------------------------------------------------
(* set_matrix and update_preferences *)

SetMatrix(w, items) ==
    /\ Begin(w, [NoTxn EXCEPT !.op = "matrix", !.items = items,
                              !.seen = [c \in DOMAIN items |-> matrix[c]]])
    /\ UNCHANGED <<preferences, event, log, left, silent, cut>>

(* What is muted still, when preferences change. *)
StillSilent(rows, off) ==
    [n \in Notices |-> {c \in silent[n] : \A e \in event[n] : c \in Silenced(e.category, rows, off)}]

(* A row that another request inserted meanwhile makes this one fail; what *)
(* a request found as it wants it, it does not write.                      *)
MatrixCommit(w) ==
    LET x == txn[w]
        New == [c \in Cells |-> IF c \in DOMAIN x.items /\ x.items[c] # x.seen[c]
                                THEN x.items[c] ELSE matrix[c]]
    IN /\ x.op = "matrix"
       /\ \A c \in DOMAIN x.items : x.seen[c] = "default" => matrix[c] = "default"
       /\ matrix' = New
       /\ silent' = StillSilent(New, switchedOff)
       /\ End(w)
       /\ UNCHANGED <<switchedOff, event, log, left, cut>>

Switch(w, off) ==
    /\ Begin(w, [NoTxn EXCEPT !.op = "switch", !.off = {off}, !.was = {switchedOff}])
    /\ UNCHANGED <<preferences, event, log, left, silent, cut>>

SwitchCommit(w) ==
    LET x == txn[w]
        New == IF x.off = x.was THEN switchedOff ELSE CHOOSE off \in x.off : TRUE
    IN /\ x.op = "switch"
       /\ switchedOff' = New
       /\ silent' = StillSilent(matrix, New)
       /\ End(w)
       /\ UNCHANGED <<matrix, event, log, left, cut>>

--------------------------------------------------------------------------------

Channels(w) ==
    \E n \in Notices : \E e \in event[n] :
        \/ \E c \in Controllable : Suppress(w, n, e, c) \/ Send(w, n, e, c)
        \/ SendPruning(w, n, e)

Customer(w) ==
    \/ \E items \in Payloads : SetMatrix(w, items)
    \/ \E off \in SUBSET Controllable : Switch(w, off)
    \/ MatrixCommit(w) \/ SwitchCommit(w)

Next ==
    \E w \in Workers :
        \/ \E n \in Notices, e \in Events : Notify(w, n, e)
        \/ Channels(w) \/ NotifyCommit(w) \/ Abort(w)
        \/ Customer(w)

Spec == Init /\ [][Next]_vars

--------------------------------------------------------------------------------
(* Properties *)

InFlight(n) == {w \in Workers : n \in txn[w].of}
Drafted(n) == UNION {txn[w].draft : w \in InFlight(n)}

(* NotificationDelivery: the log "answers 'why didn't they get it?' - a    *)
(* suppressed channel writes a row saying so rather than silently          *)
(* vanishing".  Of every notice whose request ended there is one row for   *)
(* each channel; what left is never called suppressed; and nothing but a   *)
(* forced event leaves on a channel that was muted all the while.          *)
EveryChannelAccounted ==
    \A n \in Notices : \A e \in event[n] :
        LET rows == {r \in log : r.of = n} \cup Drafted(n)
        IN /\ \A r, q \in rows : r.on = q.on => r = q
           /\ InFlight(n) = {} /\ n \notin cut =>
                 {r.on : r \in rows} = e.channels \cup {"in_app"}
           /\ \A r \in rows : r.status = "suppressed" => ~e.force /\ <<n, r.on>> \notin left
           /\ \A c \in Controllable : <<n, c>> \in left =>
                 /\ e.force \/ c \notin silent[n]
                 /\ n \in cut \/ \E r \in rows : r.on = c

=============================================================================

------------------------------- MODULE Outreach -------------------------------
(***************************************************************************)
(* Telling many customers one thing: a broadcast campaign to a segment,    *)
(* and a safety recall to the owners of the vehicles it affects.           *)
(*                                                                         *)
(* A campaign is one transaction that may be cut in two: pruning a dead    *)
(* push token commits the caller's session.  A recall commits with every   *)
(* owner it tells and stamps the row of that owner afterwards, so a stamp  *)
(* is saved by the next commit.                                            *)
(***************************************************************************)
EXTENDS Naturals, FiniteSets

CONSTANTS
    Workers,   \* request threads at work at once
    Customers,
    Rings      \* times a customer is told one thing (a bound)

VARIABLES
    campaign,   \* broadcast_campaigns.status; nothing sets it to cancelled
    wants,      \* preferences.marketing_opt_in: the segment of the campaign
    dead,       \* customers with a push token the provider has dropped
    owners,     \* customers with a vehicle the recall affects
    recall,     \* recall_vehicles: absent, pending or notified
    told,       \* messages that left the house, by subject and customer
    txn,        \* the session of each worker
    excused     \* told by two sends at once, or by one that failed (ghost)

vars == <<campaign, wants, dead, owners, recall, told, txn, excused>>

Subjects == {"campaign", "recall"}
NoTxn == [op |-> "idle", flushed |-> FALSE, locked |-> FALSE, todo |-> {}, done |-> {},
          stamp |-> {}]
Txn == [op : {"idle"} \cup Subjects, flushed : BOOLEAN, locked : BOOLEAN, todo : SUBSET Customers,
        done : SUBSET Customers, stamp : SUBSET Customers]

TypeOK ==
    /\ campaign \in {"draft", "sending", "sent"}
    /\ wants \subseteq Customers /\ dead \subseteq Customers /\ owners \subseteq Customers
    /\ recall \in [Customers -> {"absent", "pending", "notified"}]
    /\ told \in [Subjects -> [Customers -> 0 .. Rings]]
    /\ txn \in [Workers -> Txn]
    /\ excused \subseteq Subjects \X Customers

Init ==
    /\ campaign = "draft"
    /\ wants \in SUBSET Customers
    /\ dead \in SUBSET Customers
    /\ owners \in SUBSET Customers
    /\ recall = [c \in Customers |-> "absent"]
    /\ told = [m \in Subjects |-> [c \in Customers |-> 0]]
    /\ txn = [w \in Workers |-> NoTxn]
    /\ excused = {}

Idle(w) == txn[w].op = "idle"

(* Sessions of one subject that are open beside this one.                  *)
Beside(w, m) == {u \in Workers \ {w} : txn[u].op = m}

(* A session that begins: the customers it is to tell are read once.  All  *)
(* that sessions open at once tell are told by sends that raced.           *)
Start(w, m, all) ==
    /\ Idle(w)
    /\ txn' = [txn EXCEPT ![w] = [NoTxn EXCEPT !.op = m, !.todo = all]]
    /\ LET race == all \cup UNION {txn[u].todo \cup txn[u].done : u \in Beside(w, m)}
       IN excused' = IF Beside(w, m) = {} THEN excused ELSE excused \cup ({m} \X race)
    /\ UNCHANGED <<campaign, wants, dead, owners, recall, told>>

Tell(m, c) ==
    /\ told[m][c] < Rings
    /\ told' = [told EXCEPT ![m][c] = @ + 1]

--------------------------------------------------------------------------------
(* send_campaign *)

(* Mutant: a campaign that was sent may be sent again. *)
SendAnyRead(w) == Start(w, "campaign", wants)

SendRead(w) == campaign # "sent" /\ Start(w, "campaign", wants)

Free(w) == \A u \in Workers \ {w} : ~txn[u].locked

(* The flush of "sending" takes the row, and waits for whoever has it.     *)
SendFlush(w) ==
    /\ txn[w].op = "campaign" /\ ~txn[w].flushed /\ Free(w)
    /\ txn' = [txn EXCEPT ![w].flushed = TRUE, ![w].locked = TRUE]
    /\ UNCHANGED <<campaign, wants, dead, owners, recall, told, excused>>

(* dispatch_to_user.  Preferences are those read with the audience until a *)
(* commit on the way expires them; drop_tokens is such a commit, and it    *)
(* gives the row up.                                                       *)
SendOne(w, c) ==
    LET x == txn[w]
        Wants == x.locked \/ c \in wants
    IN /\ x.op = "campaign" /\ x.flushed /\ c \in x.todo
       /\ IF Wants THEN Tell("campaign", c) ELSE UNCHANGED told
       /\ LET prunes == Wants /\ c \in dead
          IN /\ dead' = IF prunes THEN dead \ {c} ELSE dead
             /\ campaign' = IF prunes /\ x.locked THEN "sending" ELSE campaign
             /\ txn' = [txn EXCEPT ![w].todo = @ \ {c},
                                   ![w].done = IF Wants THEN @ \cup {c} ELSE @,
                                   ![w].locked = @ /\ ~prunes]
       /\ UNCHANGED <<wants, owners, recall, excused>>

SendCommit(w) ==
    /\ txn[w].op = "campaign" /\ txn[w].flushed /\ txn[w].todo = {} /\ Free(w)
    /\ campaign' = "sent"
    /\ txn' = [txn EXCEPT ![w] = NoTxn]
    /\ UNCHANGED <<wants, dead, owners, recall, told, excused>>

--------------------------------------------------------------------------------
(* create_recall, notify_recall *)

(* A row for each vehicle there is now; its owner is told only on request. *)
CreateRecall(w) ==
    /\ Idle(w) /\ \A c \in Customers : recall[c] = "absent"
    /\ owners # {}
    /\ recall' = [c \in Customers |-> IF c \in owners THEN "pending" ELSE "absent"]
    /\ UNCHANGED <<campaign, wants, dead, owners, told, txn, excused>>

NotifyRead(w) ==
    /\ {c \in Customers : recall[c] = "pending"} # {}
    /\ Start(w, "recall", {c \in Customers : recall[c] = "pending"})

Stamped(x) == [c \in Customers |-> IF c \in x.stamp THEN "notified" ELSE recall[c]]

(* notify: the message, the record of it, and a commit of the session.     *)
NotifyOne(w, c) ==
    /\ txn[w].op = "recall" /\ c \in txn[w].todo
    /\ Tell("recall", c)
    /\ recall' = Stamped(txn[w])
    /\ txn' = [txn EXCEPT ![w].todo = @ \ {c}, ![w].done = @ \cup {c}, ![w].stamp = {c}]
    /\ dead' = dead \ {c}
    /\ UNCHANGED <<campaign, wants, owners, excused>>

(* An owner whose message could not be recorded is left for another time.  *)
NotifySkip(w, c) ==
    /\ txn[w].op = "recall" /\ c \in txn[w].todo
    /\ txn' = [txn EXCEPT ![w].todo = @ \ {c}]
    /\ UNCHANGED <<campaign, wants, dead, owners, recall, told, excused>>

NotifyCommit(w) ==
    /\ txn[w].op = "recall" /\ txn[w].todo = {}
    /\ recall' = Stamped(txn[w])
    /\ txn' = [txn EXCEPT ![w] = NoTxn]
    /\ UNCHANGED <<campaign, wants, dead, owners, told, excused>>

--------------------------------------------------------------------------------
(* A message the transport refuses ends a campaign with nothing recorded;  *)
(* a process that stops ends either.                                       *)
Fail(w) ==
    LET x == txn[w]
    IN /\ ~Idle(w)
       /\ excused' = excused \cup ({x.op} \X (IF x.op = "recall" THEN x.stamp ELSE x.done))
       /\ txn' = [txn EXCEPT ![w] = NoTxn]
       /\ UNCHANGED <<campaign, wants, dead, owners, recall, told>>

(* update_preferences, _create_owned_vehicle *)
Choose(c) ==
    /\ wants' = IF c \in wants THEN wants \ {c} ELSE wants \cup {c}
    /\ UNCHANGED <<campaign, dead, owners, recall, told, txn, excused>>

Buy(c) ==
    /\ owners' = owners \cup {c}
    /\ UNCHANGED <<campaign, wants, dead, recall, told, txn, excused>>

Next ==
    \/ \E c \in Customers : Choose(c) \/ Buy(c)
    \/ \E w \in Workers :
          \/ SendRead(w) \/ SendFlush(w) \/ SendCommit(w)
          \/ CreateRecall(w) \/ NotifyRead(w) \/ NotifyCommit(w) \/ Fail(w)
          \/ \E c \in Customers : SendOne(w, c) \/ NotifyOne(w, c) \/ NotifySkip(w, c)

Spec == Init /\ [][Next]_vars

--------------------------------------------------------------------------------
(* Properties *)

(* A customer is told of a campaign once, and an owner of a recall once    *)
(* however often "notify owners" is pressed ("the button can be pressed    *)
(* again to catch the rest"), unless two sends ran at once or one failed   *)
(* after telling them.                                                     *)
ToldOnceUnlessRacedOrFailed ==
    \A m \in Subjects, c \in Customers : told[m][c] > 1 => <<m, c>> \in excused

=============================================================================

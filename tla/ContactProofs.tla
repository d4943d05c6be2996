----------------------------- MODULE ContactProofs -----------------------------
(***************************************************************************)
(* Proofs about Contact: what its parts promise holds of the whole, for    *)
(* any sets of customers, requests, phones, addresses and notices.         *)
(***************************************************************************)
EXTENDS Contact, TicketsProofs

(* Each step of the whole is a step of one part. *)
LEMMA OnePartMoves ==
    ASSUME [ContactNext]_contactVars
    PROVE  /\ [Next]_vars
           /\ [Send!Next]_send /\ [Push!Next]_push /\ [Who!Next]_accounts /\ [Notice!Next]_notice
  BY DEF ContactNext, contactVars, send, push, accounts, notice

--------------------------------------------------------------------------------
(* Campaigns and recalls.  While a session that told a customer is open,   *)
(* it knows; when it has ended, the campaign or the owner's row does: as   *)
(* long as no other session was open beside it, and none failed.           *)

On(w, m) == sendTxn[w].op = m
Reach(w) == sendTxn[w].todo \cup sendTxn[w].done

(* Two sends open at once: all that either tells or told are excused. *)
RacersExcused ==
    \A m \in Send!Subjects, u, w \in Workers :
        u # w /\ On(u, m) /\ On(w, m) => \A c \in Reach(u) : <<m, c>> \in excused

(* Whom a session has told it does not tell again. *)
ToldLeaveTodo == \A w \in Workers : sendTxn[w].todo \cap sendTxn[w].done = {}

(* A recall is told to owners who have a row in it. *)
RowsExist ==
    \A w \in Workers : On(w, "recall") =>
        \A c \in sendTxn[w].todo \cup sendTxn[w].stamp : recall[c] # "absent"

Told(m, c) == told[m][c] > 0 /\ <<m, c>> \notin excused

CampaignKnown(c) ==
    \/ campaign = "sent" /\ \A w \in Workers : ~On(w, "campaign")
    \/ \E w \in Workers : On(w, "campaign") /\ c \in sendTxn[w].done
CampaignOnce ==
    \A c \in Customers : Told("campaign", c) => told["campaign"][c] = 1 /\ CampaignKnown(c)

RecallKnown(c) ==
    /\ recall[c] = "notified" \/ \E w \in Workers : On(w, "recall") /\ c \in sendTxn[w].stamp
    /\ \A w \in Workers : On(w, "recall") => c \notin sendTxn[w].todo
RecallOnce ==
    \A c \in Customers : Told("recall", c) => told["recall"][c] = 1 /\ RecallKnown(c)

SendInv == Send!TypeOK /\ RacersExcused /\ ToldLeaveTodo /\ RowsExist /\ CampaignOnce /\ RecallOnce

(* What every session is, spelled out. *)
LEMMA SendSession ==
    ASSUME Send!TypeOK, NEW w \in Workers
    PROVE  /\ sendTxn[w].op \in {"idle", "campaign", "recall"}
           /\ sendTxn[w].todo \subseteq Customers /\ sendTxn[w].done \subseteq Customers
           /\ sendTxn[w].stamp \subseteq Customers
  BY DEF Send!TypeOK, Send!Txn, Send!Subjects

LEMMA SendInitially == Send!Init => SendInv
<1> SUFFICES ASSUME Send!Init PROVE SendInv
  OBVIOUS
<1>1. \A w \in Workers : sendTxn[w] = Send!NoTxn
  BY DEF Send!Init
<1>2. Send!TypeOK
  BY RingsAssumption DEF Send!Init, Send!TypeOK, Send!Txn, Send!NoTxn, Send!Subjects
<1> QED BY <1>1, <1>2 DEF Send!Init, SendInv, RacersExcused, ToldLeaveTodo, RowsExist, CampaignOnce,
           RecallOnce, Told, On, Reach, Send!NoTxn, Send!Subjects

(* A session that begins alone finds no other; one that does not excuses   *)
(* everyone the two can reach.                                             *)
LEMMA StartKeeps ==
    ASSUME SendInv, NEW w \in Workers, NEW m \in Send!Subjects, NEW all \in SUBSET Customers,
           Send!Start(w, m, all),
           m = "campaign" => campaign # "sent",
           m = "recall" => \A c \in all : recall[c] = "pending"
    PROVE  SendInv'
<1> DEFINE x == [Send!NoTxn EXCEPT !.op = m, !.todo = all]
           others == Send!Beside(w, m)
           race == all \cup UNION {sendTxn[u].todo \cup sendTxn[u].done : u \in others}
<1>1. /\ sendTxn[w].op = "idle" /\ sendTxn' = [sendTxn EXCEPT ![w] = x]
      /\ excused' = IF others = {} THEN excused ELSE excused \cup ({m} \X race)
      /\ UNCHANGED <<campaign, wants, dead, owners, recall, told>>
  BY DEF Send!Start, Send!Idle
<1>2. x \in Send!Txn /\ x.op = m /\ x.todo = all /\ x.done = {} /\ x.stamp = {}
  BY DEF Send!Txn, Send!NoTxn
<1>3. sendTxn'[w] = x /\ \A u \in Workers \ {w} : sendTxn'[u] = sendTxn[u]
  BY <1>1 DEF SendInv, Send!TypeOK
<1>4. race \subseteq Customers
  BY SendSession DEF SendInv, Send!Beside
<1>5. Send!TypeOK'
  BY <1>1, <1>2, <1>4 DEF SendInv, Send!TypeOK
<1>6. /\ \A n, c : <<n, c>> \in excused => <<n, c>> \in excused'
      /\ others # {} => \A c \in race : <<m, c>> \in excused'
  BY <1>1
<1>7. others = {u \in Workers : u # w /\ On(u, m)}
  BY DEF Send!Beside, On
<1>8. ~On(w, m)
  BY <1>1 DEF On, Send!Subjects
<1>9. RacersExcused'
  <2> SUFFICES ASSUME NEW n \in Send!Subjects, NEW u \in Workers, NEW v \in Workers, u # v,
                      On(u, n)', On(v, n)', NEW c \in Reach(u)'
               PROVE  <<n, c>> \in excused'
    BY DEF RacersExcused
  <2>1. CASE u # w /\ v # w
    BY <1>3, <1>6, <2>1 DEF SendInv, RacersExcused, Reach, On
  <2>2. CASE u = w
    <3>1. n = m /\ c \in all /\ v \in others
      BY <1>2, <1>3, <1>7, <2>2 DEF On, Reach
    <3> QED BY <1>6, <3>1
  <2>3. CASE v = w
    <3>1. n = m /\ u \in others /\ c \in sendTxn[u].todo \cup sendTxn[u].done
      BY <1>2, <1>3, <1>7, <2>3 DEF On, Reach
    <3>2. c \in race
      BY <3>1
    <3> QED BY <1>6, <3>1, <3>2
  <2> QED BY <2>1, <2>2, <2>3
<1>10. ToldLeaveTodo'
  BY <1>2, <1>3 DEF SendInv, ToldLeaveTodo
<1>11. RowsExist'
  BY <1>1, <1>2, <1>3 DEF SendInv, RowsExist, On
<1>12. \A n, c : Told(n, c)' => Told(n, c)
  BY <1>1, <1>6 DEF Told
<1>13. ASSUME NEW c \in Customers, Told("campaign", c)'
       PROVE  told'["campaign"][c] = 1 /\ CampaignKnown(c)'
  <2>1. told["campaign"][c] = 1 /\ CampaignKnown(c)
    BY <1>12, <1>13 DEF SendInv, CampaignOnce
  <2>2. CASE m = "campaign"
    BY <1>1, <1>3, <2>1, <2>2 DEF CampaignKnown, On
  <2>3. CASE m = "recall"
    BY <1>1, <1>2, <1>3, <2>1, <2>3 DEF CampaignKnown, On
  <2> QED BY <2>2, <2>3 DEF Send!Subjects
<1>14. ASSUME NEW c \in Customers, Told("recall", c)'
       PROVE  told'["recall"][c] = 1 /\ RecallKnown(c)'
  <2>1. told["recall"][c] = 1 /\ RecallKnown(c)
    BY <1>12, <1>14 DEF SendInv, RecallOnce
  <2>2. m = "recall" => c \notin all
    <3> SUFFICES ASSUME m = "recall", c \in all PROVE FALSE
      OBVIOUS
    <3>1. PICK u \in Workers : On(u, "recall") /\ c \in sendTxn[u].stamp
      BY <2>1 DEF RecallKnown
    <3>2. u \in others
      BY <1>7, <1>8, <3>1
    <3> QED BY <1>6, <1>14, <3>2 DEF Told
  <2> QED BY <1>1, <1>2, <1>3, <2>1, <2>2 DEF RecallKnown, On
<1>15. CampaignOnce' /\ RecallOnce'
  BY <1>13, <1>14 DEF CampaignOnce, RecallOnce
<1> QED BY <1>5, <1>9, <1>10, <1>11, <1>15 DEF SendInv

(* A session that goes on, or ends, reaches nobody new. *)
LEMMA SessionMoves ==
    ASSUME SendInv, NEW w \in Workers, NEW y \in Send!Txn,
           sendTxn' = [sendTxn EXCEPT ![w] = y],
           y.op \in {sendTxn[w].op, "idle"}, y.todo \cup y.done \subseteq Reach(w),
           y.todo \cap y.done = {},
           \A m, c : <<m, c>> \in excused => <<m, c>> \in excused'
    PROVE  /\ sendTxn'[w] = y /\ \A u \in Workers \ {w} : sendTxn'[u] = sendTxn[u]
           /\ sendTxn' \in [Workers -> Send!Txn]
           /\ RacersExcused' /\ ToldLeaveTodo'
<1>1. sendTxn'[w] = y /\ \A u \in Workers \ {w} : sendTxn'[u] = sendTxn[u]
  BY DEF SendInv, Send!TypeOK
<1>2. sendTxn' \in [Workers -> Send!Txn]
  BY DEF SendInv, Send!TypeOK
<1>3. \A u \in Workers : \A m \in Send!Subjects : On(u, m)' => On(u, m) /\ Reach(u)' \subseteq Reach(u)
  BY <1>1 DEF On, Reach, Send!Subjects
<1>4. RacersExcused'
  BY <1>3 DEF SendInv, RacersExcused
<1>5. ToldLeaveTodo'
  BY <1>1 DEF SendInv, ToldLeaveTodo
<1> QED BY <1>1, <1>2, <1>4, <1>5

LEMMA SendFlushKeeps == ASSUME SendInv, NEW w \in Workers, Send!SendFlush(w) PROVE SendInv'
<1> DEFINE y == [sendTxn[w] EXCEPT !.flushed = TRUE, !.locked = TRUE]
<1>1. /\ y \in Send!Txn /\ sendTxn' = [sendTxn EXCEPT ![w] = y]
      /\ UNCHANGED <<campaign, wants, dead, owners, recall, told, excused>>
  BY DEF Send!SendFlush, SendInv, Send!TypeOK, Send!Txn
<1>2. /\ y.op = sendTxn[w].op /\ y.todo = sendTxn[w].todo /\ y.done = sendTxn[w].done
      /\ y.stamp = sendTxn[w].stamp
  BY DEF SendInv, Send!TypeOK, Send!Txn
<1>3. y.todo \cap y.done = {}
  BY <1>2 DEF SendInv, ToldLeaveTodo
<1>4. /\ sendTxn'[w] = y /\ \A u \in Workers \ {w} : sendTxn'[u] = sendTxn[u]
      /\ sendTxn' \in [Workers -> Send!Txn]
      /\ RacersExcused' /\ ToldLeaveTodo'
  BY <1>1, <1>2, <1>3, SessionMoves DEF Reach
<1> QED BY <1>1, <1>2, <1>4 DEF SendInv, Send!TypeOK, RowsExist, CampaignOnce, CampaignKnown,
           RecallOnce, RecallKnown, Told, On

(* A message of a campaign: whom it reaches had none, unless sends raced. *)
LEMMA SendOneKeeps ==
    ASSUME SendInv, NEW w \in Workers, NEW c \in Customers, Send!SendOne(w, c) PROVE SendInv'
<1> DEFINE wanted == sendTxn[w].locked \/ c \in wants
           prunes == wanted /\ c \in dead
           y == [sendTxn[w] EXCEPT !.todo = @ \ {c}, !.done = IF wanted THEN @ \cup {c} ELSE @,
                                   !.locked = @ /\ ~prunes]
<1>1. /\ On(w, "campaign") /\ c \in sendTxn[w].todo
      /\ dead' \subseteq dead /\ campaign' \in {campaign, "sending"}
      /\ sendTxn' = [sendTxn EXCEPT ![w] = y]
      /\ UNCHANGED <<wants, owners, recall, excused>>
  BY DEF Send!SendOne, On
<1>2. y \in Send!Txn
  BY DEF SendInv, Send!TypeOK, Send!Txn
<1>3. /\ y.op = "campaign" /\ y.todo = sendTxn[w].todo \ {c} /\ y.stamp = sendTxn[w].stamp
      /\ y.done = IF wanted THEN sendTxn[w].done \cup {c} ELSE sendTxn[w].done
  BY <1>1 DEF SendInv, Send!TypeOK, Send!Txn, On
<1> HIDE DEF y
<1>4. y.todo \cap y.done = {}
  BY <1>3 DEF SendInv, ToldLeaveTodo
<1>5. /\ sendTxn'[w] = y /\ \A u \in Workers \ {w} : sendTxn'[u] = sendTxn[u]
      /\ sendTxn' \in [Workers -> Send!Txn]
      /\ RacersExcused' /\ ToldLeaveTodo'
  BY <1>1, <1>2, <1>3, <1>4, SessionMoves DEF Reach, On
<1>6. IF wanted THEN /\ told["campaign"][c] < Rings
                     /\ told' = [told EXCEPT !["campaign"][c] = @ + 1]
                ELSE told' = told
  BY DEF Send!SendOne, Send!Tell
<1>7. Send!TypeOK'
  <2>1. told' \in [Send!Subjects -> [Customers -> 0 .. Rings]]
    BY <1>6, RingsAssumption DEF SendInv, Send!TypeOK, Send!Subjects
  <2> QED BY <1>1, <1>5, <2>1 DEF SendInv, Send!TypeOK
<1>8. RowsExist'
  BY <1>1, <1>3, <1>5 DEF SendInv, RowsExist, On
<1>9. ASSUME NEW d \in Customers, Told("campaign", d)'
      PROVE  told'["campaign"][d] = 1 /\ CampaignKnown(d)'
  <2>1. CASE d = c /\ wanted
    <3>1. told["campaign"][c] \in Nat /\ told'["campaign"][c] = told["campaign"][c] + 1
      BY <1>6, <2>1, RingsAssumption DEF SendInv, Send!TypeOK, Send!Subjects
    <3>2. ~Told("campaign", c)
      <4> SUFFICES ASSUME Told("campaign", c) PROVE FALSE
        OBVIOUS
      <4>1. PICK u \in Workers : On(u, "campaign") /\ c \in sendTxn[u].done
        BY <1>1 DEF SendInv, CampaignOnce, CampaignKnown
      <4>2. u # w
        BY <1>1, <4>1 DEF SendInv, ToldLeaveTodo
      <4>3. <<"campaign", c>> \in excused
        BY <1>1, <4>1, <4>2 DEF SendInv, RacersExcused, Reach, Send!Subjects
      <4> QED BY <4>3 DEF Told
    <3>3. told["campaign"][c] = 0
      BY <1>1, <1>9, <2>1, <3>1, <3>2 DEF Told
    <3> QED BY <1>3, <1>5, <2>1, <3>1, <3>3 DEF CampaignKnown, On
  <2>2. CASE ~(d = c /\ wanted)
    <3>1. told'["campaign"][d] = told["campaign"][d]
      BY <1>6, <2>2 DEF SendInv, Send!TypeOK, Send!Subjects
    <3>2. told["campaign"][d] = 1 /\ CampaignKnown(d)
      BY <1>1, <1>9, <3>1 DEF Told, SendInv, CampaignOnce
    <3>3. PICK u \in Workers : On(u, "campaign") /\ d \in sendTxn[u].done
      BY <1>1, <3>2 DEF CampaignKnown
    <3>4. On(u, "campaign")' /\ d \in sendTxn'[u].done
      BY <1>3, <1>5, <3>3 DEF On
    <3> QED BY <3>1, <3>2, <3>4 DEF CampaignKnown
  <2> QED BY <2>1, <2>2
<1>10. ASSUME NEW d \in Customers, Told("recall", d)'
       PROVE  told'["recall"][d] = 1 /\ RecallKnown(d)'
  <2>1. told'["recall"][d] = told["recall"][d]
    BY <1>6 DEF SendInv, Send!TypeOK, Send!Subjects
  <2>2. told["recall"][d] = 1 /\ RecallKnown(d)
    BY <1>1, <1>10, <2>1 DEF Told, SendInv, RecallOnce
  <2> QED BY <1>1, <1>3, <1>5, <2>1, <2>2 DEF RecallKnown, On
<1>11. CampaignOnce' /\ RecallOnce'
  BY <1>9, <1>10 DEF CampaignOnce, RecallOnce
<1> QED BY <1>5, <1>7, <1>8, <1>11 DEF SendInv

(* A session that ends leaves the others as they are. *)
LEMMA SessionEnds ==
    ASSUME SendInv, NEW w \in Workers, sendTxn' = [sendTxn EXCEPT ![w] = Send!NoTxn],
           \A m, c : <<m, c>> \in excused => <<m, c>> \in excused'
    PROVE  /\ ~On(w, "campaign")' /\ ~On(w, "recall")'
           /\ \A u \in Workers \ {w} : sendTxn'[u] = sendTxn[u]
           /\ sendTxn' \in [Workers -> Send!Txn]
           /\ RacersExcused' /\ ToldLeaveTodo'
<1>1. /\ Send!NoTxn \in Send!Txn /\ Send!NoTxn.op = "idle"
      /\ Send!NoTxn.todo = {} /\ Send!NoTxn.done = {}
  BY DEF Send!NoTxn, Send!Txn
<1>2. Send!NoTxn.todo \cup Send!NoTxn.done \subseteq Reach(w) /\ Send!NoTxn.todo \cap Send!NoTxn.done = {}
  BY <1>1
<1>3. /\ sendTxn'[w] = Send!NoTxn /\ \A u \in Workers \ {w} : sendTxn'[u] = sendTxn[u]
      /\ sendTxn' \in [Workers -> Send!Txn]
      /\ RacersExcused' /\ ToldLeaveTodo'
  BY <1>1, <1>2, SessionMoves
<1> QED BY <1>1, <1>3 DEF On

LEMMA SendCommitKeeps == ASSUME SendInv, NEW w \in Workers, Send!SendCommit(w) PROVE SendInv'
<1>1. /\ On(w, "campaign") /\ campaign' = "sent"
      /\ sendTxn' = [sendTxn EXCEPT ![w] = Send!NoTxn]
      /\ UNCHANGED <<wants, dead, owners, recall, told, excused>>
  BY DEF Send!SendCommit, On
<1>2. /\ ~On(w, "campaign")' /\ ~On(w, "recall")'
      /\ \A u \in Workers \ {w} : sendTxn'[u] = sendTxn[u]
      /\ sendTxn' \in [Workers -> Send!Txn]
      /\ RacersExcused' /\ ToldLeaveTodo'
  BY <1>1, SessionEnds
<1>3. ASSUME NEW d \in Customers, Told("campaign", d)'
      PROVE  told'["campaign"][d] = 1 /\ CampaignKnown(d)'
  <2>1. told["campaign"][d] = 1 /\ CampaignKnown(d) /\ <<"campaign", d>> \notin excused
    BY <1>1, <1>3 DEF Told, SendInv, CampaignOnce
  <2>2. PICK u \in Workers : On(u, "campaign") /\ d \in sendTxn[u].done
    BY <1>1, <2>1 DEF CampaignKnown
  <2>3. CASE u = w
    <3>1. \A v \in Workers \ {w} : ~On(v, "campaign")
      BY <1>1, <2>1, <2>2, <2>3 DEF SendInv, RacersExcused, Reach, Send!Subjects
    <3> QED BY <1>1, <1>2, <2>1, <3>1 DEF CampaignKnown, On
  <2>4. CASE u # w
    BY <1>1, <1>2, <2>1, <2>2, <2>4 DEF CampaignKnown, On
  <2> QED BY <2>3, <2>4
<1>4. CampaignOnce'
  BY <1>3 DEF CampaignOnce
<1>5. Send!TypeOK' /\ RowsExist'
  BY <1>1, <1>2 DEF SendInv, Send!TypeOK, RowsExist, On
<1>6. RecallOnce'
  BY <1>1, <1>2 DEF SendInv, RecallOnce, RecallKnown, Told, On
<1> QED BY <1>2, <1>4, <1>5, <1>6 DEF SendInv

(* A recall is created once: nobody has been told of it before. *)
LEMMA CreateRecallKeeps == ASSUME SendInv, NEW w \in Workers, Send!CreateRecall(w) PROVE SendInv'
<1>1. /\ \A c \in Customers : recall[c] = "absent"
      /\ recall' = [c \in Customers |-> IF c \in owners THEN "pending" ELSE "absent"]
      /\ UNCHANGED <<campaign, wants, dead, owners, told, sendTxn, excused>>
  BY DEF Send!CreateRecall
<1>2. \A u \in Workers : On(u, "recall") => sendTxn[u].todo = {} /\ sendTxn[u].stamp = {}
  BY <1>1, SendSession DEF SendInv, RowsExist
<1>3. \A c \in Customers : ~Told("recall", c)
  BY <1>1, <1>2 DEF SendInv, RecallOnce, RecallKnown
<1>4. Send!TypeOK'
  BY <1>1 DEF SendInv, Send!TypeOK
<1>5. RowsExist' /\ RecallOnce'
  BY <1>1, <1>2, <1>3 DEF RowsExist, RecallOnce, Told, On
<1>6. RacersExcused' /\ ToldLeaveTodo' /\ CampaignOnce'
  BY <1>1 DEF SendInv, RacersExcused, ToldLeaveTodo, CampaignOnce, CampaignKnown, Told, On, Reach
<1> QED BY <1>4, <1>5, <1>6 DEF SendInv

(* A session that stamps the rows it owes. *)
LEMMA Stamping ==
    ASSUME SendInv, NEW w \in Workers, On(w, "recall"), recall' = Send!Stamped(sendTxn[w])
    PROVE  /\ recall' \in [Customers -> {"absent", "pending", "notified"}]
           /\ \A c \in Customers : /\ recall[c] # "absent" => recall'[c] # "absent"
                                   /\ recall[c] = "notified" => recall'[c] = "notified"
                                   /\ c \in sendTxn[w].stamp => recall'[c] = "notified"
  BY DEF Send!Stamped, SendInv, Send!TypeOK

(* The notice of a recall: the row of whoever had one is stamped, or the   *)
(* session that told them still means to.                                  *)
LEMMA NotifyOneKeeps ==
    ASSUME SendInv, NEW w \in Workers, NEW c \in Customers, Send!NotifyOne(w, c) PROVE SendInv'
<1> DEFINE y == [sendTxn[w] EXCEPT !.todo = @ \ {c}, !.done = @ \cup {c}, !.stamp = {c}]
<1>1. /\ On(w, "recall") /\ c \in sendTxn[w].todo
      /\ told' = [told EXCEPT !["recall"][c] = @ + 1] /\ told["recall"][c] < Rings
      /\ recall' = Send!Stamped(sendTxn[w]) /\ dead' \subseteq dead
      /\ sendTxn' = [sendTxn EXCEPT ![w] = y]
      /\ UNCHANGED <<campaign, wants, owners, excused>>
  BY DEF Send!NotifyOne, Send!Tell, On
<1>2. y \in Send!Txn
  BY DEF SendInv, Send!TypeOK, Send!Txn
<1>3. /\ y.op = "recall" /\ y.todo = sendTxn[w].todo \ {c} /\ y.stamp = {c}
      /\ y.done = sendTxn[w].done \cup {c}
  BY <1>1 DEF SendInv, Send!TypeOK, Send!Txn, On
<1> HIDE DEF y
<1>4. y.todo \cap y.done = {}
  BY <1>3 DEF SendInv, ToldLeaveTodo
<1>5. /\ sendTxn'[w] = y /\ \A u \in Workers \ {w} : sendTxn'[u] = sendTxn[u]
      /\ sendTxn' \in [Workers -> Send!Txn]
      /\ RacersExcused' /\ ToldLeaveTodo'
  BY <1>1, <1>2, <1>3, <1>4, SessionMoves DEF Reach, On
<1>6. /\ recall' \in [Customers -> {"absent", "pending", "notified"}]
      /\ \A d \in Customers : /\ recall[d] # "absent" => recall'[d] # "absent"
                              /\ recall[d] = "notified" => recall'[d] = "notified"
                              /\ d \in sendTxn[w].stamp => recall'[d] = "notified"
  BY <1>1, Stamping
<1>7. Send!TypeOK'
  <2>1. told' \in [Send!Subjects -> [Customers -> 0 .. Rings]]
    BY <1>1, RingsAssumption DEF SendInv, Send!TypeOK, Send!Subjects
  <2> QED BY <1>1, <1>5, <1>6, <2>1 DEF SendInv, Send!TypeOK
<1>8. RowsExist'
  <2>1. \A d \in y.todo \cup y.stamp : d \in Customers /\ recall[d] # "absent"
    BY <1>1, <1>3, SendSession DEF SendInv, RowsExist
  <2> QED BY <1>5, <1>6, <2>1, SendSession DEF SendInv, RowsExist, On
<1>9. CampaignOnce'
  <2>1. \A d \in Customers : told'["campaign"][d] = told["campaign"][d]
    BY <1>1 DEF SendInv, Send!TypeOK, Send!Subjects
  <2> QED BY <1>1, <1>3, <1>5, <2>1 DEF SendInv, CampaignOnce, CampaignKnown, Told, On
<1>10. ASSUME NEW d \in Customers, Told("recall", d)'
       PROVE  told'["recall"][d] = 1 /\ RecallKnown(d)'
  <2>1. CASE d = c
    <3>1. told["recall"][c] \in Nat /\ told'["recall"][c] = told["recall"][c] + 1
      BY <1>1, RingsAssumption DEF SendInv, Send!TypeOK, Send!Subjects
    <3>2. told["recall"][c] = 0
      BY <1>1, <1>10, <2>1, <3>1 DEF SendInv, RecallOnce, RecallKnown, Told
    <3>3. \A u \in Workers \ {w} : On(u, "recall") => c \notin sendTxn[u].todo
      BY <1>1, <1>10, <2>1 DEF SendInv, RacersExcused, Reach, Told, Send!Subjects
    <3> QED BY <1>3, <1>5, <2>1, <3>1, <3>2, <3>3 DEF RecallKnown, On
  <2>2. CASE d # c
    <3>1. told'["recall"][d] = told["recall"][d]
      BY <1>1, <2>2 DEF SendInv, Send!TypeOK, Send!Subjects
    <3>2. told["recall"][d] = 1 /\ RecallKnown(d)
      BY <1>1, <1>10, <3>1 DEF Told, SendInv, RecallOnce
    <3>3. recall'[d] = "notified" \/ \E u \in Workers : On(u, "recall")' /\ d \in sendTxn'[u].stamp
      <4>1. CASE recall[d] = "notified"
        BY <1>6, <4>1
      <4>2. ASSUME NEW u \in Workers, On(u, "recall"), d \in sendTxn[u].stamp
            PROVE  recall'[d] = "notified" \/ \E v \in Workers : On(v, "recall")' /\ d \in sendTxn'[v].stamp
        <5>1. CASE u = w
          BY <1>6, <4>2, <5>1
        <5>2. CASE u # w
          BY <1>5, <4>2, <5>2 DEF On
        <5> QED BY <5>1, <5>2
      <4> QED BY <3>2, <4>1, <4>2 DEF RecallKnown
    <3>4. \A u \in Workers : On(u, "recall")' => d \notin sendTxn'[u].todo
      BY <1>1, <1>3, <1>5, <3>2 DEF RecallKnown, On
    <3> QED BY <3>1, <3>2, <3>3, <3>4 DEF RecallKnown
  <2> QED BY <2>1, <2>2
<1>11. RecallOnce'
  BY <1>10 DEF RecallOnce
<1> QED BY <1>5, <1>7, <1>8, <1>9, <1>11 DEF SendInv

LEMMA NotifySkipKeeps ==
    ASSUME SendInv, NEW w \in Workers, NEW c \in Customers, Send!NotifySkip(w, c) PROVE SendInv'
<1> DEFINE y == [sendTxn[w] EXCEPT !.todo = @ \ {c}]
<1>1. /\ On(w, "recall") /\ sendTxn' = [sendTxn EXCEPT ![w] = y]
      /\ UNCHANGED <<campaign, wants, dead, owners, recall, told, excused>>
  BY DEF Send!NotifySkip, On
<1>2. y \in Send!Txn
  BY DEF SendInv, Send!TypeOK, Send!Txn
<1>3. /\ y.op = "recall" /\ y.todo = sendTxn[w].todo \ {c} /\ y.done = sendTxn[w].done
      /\ y.stamp = sendTxn[w].stamp
  BY <1>1 DEF SendInv, Send!TypeOK, Send!Txn, On
<1> HIDE DEF y
<1>4. y.todo \cap y.done = {}
  BY <1>3 DEF SendInv, ToldLeaveTodo
<1>5. /\ sendTxn'[w] = y /\ \A u \in Workers \ {w} : sendTxn'[u] = sendTxn[u]
      /\ sendTxn' \in [Workers -> Send!Txn]
      /\ RacersExcused' /\ ToldLeaveTodo'
  BY <1>1, <1>2, <1>3, <1>4, SessionMoves DEF Reach, On
<1>6. Send!TypeOK' /\ RowsExist'
  BY <1>1, <1>3, <1>5 DEF SendInv, Send!TypeOK, RowsExist, On
<1>7. CampaignOnce'
  BY <1>1, <1>3, <1>5 DEF SendInv, CampaignOnce, CampaignKnown, Told, On
<1>8. RecallOnce'
  BY <1>1, <1>3, <1>5 DEF SendInv, RecallOnce, RecallKnown, Told, On
<1> QED BY <1>5, <1>6, <1>7, <1>8 DEF SendInv

LEMMA NotifyCommitKeeps == ASSUME SendInv, NEW w \in Workers, Send!NotifyCommit(w) PROVE SendInv'
<1>1. /\ On(w, "recall") /\ recall' = Send!Stamped(sendTxn[w])
      /\ sendTxn' = [sendTxn EXCEPT ![w] = Send!NoTxn]
      /\ UNCHANGED <<campaign, wants, dead, owners, told, excused>>
  BY DEF Send!NotifyCommit, On
<1>2. /\ ~On(w, "campaign")' /\ ~On(w, "recall")'
      /\ \A u \in Workers \ {w} : sendTxn'[u] = sendTxn[u]
      /\ sendTxn' \in [Workers -> Send!Txn]
      /\ RacersExcused' /\ ToldLeaveTodo'
  BY <1>1, SessionEnds
<1>3. /\ recall' \in [Customers -> {"absent", "pending", "notified"}]
      /\ \A d \in Customers : /\ recall[d] # "absent" => recall'[d] # "absent"
                              /\ recall[d] = "notified" => recall'[d] = "notified"
                              /\ d \in sendTxn[w].stamp => recall'[d] = "notified"
  BY <1>1, Stamping
<1>4. Send!TypeOK' /\ RowsExist'
  BY <1>1, <1>2, <1>3, SendSession DEF SendInv, Send!TypeOK, RowsExist, On
<1>5. CampaignOnce'
  BY <1>1, <1>2 DEF SendInv, CampaignOnce, CampaignKnown, Told, On
<1>6. RecallOnce'
  BY <1>1, <1>2, <1>3 DEF SendInv, RecallOnce, RecallKnown, Told, On
<1> QED BY <1>2, <1>4, <1>5, <1>6 DEF SendInv

(* A session that fails excuses those it told and has not recorded. *)
LEMMA FailKeeps == ASSUME SendInv, NEW w \in Workers, Send!Fail(w) PROVE SendInv'
<1> DEFINE m == sendTxn[w].op
           lost == IF m = "recall" THEN sendTxn[w].stamp ELSE sendTxn[w].done
<1>1. /\ m \in Send!Subjects /\ excused' = excused \cup ({m} \X lost)
      /\ sendTxn' = [sendTxn EXCEPT ![w] = Send!NoTxn]
      /\ UNCHANGED <<campaign, wants, dead, owners, recall, told>>
  BY SendSession DEF Send!Fail, Send!Idle, Send!Subjects, SendInv
<1>2. /\ \A n, c : <<n, c>> \in excused => <<n, c>> \in excused'
      /\ \A c \in lost : <<m, c>> \in excused'
  BY <1>1
<1>3. /\ ~On(w, "campaign")' /\ ~On(w, "recall")'
      /\ \A u \in Workers \ {w} : sendTxn'[u] = sendTxn[u]
      /\ sendTxn' \in [Workers -> Send!Txn]
      /\ RacersExcused' /\ ToldLeaveTodo'
  BY <1>1, <1>2, SessionEnds
<1>4. Send!TypeOK' /\ RowsExist'
  <2>1. lost \subseteq Customers
    BY SendSession DEF SendInv
  <2> QED BY <1>1, <1>3, <2>1 DEF SendInv, Send!TypeOK, RowsExist, On
<1>5. CampaignOnce'
  BY <1>1, <1>2, <1>3 DEF SendInv, CampaignOnce, CampaignKnown, Told, On
<1>6. RecallOnce'
  BY <1>1, <1>2, <1>3 DEF SendInv, RecallOnce, RecallKnown, Told, On
<1> QED BY <1>3, <1>4, <1>5, <1>6 DEF SendInv

(* Customers choose and buy beside all this. *)
LEMMA OthersKeep ==
    ASSUME SendInv, (\E c \in Customers : Send!Choose(c) \/ Send!Buy(c)) \/ UNCHANGED send
    PROVE  SendInv'
<1>1. /\ UNCHANGED <<campaign, dead, recall, told, sendTxn, excused>>
      /\ wants' \subseteq Customers /\ owners' \subseteq Customers
  BY DEF Send!Choose, Send!Buy, send, SendInv, Send!TypeOK
<1> QED BY <1>1 DEF SendInv, Send!TypeOK, RacersExcused, ToldLeaveTodo, RowsExist, CampaignOnce,
           CampaignKnown, RecallOnce, RecallKnown, Told, On, Reach

LEMMA SendNextKeeps == SendInv /\ [Send!Next]_send => SendInv'
<1>1. ASSUME SendInv, NEW w \in Workers, Send!SendRead(w) \/ Send!NotifyRead(w) PROVE SendInv'
  <2>1. ASSUME Send!SendRead(w) PROVE SendInv'
    <3>1. wants \in SUBSET Customers
      BY <1>1 DEF SendInv, Send!TypeOK
    <3> QED BY <1>1, <2>1, <3>1, StartKeeps DEF Send!SendRead, Send!Subjects
  <2>2. ASSUME Send!NotifyRead(w) PROVE SendInv'
    BY <1>1, <2>2, StartKeeps DEF Send!NotifyRead, Send!Subjects
  <2> QED BY <1>1, <2>1, <2>2
<1>2. ASSUME SendInv, NEW w \in Workers, NEW c \in Customers,
             Send!SendOne(w, c) \/ Send!NotifyOne(w, c) \/ Send!NotifySkip(w, c)
      PROVE  SendInv'
  BY <1>2, SendOneKeeps, NotifyOneKeeps, NotifySkipKeeps
<1>3. ASSUME SendInv, NEW w \in Workers, Send!SendFlush(w) \/ Send!SendCommit(w) PROVE SendInv'
  BY <1>3, SendFlushKeeps, SendCommitKeeps
<1>4. ASSUME SendInv, NEW w \in Workers, Send!CreateRecall(w) \/ Send!NotifyCommit(w) \/ Send!Fail(w)
      PROVE  SendInv'
  BY <1>4, CreateRecallKeeps, NotifyCommitKeeps, FailKeeps
<1> QED BY <1>1, <1>2, <1>3, <1>4, OthersKeep DEF Send!Next

(* A customer is told of a campaign once, and an owner of a recall once,   *)
(* unless two sends ran at once or one failed after telling them.          *)
THEOREM ToldOnce == ContactSpec => []ToldOnceUnlessRacedOrFailed
<1>1. ContactInit => SendInv
  BY SendInitially DEF ContactInit
<1>2. SendInv /\ [ContactNext]_contactVars => SendInv'
  BY OnePartMoves, SendNextKeeps
<1>3. SendInv => ToldOnceUnlessRacedOrFailed
  <2>1. ASSUME SendInv, NEW m \in Send!Subjects, NEW c \in Customers, told[m][c] > 1
        PROVE  <<m, c>> \in excused
    <3>1. told[m][c] \in Nat
      BY <2>1, RingsAssumption DEF SendInv, Send!TypeOK
    <3> QED BY <2>1, <3>1 DEF SendInv, CampaignOnce, RecallOnce, Told, Send!Subjects
  <2> QED BY <2>1 DEF ToldOnceUnlessRacedOrFailed, Send!ToldOnceUnlessRacedOrFailed
<1> QED BY <1>1, <1>2, <1>3, PTL DEF ContactSpec

--------------------------------------------------------------------------------
(* Handsets: what HandsetsProofs shows of them alone holds of this part.   *)

Shared == INSTANCE HandsetsProofs WITH txn <- pushTxn

LEMMA PushInitially == Push!Init => Shared!Init
  BY DEF Push!Init, Shared!Init, Push!NoTxn, Shared!NoTxn

LEMMA PushSteps == [Push!Next]_push => [Shared!Next]_Shared!vars
  BY DEF Push!Next, Shared!Next, Push!SignIn, Shared!SignIn, Push!Forget, Shared!Forget,
         Push!Unregister, Shared!Unregister, Push!Losing, Shared!Losing,
         Push!RegisterRead, Shared!RegisterRead, Push!RegisterCommit, Shared!RegisterCommit,
         Push!PushRead, Shared!PushRead, Push!PushSend, Shared!PushSend, Push!Abort, Shared!Abort,
         Push!NoTxn, Shared!NoTxn, Push!Idle, Shared!Idle, Push!Registering, Shared!Registering,
         Push!Registered, Shared!Registered, push, Shared!vars

LEMMA SharedIsPush == ContactSpec => Shared!Spec
<1>1. ContactInit => Shared!Init
  BY PushInitially DEF ContactInit
<1>2. [ContactNext]_contactVars => [Shared!Next]_Shared!vars
  BY OnePartMoves, PushSteps
<1> QED BY <1>1, <1>2, PTL DEF ContactSpec, Shared!Spec

(* A shared handset stops receiving the last user's alerts. *)
THEOREM SharedPhonesGoQuiet == ContactSpec => []NoPushToTheDeparted
<1>1. ContactSpec => Shared!Spec
  BY SharedIsPush
<1>2. Shared!NoPushToTheDeparted <=> NoPushToTheDeparted
  BY DEF Shared!NoPushToTheDeparted, NoPushToTheDeparted, Push!NoPushToTheDeparted
<1>3. Shared!Spec => []Shared!NoPushToTheDeparted
  BY Shared!DepartedHearNothing, NobodyAssumption
<1> QED BY <1>1, <1>2, <1>3, PTL

--------------------------------------------------------------------------------
(* Notices.  Each has one session at most; the rows of a notice, those in  *)
(* the log and those its session has drafted, are one for each channel the *)
(* session has come to; and what was muted since the notice began is muted *)
(* in the preferences the session goes by, which may be older than those   *)
(* there are: a cell once set is never unset.                              *)

Seen == {<<>>} \cup UNION {[DOMAIN items -> Notice!Stored] : items \in Payloads}

NoticeTxn ==
    [op : {"idle", "notify", "matrix", "switch"}, of : SUBSET Notices, todo : SUBSET Controllable,
     off : SUBSET SUBSET Controllable, draft : SUBSET Notice!Delivery,
     items : Payloads \cup {<<>>}, seen : Seen, was : SUBSET SUBSET Controllable]

NoticeTypes ==
    /\ switchedOff \in SUBSET Controllable
    /\ matrix \in [Notice!Cells -> Notice!Stored]
    /\ event \in [Notices -> SUBSET Events]
    /\ \A n \in Notices : event[n] = {} \/ \E e \in Events : event[n] = {e}
    /\ log \in SUBSET Notice!Delivery
    /\ left \in SUBSET (Notices \X Controllable)
    /\ silent \in [Notices -> SUBSET Controllable]
    /\ cut \in SUBSET Notices
    /\ noticeTxn \in [Workers -> NoticeTxn]

(* A session is about one notice that was begun, or about preferences. *)
Sender(w) ==
    LET x == noticeTxn[w]
    IN /\ x.op # "notify" => x.of = {} /\ x.draft = {}
       /\ x.op = "notify" => \E n \in Notices, e \in Events :
             /\ x.of = {n} /\ event[n] = {e} /\ n \notin cut /\ x.todo \subseteq e.channels
             /\ \A r \in x.draft : r.of = n
       /\ x.op = "notify" => x.off = {} \/ \E o \in SUBSET Controllable : x.off = {o}
       /\ x.op = "switch" => \E o \in SUBSET Controllable : x.off = {o}
       /\ x.op = "matrix" => x.items \in Payloads

OneEach == \A u, w \in Workers : \A n \in noticeTxn[u].of : n \in noticeTxn[w].of => u = w

Unsent(n) ==
    /\ \A r \in log : r.of # n
    /\ \A c \in Controllable : <<n, c>> \notin left
    /\ n \notin cut
    /\ \A w \in Workers : n \notin noticeTxn[w].of

Rows(n) == {r \in log : r.of = n} \cup Notice!Drafted(n)

Accounted(n, e) ==
    /\ \A r, q \in Rows(n) : r.on = q.on => r = q
    /\ \A r \in Rows(n) : r.status = "suppressed" => ~e.force /\ <<n, r.on>> \notin left
    /\ \A c \in Controllable : <<n, c>> \in left =>
          /\ e.force \/ c \notin silent[n]
          /\ n \in cut \/ \E r \in Rows(n) : r.on = c
    /\ Notice!InFlight(n) = {} /\ n \notin cut => {r.on : r \in Rows(n)} = e.channels \cup {"in_app"}

(* The session of a notice: where it has come to, and what it goes by. *)
CameTo(w, n, e) ==
    /\ \A r \in Rows(n) : r.on \in (e.channels \ noticeTxn[w].todo) \cup {"in_app"}
    /\ \A c \in (e.channels \ noticeTxn[w].todo) \cup {"in_app"} : \E r \in Rows(n) : r.on = c
    /\ \A c \in noticeTxn[w].todo : <<n, c>> \notin left
GoesBy(w, n, e) ==
    \A c \in silent[n] :
        \/ matrix[<<e.category, c>>] = "off"
        \/ /\ matrix[<<e.category, c>>] = "default"
           /\ c \in switchedOff /\ \A o \in noticeTxn[w].off : c \in o

NoticeInv ==
    /\ NoticeTypes /\ OneEach
    /\ \A w \in Workers : Sender(w)
    /\ \A n \in Notices : event[n] = {} => Unsent(n)
    /\ \A n \in Notices : \A e \in event[n] : Accounted(n, e)
    /\ \A w \in Workers, n \in Notices : \A e \in event[n] :
          n \in noticeTxn[w].of => CameTo(w, n, e) /\ GoesBy(w, n, e)

LEMMA RowOf ==
    ASSUME NEW n
    PROVE  \A r : r \in Rows(n) <=> \/ r \in log /\ r.of = n
                                    \/ \E w \in Workers : n \in noticeTxn[w].of /\ r \in noticeTxn[w].draft
  BY DEF Rows, Notice!Drafted, Notice!InFlight

LEMMA NoNoticeTxn == Notice!NoTxn \in NoticeTxn
  BY DEF Notice!NoTxn, NoticeTxn, Seen

LEMMA NoticeInitially == Notice!Init => NoticeInv
<1> SUFFICES ASSUME Notice!Init PROVE NoticeInv
  OBVIOUS
<1>1. noticeTxn \in [Workers -> NoticeTxn] /\ \A w \in Workers : noticeTxn[w] = Notice!NoTxn
  BY NoNoticeTxn DEF Notice!Init
<1>2. NoticeTypes
  BY <1>1 DEF Notice!Init, NoticeTypes, Notice!Stored
<1>3. \A w \in Workers : noticeTxn[w].of = {} /\ noticeTxn[w].op = "idle" /\ noticeTxn[w].draft = {}
  BY <1>1 DEF Notice!NoTxn
<1> QED BY <1>2, <1>3 DEF Notice!Init, NoticeInv, OneEach, Sender, Unsent

(* The session of a notice, and nobody else's. *)
LEMMA TheSender ==
    ASSUME NoticeInv, NEW w \in Workers, NEW n \in noticeTxn[w].of, NEW e \in event[n]
    PROVE  /\ n \in Notices /\ e \in Events /\ event[n] = {e} /\ noticeTxn[w].of = {n}
           /\ noticeTxn[w].op = "notify" /\ noticeTxn[w].todo \subseteq e.channels
           /\ n \notin cut
           /\ \A r \in noticeTxn[w].draft : r.of = n
           /\ \A u \in Workers \ {w} : n \notin noticeTxn[u].of
           /\ Accounted(n, e) /\ CameTo(w, n, e) /\ GoesBy(w, n, e)
<1>1. noticeTxn[w].op = "notify"
  BY DEF NoticeInv, Sender
<1>2. PICK m \in Notices, f \in Events :
          /\ noticeTxn[w].of = {m} /\ event[m] = {f} /\ m \notin cut
          /\ noticeTxn[w].todo \subseteq f.channels /\ \A r \in noticeTxn[w].draft : r.of = m
  BY <1>1 DEF NoticeInv, Sender
<1>3. m = n /\ f = e
  BY <1>2
<1> QED BY <1>1, <1>2, <1>3 DEF NoticeInv, OneEach

(* What is not muted is what a session lets through. *)
LEMMA AllowedIsAudible ==
    ASSUME NoticeInv, NEW w \in Workers, NEW n \in noticeTxn[w].of, NEW e \in event[n],
           NEW c \in Controllable, Notice!Allowed(noticeTxn[w], e, c)
    PROVE  e.force \/ c \notin silent[n]
<1> SUFFICES ASSUME ~e.force, c \in silent[n] PROVE FALSE
  OBVIOUS
<1>1. /\ GoesBy(w, n, e) /\ noticeTxn[w].op = "notify"
  BY TheSender
<1>2. noticeTxn[w].off = {} \/ \E o \in SUBSET Controllable : noticeTxn[w].off = {o}
  BY <1>1 DEF NoticeInv, Sender
<1>3. c \notin Notice!SwitchesOf(noticeTxn[w]) => matrix[<<e.category, c>>] = "off"
  BY <1>1, <1>2 DEF Notice!SwitchesOf, GoesBy
<1> QED BY <1>1, <1>3 DEF Notice!Allowed, Notice!Wants, GoesBy

(* A channel dealt with: one more row, for a channel that had none. *)
LEMMA ChannelKeeps ==
    ASSUME NoticeInv, NEW w \in Workers, NEW n \in Notices, NEW e \in event[n], NEW c \in Controllable,
           Notice!Turn(w, n, e, c), NEW how \in Notice!Status, NEW y \in NoticeTxn,
           noticeTxn' = [noticeTxn EXCEPT ![w] = y],
           y.op = "notify", y.of = noticeTxn[w].of, y.todo = noticeTxn[w].todo \ {c},
           \/ /\ log' = log /\ y.off = noticeTxn[w].off
              /\ y.draft = noticeTxn[w].draft \cup {Notice!Row(n, c, how)}
           \/ /\ log' = log \cup noticeTxn[w].draft /\ y.off = {}
              /\ y.draft = {Notice!Row(n, c, how)},
           left' \in {left, left \cup {<<n, c>>}},
           left' # left => e.force \/ c \notin silent[n],
           how = "suppressed" => ~e.force /\ left' = left,
           UNCHANGED <<switchedOff, matrix, event, silent, cut>>
    PROVE  NoticeInv'
<1> DEFINE q == Notice!Row(n, c, how)
           x == noticeTxn[w]
<1>1. n \in x.of /\ c \in x.todo
  BY DEF Notice!Turn
<1>2. /\ e \in Events /\ event[n] = {e} /\ x.of = {n} /\ x.op = "notify"
      /\ x.todo \subseteq e.channels /\ n \notin cut
      /\ \A r \in x.draft : r.of = n
      /\ \A u \in Workers \ {w} : n \notin noticeTxn[u].of
      /\ Accounted(n, e) /\ CameTo(w, n, e) /\ GoesBy(w, n, e)
  BY <1>1, TheSender
<1>3. /\ noticeTxn'[w] = y /\ \A u \in Workers \ {w} : noticeTxn'[u] = noticeTxn[u]
      /\ noticeTxn' \in [Workers -> NoticeTxn]
  BY DEF NoticeInv, NoticeTypes
<1>4. q \in Notice!Delivery /\ q.of = n /\ q.on = c /\ q.status = how
  BY DEF Notice!Row, Notice!Delivery
<1>5. \A m \in Notices : \A r : r \in Rows(m)' <=> r \in Rows(m) \/ (m = n /\ r = q)
  <2> SUFFICES ASSUME NEW m \in Notices, NEW r
               PROVE  r \in Rows(m)' <=> r \in Rows(m) \/ (m = n /\ r = q)
    OBVIOUS
  <2>1. r \in Rows(m) <=> \/ r \in log /\ r.of = m
                          \/ \E u \in Workers : m \in noticeTxn[u].of /\ r \in noticeTxn[u].draft
    BY RowOf
  <2>2. r \in Rows(m)' <=> \/ r \in log' /\ r.of = m
                           \/ \E u \in Workers : m \in noticeTxn'[u].of /\ r \in noticeTxn'[u].draft
    BY RowOf DEF Rows, Notice!Drafted, Notice!InFlight
  <2>3. r \in log' \/ r \in y.draft <=> r \in log \/ r \in x.draft \/ r = q
    OBVIOUS
  <2>4. r \in y.draft => r.of = n
    BY <1>2, <1>4
  <2>5. r \in log' => r \in log \/ r.of = n
    BY <1>2
  <2> HIDE DEF q
  <2>6. CASE m = n
    BY <1>2, <1>3, <1>4, <2>1, <2>2, <2>3, <2>4, <2>6
  <2>7. CASE m # n
    <3>1. \A u \in Workers : m \in noticeTxn'[u].of <=> m \in noticeTxn[u].of
      BY <1>2, <1>3
    <3>2. \A u \in Workers : m \in noticeTxn[u].of => noticeTxn'[u] = noticeTxn[u]
      BY <1>2, <1>3, <2>7
    <3>3. r.of = m => (r \in log' <=> r \in log)
      BY <2>3, <2>5, <2>7
    <3> QED BY <2>1, <2>2, <2>7, <3>1, <3>2, <3>3
  <2> QED BY <2>6, <2>7
<1>6. c \notin {r.on : r \in Rows(n)} /\ <<n, c>> \notin left /\ c # "in_app"
  BY <1>1, <1>2, CatalogueAssumption DEF CameTo
<1>7. NoticeTypes'
  <2>1. x.draft \in SUBSET Notice!Delivery
    BY DEF NoticeInv, NoticeTypes, NoticeTxn
  <2>2. log' \in SUBSET Notice!Delivery /\ left' \in SUBSET (Notices \X Controllable)
    BY <2>1 DEF NoticeInv, NoticeTypes
  <2> QED BY <1>3, <2>2 DEF NoticeInv, NoticeTypes
<1>8. OneEach'
  BY <1>2, <1>3 DEF NoticeInv, OneEach
<1>9. \A u \in Workers : Sender(u)'
  <2>1. ASSUME NEW u \in Workers \ {w} PROVE Sender(u)'
    <3>1. noticeTxn'[u] = noticeTxn[u] /\ event' = event /\ cut' = cut
      BY <1>3
    <3>2. Sender(u)
      BY DEF NoticeInv
    <3> QED BY <3>1, <3>2 DEF Sender
  <2>2. y.off = {} \/ \E o \in SUBSET Controllable : y.off = {o}
    BY <1>2 DEF NoticeInv, Sender
  <2>3. \A r \in y.draft : r.of = n
    BY <1>2, <1>4
  <2>4. Sender(w)'
    BY <1>2, <1>3, <2>2, <2>3 DEF Sender
  <2> QED BY <2>1, <2>4
<1> HIDE DEF q
<1>10. \A m \in Notices : event'[m] = {} => Unsent(m)'
  <2> SUFFICES ASSUME NEW m \in Notices, event'[m] = {} PROVE Unsent(m)'
    OBVIOUS
  <2>1. m # n /\ Unsent(m)
    BY <1>2 DEF NoticeInv
  <2>2. \A d \in Controllable : <<m, d>> \notin left'
    BY <2>1 DEF Unsent
  <2>3. \A r \in log' : r.of # m
    BY <1>2, <2>1 DEF Unsent
  <2> QED BY <1>2, <1>3, <2>1, <2>2, <2>3 DEF Unsent
<1>11. Accounted(n, e)' /\ CameTo(w, n, e)' /\ GoesBy(w, n, e)'
  <2>1. \A d \in Controllable : <<n, d>> \in left' => <<n, d>> \in left \/ (d = c /\ left' # left)
    BY <1>6
  <2>2. \A r1, r2 \in Rows(n)' : r1.on = r2.on => r1 = r2
    BY <1>2, <1>4, <1>5, <1>6 DEF Accounted
  <2>3. \A r \in Rows(n)' : r.status = "suppressed" => ~e.force /\ <<n, r.on>> \notin left'
    <3> SUFFICES ASSUME NEW r \in Rows(n)', r.status = "suppressed"
                 PROVE  ~e.force /\ <<n, r.on>> \notin left'
      OBVIOUS
    <3>1. CASE r = q
      BY <1>4, <1>6, <3>1
    <3>2. CASE r # q
      <4>1. r \in Rows(n) /\ r.on # c
        BY <1>5, <1>6, <3>2
      <4> QED BY <1>2, <4>1 DEF Accounted
    <3> QED BY <3>1, <3>2
  <2>4. \A d \in Controllable : <<n, d>> \in left' =>
            /\ e.force \/ d \notin silent'[n]
            /\ n \in cut' \/ \E r \in Rows(n)' : r.on = d
    BY <1>2, <1>4, <1>5, <2>1 DEF Accounted
  <2>5. Notice!InFlight(n)' # {}
    BY <1>2, <1>3 DEF Notice!InFlight
  <2>6. CameTo(w, n, e)'
    <3>1. \A r \in Rows(n)' : r.on \in (e.channels \ y.todo) \cup {"in_app"}
      BY <1>1, <1>2, <1>4, <1>5 DEF CameTo
    <3>2. \A d \in (e.channels \ y.todo) \cup {"in_app"} : \E r \in Rows(n)' : r.on = d
      <4> SUFFICES ASSUME NEW d \in (e.channels \ y.todo) \cup {"in_app"}
                   PROVE  \E r \in Rows(n)' : r.on = d
        OBVIOUS
      <4>1. CASE d = c
        BY <1>4, <1>5, <4>1
      <4>2. CASE d # c
        BY <1>2, <1>5, <4>2 DEF CameTo
      <4> QED BY <4>1, <4>2
    <3>3. \A d \in y.todo : <<n, d>> \notin left'
      BY <1>2 DEF CameTo
    <3> QED BY <1>3, <3>1, <3>2, <3>3 DEF CameTo
  <2>7. GoesBy(w, n, e)'
    BY <1>2, <1>3 DEF GoesBy
  <2> QED BY <2>2, <2>3, <2>4, <2>5, <2>6, <2>7 DEF Accounted
<1>12. ASSUME NEW m \in Notices \ {n}, NEW f \in event[m]
       PROVE  Accounted(m, f)' /\ \A u \in Workers : m \in noticeTxn'[u].of => CameTo(u, m, f)' /\ GoesBy(u, m, f)'
  <2>1. /\ Rows(m)' = Rows(m)
        /\ \A d : <<m, d>> \in left' <=> <<m, d>> \in left
        /\ \A u \in Workers : m \in noticeTxn'[u].of <=> m \in noticeTxn[u].of
        /\ \A u \in Workers : m \in noticeTxn[u].of => noticeTxn'[u] = noticeTxn[u]
    <3>1. \A r : r \in Rows(m)' <=> r \in Rows(m)
      BY <1>5
    <3> QED BY <1>2, <1>3, <3>1
  <2>2. Notice!InFlight(m)' = Notice!InFlight(m)
    BY <2>1 DEF Notice!InFlight
  <2>3. Accounted(m, f)
    BY DEF NoticeInv
  <2>4. Accounted(m, f)'
    BY <2>1, <2>2, <2>3 DEF Accounted
  <2>5. \A u \in Workers : m \in noticeTxn[u].of => CameTo(u, m, f) /\ GoesBy(u, m, f)
    BY DEF NoticeInv
  <2> QED BY <2>1, <2>4, <2>5 DEF CameTo, GoesBy
<1>13. \A m \in Notices : \A f \in event'[m] : Accounted(m, f)'
  BY <1>2, <1>11, <1>12
<1>14. \A u \in Workers, m \in Notices : \A f \in event'[m] :
          m \in noticeTxn'[u].of => CameTo(u, m, f)' /\ GoesBy(u, m, f)'
  BY <1>2, <1>3, <1>11, <1>12
<1> QED BY <1>7, <1>8, <1>9, <1>10, <1>13, <1>14 DEF NoticeInv

(* Steps of sessions about preferences.  A cell is never unset, and what   *)
(* counts as muted all the while is muted by what the preferences become.  *)
LEMMA PreferencesKeep ==
    ASSUME NoticeInv, NEW w \in Workers, noticeTxn[w].of = {},
           NEW y \in NoticeTxn, noticeTxn' = [noticeTxn EXCEPT ![w] = y],
           y.of = {}, y.draft = {}, y.op # "notify",
           y.op = "switch" => \E o \in SUBSET Controllable : y.off = {o},
           y.op = "matrix" => y.items \in Payloads,
           UNCHANGED <<event, log, left, cut>>,
           switchedOff' \in SUBSET Controllable, matrix' \in [Notice!Cells -> Notice!Stored],
           \A cell \in Notice!Cells : matrix'[cell] = "default" => matrix[cell] = "default",
           \/ UNCHANGED <<switchedOff, matrix, silent>>
           \/ silent' = Notice!StillSilent(matrix', switchedOff')
    PROVE  NoticeInv'
<1>1. /\ noticeTxn'[w] = y /\ \A u \in Workers \ {w} : noticeTxn'[u] = noticeTxn[u]
      /\ noticeTxn' \in [Workers -> NoticeTxn]
      /\ event' = event /\ log' = log /\ left' = left /\ cut' = cut
  BY DEF NoticeInv, NoticeTypes
<1>2. /\ \A u \in Workers : noticeTxn'[u].of = noticeTxn[u].of
      /\ \A u \in Workers : \A n \in noticeTxn[u].of : noticeTxn'[u] = noticeTxn[u]
  BY <1>1
<1>3. \A n \in Notices : Rows(n)' = Rows(n) /\ Notice!InFlight(n)' = Notice!InFlight(n)
  <2> TAKE n \in Notices
  <2>1. \A r : r \in Rows(n) <=> \/ r \in log /\ r.of = n
                                 \/ \E u \in Workers : n \in noticeTxn[u].of /\ r \in noticeTxn[u].draft
    BY RowOf
  <2>2. \A r : r \in Rows(n)' <=> \/ r \in log' /\ r.of = n
                                  \/ \E u \in Workers : n \in noticeTxn'[u].of /\ r \in noticeTxn'[u].draft
    BY DEF Rows, Notice!Drafted, Notice!InFlight
  <2>3. \A r : r \in Rows(n)' <=> r \in Rows(n)
    BY <1>1, <1>2, <2>1, <2>2
  <2> QED BY <1>2, <2>3 DEF Notice!InFlight
<1>4. /\ silent' \in [Notices -> SUBSET Controllable]
      /\ \A n \in Notices : silent'[n] \subseteq silent[n]
  BY DEF NoticeInv, NoticeTypes, Notice!StillSilent
<1>5. NoticeTypes'
  BY <1>1, <1>4 DEF NoticeInv, NoticeTypes
<1>6. OneEach' /\ \A n \in Notices : event'[n] = {} => Unsent(n)'
  BY <1>1, <1>2 DEF NoticeInv, OneEach, Unsent
<1>7. \A u \in Workers : Sender(u)'
  <2>1. ASSUME NEW u \in Workers \ {w} PROVE Sender(u)'
    <3>1. noticeTxn'[u] = noticeTxn[u] /\ Sender(u)
      BY <1>1 DEF NoticeInv
    <3> QED BY <1>1, <3>1 DEF Sender
  <2>2. Sender(w)'
    BY <1>1 DEF Sender
  <2> QED BY <2>1, <2>2
<1>8. ASSUME NEW n \in Notices, NEW e \in event[n] PROVE Accounted(n, e)'
  <2>1. Accounted(n, e) /\ Rows(n)' = Rows(n) /\ Notice!InFlight(n)' = Notice!InFlight(n)
    BY <1>3 DEF NoticeInv
  <2> QED BY <1>1, <1>4, <2>1 DEF Accounted
<1>9. ASSUME NEW u \in Workers, NEW n \in noticeTxn[u].of, NEW e \in event[n]
      PROVE  CameTo(u, n, e)' /\ GoesBy(u, n, e)'
  <2>1. /\ CameTo(u, n, e) /\ GoesBy(u, n, e) /\ n \in Notices /\ e \in Events
        /\ noticeTxn'[u] = noticeTxn[u]
    BY <1>2, TheSender
  <2>2. CameTo(u, n, e)'
    BY <1>1, <1>3, <2>1 DEF CameTo
  <2>3. GoesBy(u, n, e)'
    <3>1. CASE UNCHANGED <<switchedOff, matrix, silent>>
      BY <2>1, <3>1 DEF GoesBy
    <3>2. CASE silent' = Notice!StillSilent(matrix', switchedOff')
      <4> SUFFICES ASSUME NEW c \in silent'[n]
                   PROVE  \/ matrix'[<<e.category, c>>] = "off"
                          \/ /\ matrix'[<<e.category, c>>] = "default"
                             /\ c \in switchedOff' /\ \A o \in noticeTxn[u].off : c \in o
        BY <2>1 DEF GoesBy
      <4>1. c \in silent[n] /\ c \in Notice!Silenced(e.category, matrix', switchedOff')
        BY <1>4, <2>1, <3>2 DEF Notice!StillSilent
      <4>2. <<e.category, c>> \in Notice!Cells
        BY <2>1, <4>1, CatalogueAssumption DEF Notice!Cells, Notice!Silenced
      <4> QED BY <2>1, <4>1, <4>2 DEF Notice!Silenced, GoesBy
    <3> QED BY <3>1, <3>2
  <2> QED BY <2>2, <2>3
<1> QED BY <1>1, <1>2, <1>5, <1>6, <1>7, <1>8, <1>9 DEF NoticeInv

(* A session of a notice that ends: with everything in the log, or cut. *)
LEMMA NoticeEnds ==
    ASSUME NoticeInv, NEW w \in Workers,
           noticeTxn' = [noticeTxn EXCEPT ![w] = Notice!NoTxn],
           \/ noticeTxn[w].todo = {} /\ log' = log \cup noticeTxn[w].draft /\ cut' = cut
           \/ log' = log /\ cut' = cut \cup noticeTxn[w].of,
           silent' = [n \in Notices |-> IF n \in noticeTxn[w].of THEN {} ELSE silent[n]],
           UNCHANGED <<switchedOff, matrix, event, left>>
    PROVE  NoticeInv'
<1> DEFINE x == noticeTxn[w]
<1>1. /\ noticeTxn'[w] = Notice!NoTxn /\ \A u \in Workers \ {w} : noticeTxn'[u] = noticeTxn[u]
      /\ noticeTxn' \in [Workers -> NoticeTxn]
      /\ event' = event /\ left' = left /\ switchedOff' = switchedOff /\ matrix' = matrix
      /\ silent' \in [Notices -> SUBSET Controllable]
      /\ \A n \in Notices : silent'[n] = IF n \in x.of THEN {} ELSE silent[n]
  BY NoNoticeTxn DEF NoticeInv, NoticeTypes
<1>2. /\ Notice!NoTxn.of = {} /\ Notice!NoTxn.op = "idle" /\ Notice!NoTxn.draft = {}
      /\ Notice!NoTxn.todo = {}
  BY DEF Notice!NoTxn
<1>3. x.draft \subseteq Notice!Delivery /\ x.of \subseteq Notices
  BY DEF NoticeInv, NoticeTypes, NoticeTxn
<1>4. \A r \in x.draft : r.of \in x.of
  BY DEF NoticeInv, Sender
<1>5. NoticeTypes'
  BY <1>1, <1>3 DEF NoticeInv, NoticeTypes
<1>6. OneEach'
  BY <1>1, <1>2 DEF NoticeInv, OneEach
<1>7. \A u \in Workers : Sender(u)'
  <2>1. ASSUME NEW u \in Workers \ {w} PROVE Sender(u)'
    <3>1. noticeTxn'[u] = noticeTxn[u] /\ Sender(u) /\ \A n \in noticeTxn[u].of : n \notin x.of
      BY <1>1 DEF NoticeInv, OneEach
    <3>2. \A n \in noticeTxn[u].of : n \in cut' => n \in cut
      BY <3>1
    <3> QED BY <1>1, <3>1, <3>2 DEF Sender
  <2>2. Sender(w)'
    BY <1>1, <1>2 DEF Sender
  <2> QED BY <2>1, <2>2
<1>8. \A n \in x.of : event[n] # {}
  BY DEF NoticeInv, Sender
<1>9. \A n \in Notices : event'[n] = {} => Unsent(n)'
  <2> SUFFICES ASSUME NEW n \in Notices, event[n] = {} PROVE Unsent(n)'
    BY <1>1
  <2>1. Unsent(n) /\ n \notin x.of
    BY <1>8 DEF NoticeInv
  <2> QED BY <1>1, <1>2, <1>4, <2>1 DEF Unsent
<1>10. ASSUME NEW n \in Notices, NEW e \in event[n], n \notin x.of
       PROVE  Accounted(n, e)' /\ \A u \in Workers : n \in noticeTxn'[u].of => CameTo(u, n, e)' /\ GoesBy(u, n, e)'
  <2>1. /\ \A u \in Workers : n \in noticeTxn'[u].of <=> n \in noticeTxn[u].of
        /\ \A u \in Workers : n \in noticeTxn[u].of => noticeTxn'[u] = noticeTxn[u]
    BY <1>1, <1>2, <1>10
  <2>2. \A r : r \in Rows(n) <=> \/ r \in log /\ r.of = n
                                 \/ \E u \in Workers : n \in noticeTxn[u].of /\ r \in noticeTxn[u].draft
    BY RowOf
  <2>3. \A r : r \in Rows(n)' <=> \/ r \in log' /\ r.of = n
                                  \/ \E u \in Workers : n \in noticeTxn'[u].of /\ r \in noticeTxn'[u].draft
    BY DEF Rows, Notice!Drafted, Notice!InFlight
  <2>4. \A r : r.of = n => (r \in log' <=> r \in log)
    BY <1>4, <1>10
  <2>5. \A r : r \in Rows(n)' <=> r \in Rows(n)
    BY <2>1, <2>2, <2>3, <2>4
  <2>6. Rows(n)' = Rows(n) /\ Notice!InFlight(n)' = Notice!InFlight(n)
    BY <2>1, <2>5 DEF Notice!InFlight
  <2>7. silent'[n] = silent[n] /\ (n \in cut' <=> n \in cut)
    BY <1>1, <1>10
  <2>8. Accounted(n, e) /\ \A u \in Workers : n \in noticeTxn[u].of => CameTo(u, n, e) /\ GoesBy(u, n, e)
    BY DEF NoticeInv
  <2>9. Accounted(n, e)'
    BY <1>1, <2>6, <2>7, <2>8 DEF Accounted
  <2> QED BY <1>1, <2>1, <2>6, <2>7, <2>8, <2>9 DEF CameTo, GoesBy
<1>11. ASSUME NEW n \in x.of, NEW e \in event[n] PROVE Accounted(n, e)'
  <2>1. /\ n \in Notices /\ e \in Events /\ x.of = {n}
        /\ \A u \in Workers \ {w} : n \notin noticeTxn[u].of
        /\ Accounted(n, e) /\ CameTo(w, n, e)
        /\ \A r \in x.draft : r.of = n
    BY TheSender
  <2>2. \A r : r \in Rows(n) <=> r \in x.draft \/ (r \in log /\ r.of = n)
    BY <2>1, RowOf
  <2>3. \A r : r \in Rows(n)' <=> \/ r \in log' /\ r.of = n
                                  \/ \E u \in Workers : n \in noticeTxn'[u].of /\ r \in noticeTxn'[u].draft
    BY DEF Rows, Notice!Drafted, Notice!InFlight
  <2>4. \A r : r \in Rows(n)' <=> r \in log' /\ r.of = n
    BY <1>1, <1>2, <2>1, <2>3
  <2>5. \A r : r \in Rows(n)' => r \in Rows(n)
    BY <2>1, <2>2, <2>4
  <2>6. n \in cut' \/ (x.todo = {} /\ \A r : r \in Rows(n) => r \in Rows(n)')
    BY <2>1, <2>2, <2>4
  <2>7. silent'[n] = {}
    BY <1>1, <2>1
  <2>8. n \notin cut' => {r.on : r \in Rows(n)'} = e.channels \cup {"in_app"}
    BY <2>1, <2>5, <2>6 DEF CameTo
  <2> QED BY <1>1, <2>1, <2>5, <2>6, <2>7, <2>8 DEF Accounted
<1>12. \A n \in x.of, u \in Workers : n \notin noticeTxn'[u].of
  BY <1>1, <1>2 DEF NoticeInv, OneEach
<1>13. ASSUME NEW n \in Notices, NEW e \in event[n]
       PROVE  Accounted(n, e)' /\ \A u \in Workers : n \in noticeTxn'[u].of => CameTo(u, n, e)' /\ GoesBy(u, n, e)'
  BY <1>10, <1>11, <1>12
<1> QED BY <1>1, <1>5, <1>6, <1>7, <1>9, <1>13 DEF NoticeInv

(* A notice begins with the row of the app itself. *)
LEMMA NotifyKeeps ==
    ASSUME NoticeInv, NEW w \in Workers, NEW n \in Notices, NEW e \in Events, Notice!Notify(w, n, e)
    PROVE  NoticeInv'
<1> DEFINE q == Notice!Row(n, "in_app", "sent")
           y == [Notice!NoTxn EXCEPT !.op = "notify", !.of = {n}, !.todo = e.channels,
                                     !.off = {switchedOff}, !.draft = {q}]
<1>1. /\ event[n] = {} /\ noticeTxn[w].op = "idle"
      /\ noticeTxn' = [noticeTxn EXCEPT ![w] = y]
      /\ event' = [event EXCEPT ![n] = {e}]
      /\ silent' = [silent EXCEPT ![n] = Notice!Silenced(e.category, matrix, switchedOff)]
      /\ switchedOff' = switchedOff /\ matrix' = matrix
      /\ log' = log /\ left' = left /\ cut' = cut
  BY DEF Notice!Notify, Notice!Begin, Notice!Idle, Notice!preferences
<1>2. /\ e.channels \in SUBSET Controllable /\ e.category \in Categories /\ e.force \in BOOLEAN
      /\ q \in Notice!Delivery /\ q.of = n /\ q.on = "in_app" /\ q.status = "sent"
  BY CatalogueAssumption DEF Notice!Row, Notice!Delivery, Notice!Status
<1>3. /\ y \in NoticeTxn /\ y.op = "notify" /\ y.of = {n} /\ y.todo = e.channels
      /\ y.off = {switchedOff} /\ y.draft = {q}
  <2> HIDE DEF q
  <2> QED BY <1>2, NoNoticeTxn DEF NoticeInv, NoticeTypes, NoticeTxn, Notice!NoTxn
<1> HIDE DEF y, q
<1>4. /\ noticeTxn'[w] = y /\ \A u \in Workers \ {w} : noticeTxn'[u] = noticeTxn[u]
      /\ noticeTxn' \in [Workers -> NoticeTxn]
      /\ event'[n] = {e} /\ \A m \in Notices \ {n} : event'[m] = event[m] /\ silent'[m] = silent[m]
      /\ silent'[n] = Notice!Silenced(e.category, matrix, switchedOff)
  BY <1>1, <1>3 DEF NoticeInv, NoticeTypes
<1>5. Unsent(n) /\ noticeTxn[w].of = {}
  BY <1>1 DEF NoticeInv, Sender
<1>6. NoticeTypes'
  <2>1. Notice!Silenced(e.category, matrix, switchedOff) \in SUBSET Controllable
    BY DEF Notice!Silenced
  <2>2. silent' \in [Notices -> SUBSET Controllable] /\ event' \in [Notices -> SUBSET Events]
    BY <1>1, <2>1 DEF NoticeInv, NoticeTypes
  <2>3. \A m \in Notices : event'[m] = {} \/ \E f \in Events : event'[m] = {f}
    BY <1>4 DEF NoticeInv, NoticeTypes
  <2> QED BY <1>1, <1>4, <2>2, <2>3 DEF NoticeInv, NoticeTypes
<1>7. OneEach'
  BY <1>3, <1>4, <1>5 DEF NoticeInv, OneEach, Unsent
<1>8. \A u \in Workers : Sender(u)'
  <2>1. ASSUME NEW u \in Workers \ {w} PROVE Sender(u)'
    <3>1. noticeTxn'[u] = noticeTxn[u] /\ Sender(u) /\ n \notin noticeTxn[u].of
      BY <1>4, <1>5 DEF NoticeInv, Unsent
    <3>2. ASSUME noticeTxn[u].op = "notify"
          PROVE  \E m \in Notices, f \in Events :
                    /\ noticeTxn[u].of = {m} /\ event'[m] = {f} /\ m \notin cut'
                    /\ noticeTxn[u].todo \subseteq f.channels
                    /\ \A r \in noticeTxn[u].draft : r.of = m
      <4>1. PICK m \in Notices, f \in Events :
                /\ noticeTxn[u].of = {m} /\ event[m] = {f} /\ m \notin cut
                /\ noticeTxn[u].todo \subseteq f.channels
                /\ \A r \in noticeTxn[u].draft : r.of = m
        BY <3>1, <3>2 DEF Sender
      <4>2. m # n
        BY <3>1, <4>1
      <4> QED BY <1>1, <1>4, <4>1, <4>2
    <3> QED BY <3>1, <3>2 DEF Sender
  <2>2. Sender(w)'
    BY <1>1, <1>2, <1>3, <1>4, <1>5 DEF Sender, Unsent, NoticeInv, NoticeTypes
  <2> QED BY <2>1, <2>2
<1>9. \A m \in Notices : event'[m] = {} => Unsent(m)'
  <2> SUFFICES ASSUME NEW m \in Notices, event'[m] = {} PROVE Unsent(m)'
    OBVIOUS
  <2>1. m # n /\ Unsent(m)
    BY <1>4 DEF NoticeInv
  <2> QED BY <1>1, <1>3, <1>4, <2>1 DEF Unsent
<1>10. ASSUME NEW m \in Notices \ {n}, NEW f \in event[m]
       PROVE  Accounted(m, f)' /\ \A u \in Workers : m \in noticeTxn'[u].of => CameTo(u, m, f)' /\ GoesBy(u, m, f)'
  <2>1. /\ \A u \in Workers : m \in noticeTxn'[u].of <=> m \in noticeTxn[u].of
        /\ \A u \in Workers : m \in noticeTxn[u].of => noticeTxn'[u] = noticeTxn[u]
    BY <1>3, <1>4, <1>5
  <2>2. \A r : r \in Rows(m) <=> \/ r \in log /\ r.of = m
                                 \/ \E u \in Workers : m \in noticeTxn[u].of /\ r \in noticeTxn[u].draft
    BY RowOf
  <2>3. \A r : r \in Rows(m)' <=> \/ r \in log' /\ r.of = m
                                  \/ \E u \in Workers : m \in noticeTxn'[u].of /\ r \in noticeTxn'[u].draft
    BY DEF Rows, Notice!Drafted, Notice!InFlight
  <2>4. \A r : r \in Rows(m)' <=> r \in Rows(m)
    BY <1>1, <2>1, <2>2, <2>3
  <2>5. Rows(m)' = Rows(m) /\ Notice!InFlight(m)' = Notice!InFlight(m)
    BY <2>1, <2>4 DEF Notice!InFlight
  <2>6. Accounted(m, f) /\ \A u \in Workers : m \in noticeTxn[u].of => CameTo(u, m, f) /\ GoesBy(u, m, f)
    BY DEF NoticeInv
  <2>7. Accounted(m, f)'
    BY <1>1, <1>4, <2>5, <2>6 DEF Accounted
  <2> QED BY <1>1, <1>4, <2>1, <2>5, <2>6, <2>7 DEF CameTo, GoesBy
<1>11. Accounted(n, e)' /\ CameTo(w, n, e)' /\ GoesBy(w, n, e)'
  <2>1. \A r : r \in Rows(n)' <=> \/ r \in log' /\ r.of = n
                                  \/ \E u \in Workers : n \in noticeTxn'[u].of /\ r \in noticeTxn'[u].draft
    BY DEF Rows, Notice!Drafted, Notice!InFlight
  <2>2. \A r : r \in Rows(n)' <=> r = q
    BY <1>1, <1>3, <1>4, <1>5, <2>1 DEF Unsent
  <2>3. Notice!InFlight(n)' # {}
    BY <1>3, <1>4 DEF Notice!InFlight
  <2>4. \A c \in Controllable : <<n, c>> \notin left'
    BY <1>1, <1>5 DEF Unsent
  <2>5. Accounted(n, e)'
    BY <1>2, <2>2, <2>3, <2>4 DEF Accounted
  <2>6. CameTo(w, n, e)'
    BY <1>2, <1>3, <1>4, <2>2, <2>4 DEF CameTo
  <2>7. GoesBy(w, n, e)'
    BY <1>1, <1>3, <1>4 DEF GoesBy, Notice!Silenced
  <2> QED BY <2>5, <2>6, <2>7
<1>12. \A u \in Workers : n \in noticeTxn'[u].of => u = w
  BY <1>4, <1>5 DEF Unsent
<1>13. ASSUME NEW m \in Notices, NEW f \in event'[m]
       PROVE  Accounted(m, f)' /\ \A u \in Workers : m \in noticeTxn'[u].of => CameTo(u, m, f)' /\ GoesBy(u, m, f)'
  <2>1. CASE m = n
    BY <1>4, <1>11, <1>12, <1>13, <2>1
  <2>2. CASE m # n
    BY <1>4, <1>10, <1>13, <2>2
  <2> QED BY <2>1, <2>2
<1> QED BY <1>6, <1>7, <1>8, <1>9, <1>13 DEF NoticeInv

(* The steps of notify that deal with a channel. *)
LEMMA SuppressKeeps ==
    ASSUME NoticeInv, NEW w \in Workers, NEW n \in Notices, NEW e \in event[n], NEW c \in Controllable,
           Notice!Suppress(w, n, e, c)
    PROVE  NoticeInv'
<1> DEFINE q == Notice!Row(n, c, "suppressed")
           y == [noticeTxn[w] EXCEPT !.todo = @ \ {c}, !.draft = @ \cup {q}]
<1>1. /\ Notice!Turn(w, n, e, c) /\ ~Notice!Allowed(noticeTxn[w], e, c)
      /\ noticeTxn' = [noticeTxn EXCEPT ![w] = y]
      /\ UNCHANGED <<switchedOff, matrix, event, log, left, silent, cut>>
  BY DEF Notice!Suppress, Notice!Done, Notice!preferences
<1>2. noticeTxn[w] \in NoticeTxn /\ noticeTxn[w].op = "notify" /\ q \in Notice!Delivery
  BY <1>1 DEF NoticeInv, NoticeTypes, Notice!Turn, Notice!Row, Notice!Delivery, Notice!Status
<1> HIDE DEF q
<1>3. /\ y \in NoticeTxn /\ y.op = "notify" /\ y.of = noticeTxn[w].of
      /\ y.todo = noticeTxn[w].todo \ {c} /\ y.off = noticeTxn[w].off
      /\ y.draft = noticeTxn[w].draft \cup {q}
  BY <1>2 DEF NoticeTxn
<1>4. ~e.force
  BY <1>1 DEF Notice!Allowed
<1> HIDE DEF y
<1> USE DEF q
<1> QED BY <1>1, <1>3, <1>4, ChannelKeeps DEF Notice!Status

LEMMA SendKeeps ==
    ASSUME NoticeInv, NEW w \in Workers, NEW n \in Notices, NEW e \in event[n], NEW c \in Controllable,
           Notice!Send(w, n, e, c)
    PROVE  NoticeInv'
<1> DEFINE q(how) == Notice!Row(n, c, how)
           y(how) == [noticeTxn[w] EXCEPT !.todo = @ \ {c}, !.draft = @ \cup {q(how)}]
<1>1. /\ Notice!Turn(w, n, e, c) /\ Notice!Allowed(noticeTxn[w], e, c)
      /\ left' \in {left, left \cup {<<n, c>>}}
      /\ UNCHANGED <<switchedOff, matrix, event, log, silent, cut>>
  BY DEF Notice!Send, Notice!preferences
<1>2. PICK how \in {"failed", "sent"} : noticeTxn' = [noticeTxn EXCEPT ![w] = y(how)]
  BY DEF Notice!Send, Notice!Done
<1>3. noticeTxn[w] \in NoticeTxn /\ noticeTxn[w].op = "notify" /\ q(how) \in Notice!Delivery
  BY <1>1 DEF NoticeInv, NoticeTypes, Notice!Turn, Notice!Row, Notice!Delivery, Notice!Status
<1> HIDE DEF q
<1>4. /\ y(how) \in NoticeTxn /\ y(how).op = "notify" /\ y(how).of = noticeTxn[w].of
      /\ y(how).todo = noticeTxn[w].todo \ {c} /\ y(how).off = noticeTxn[w].off
      /\ y(how).draft = noticeTxn[w].draft \cup {q(how)}
  BY <1>3 DEF NoticeTxn
<1>5. n \in noticeTxn[w].of /\ (e.force \/ c \notin silent[n])
  BY <1>1, AllowedIsAudible DEF Notice!Turn
<1> HIDE DEF y
<1> USE DEF q
<1> QED BY <1>1, <1>2, <1>4, <1>5, ChannelKeeps DEF Notice!Status

LEMMA SendPruningKeeps ==
    ASSUME NoticeInv, NEW w \in Workers, NEW n \in Notices, NEW e \in event[n],
           Notice!SendPruning(w, n, e)
    PROVE  NoticeInv'
<1> DEFINE q == Notice!Row(n, "push", "sent")
           y == [noticeTxn[w] EXCEPT !.todo = @ \ {"push"}, !.off = {}, !.draft = {q}]
<1>1. /\ Notice!Turn(w, n, e, "push") /\ Notice!Allowed(noticeTxn[w], e, "push")
      /\ left' \in {left, left \cup {<<n, "push">>}}
      /\ log' = log \cup noticeTxn[w].draft
      /\ noticeTxn' = [noticeTxn EXCEPT ![w] = y]
      /\ UNCHANGED <<switchedOff, matrix, event, silent, cut>>
  BY DEF Notice!SendPruning, Notice!preferences
<1>2. /\ noticeTxn[w] \in NoticeTxn /\ noticeTxn[w].op = "notify"
      /\ n \in noticeTxn[w].of /\ "push" \in noticeTxn[w].todo /\ "push" \in Controllable
  BY <1>1 DEF NoticeInv, NoticeTypes, Notice!Turn, NoticeTxn
<1>3. q \in Notice!Delivery
  BY <1>2 DEF Notice!Row, Notice!Delivery, Notice!Status
<1> HIDE DEF q
<1>4. /\ y \in NoticeTxn /\ y.op = "notify" /\ y.of = noticeTxn[w].of
      /\ y.todo = noticeTxn[w].todo \ {"push"} /\ y.off = {} /\ y.draft = {q}
  BY <1>2, <1>3 DEF NoticeTxn
<1>5. e.force \/ "push" \notin silent[n]
  BY <1>1, <1>2, AllowedIsAudible
<1> HIDE DEF y
<1> USE DEF q
<1> QED BY <1>1, <1>2, <1>4, <1>5, ChannelKeeps DEF Notice!Status

LEMMA NoticeEndKeeps ==
    ASSUME NoticeInv, NEW w \in Workers, Notice!NotifyCommit(w) \/ Notice!Abort(w)
    PROVE  NoticeInv'
<1>1. CASE Notice!NotifyCommit(w)
  BY <1>1, NoticeEnds DEF Notice!NotifyCommit, Notice!End, Notice!preferences
<1>2. CASE Notice!Abort(w)
  BY <1>2, NoticeEnds DEF Notice!Abort, Notice!End, Notice!preferences
<1> QED BY <1>1, <1>2

(* A request of a settings screen begins: a payload of cells, or switches. *)
LEMMA ScreenBegins ==
    ASSUME NoticeInv, NEW w \in Workers,
           (\E items \in Payloads : Notice!SetMatrix(w, items))
           \/ \E off \in SUBSET Controllable : Notice!Switch(w, off)
    PROVE  NoticeInv'
<1>1. /\ Notice!NoTxn.of = {} /\ Notice!NoTxn.draft = {}
      /\ switchedOff \in SUBSET Controllable /\ matrix \in [Notice!Cells -> Notice!Stored]
  BY DEF Notice!NoTxn, NoticeInv, NoticeTypes
<1>2. ASSUME NEW items \in Payloads, Notice!SetMatrix(w, items) PROVE NoticeInv'
  <2> DEFINE seen == [c \in DOMAIN items |-> matrix[c]]
             y == [Notice!NoTxn EXCEPT !.op = "matrix", !.items = items, !.seen = seen]
  <2>1. /\ noticeTxn[w].op = "idle" /\ noticeTxn' = [noticeTxn EXCEPT ![w] = y]
        /\ UNCHANGED <<switchedOff, matrix, event, log, left, silent, cut>>
    BY <1>2 DEF Notice!SetMatrix, Notice!Begin, Notice!Idle, Notice!preferences
  <2>2. seen \in [DOMAIN items -> Notice!Stored]
    BY <1>1, PayloadsAssumption DEF Notice!Cells
  <2>3. seen \in Seen
    BY <2>2 DEF Seen
  <2> HIDE DEF seen
  <2>4. /\ y \in NoticeTxn /\ y.op = "matrix" /\ y.of = {} /\ y.draft = {} /\ y.items = items
    BY <2>3, NoNoticeTxn DEF NoticeTxn, Notice!NoTxn
  <2>5. noticeTxn[w].of = {}
    BY <2>1 DEF NoticeInv, Sender
  <2> HIDE DEF y
  <2> QED BY <1>1, <2>1, <2>4, <2>5, PreferencesKeep
<1>3. ASSUME NEW off \in SUBSET Controllable, Notice!Switch(w, off) PROVE NoticeInv'
  <2> DEFINE y == [Notice!NoTxn EXCEPT !.op = "switch", !.off = {off}, !.was = {switchedOff}]
  <2>1. /\ noticeTxn[w].op = "idle" /\ noticeTxn' = [noticeTxn EXCEPT ![w] = y]
        /\ UNCHANGED <<switchedOff, matrix, event, log, left, silent, cut>>
    BY <1>3 DEF Notice!Switch, Notice!Begin, Notice!Idle, Notice!preferences
  <2>2. /\ y \in NoticeTxn /\ y.op = "switch" /\ y.of = {} /\ y.draft = {} /\ y.off = {off}
    BY <1>1, NoNoticeTxn DEF NoticeTxn, Notice!NoTxn
  <2>3. noticeTxn[w].of = {}
    BY <2>1 DEF NoticeInv, Sender
  <2> HIDE DEF y
  <2> QED BY <1>1, <2>1, <2>2, <2>3, PreferencesKeep
<1> QED BY <1>2, <1>3

(* ... and is committed: what a payload sets is "on" or "off". *)
LEMMA ScreenCommits ==
    ASSUME NoticeInv, NEW w \in Workers, Notice!MatrixCommit(w) \/ Notice!SwitchCommit(w)
    PROVE  NoticeInv'
<1> DEFINE x == noticeTxn[w]
<1>1. /\ Notice!NoTxn \in NoticeTxn /\ Notice!NoTxn.op = "idle"
      /\ Notice!NoTxn.of = {} /\ Notice!NoTxn.draft = {}
      /\ switchedOff \in SUBSET Controllable /\ matrix \in [Notice!Cells -> Notice!Stored]
  BY NoNoticeTxn DEF Notice!NoTxn, NoticeInv, NoticeTypes
<1>2. CASE Notice!MatrixCommit(w)
  <2>1. /\ x.op = "matrix" /\ noticeTxn' = [noticeTxn EXCEPT ![w] = Notice!NoTxn]
        /\ matrix' = [c \in Notice!Cells |-> IF c \in DOMAIN x.items /\ x.items[c] # x.seen[c]
                                             THEN x.items[c] ELSE matrix[c]]
        /\ silent' = Notice!StillSilent(matrix', switchedOff)
        /\ UNCHANGED <<switchedOff, event, log, left, cut>>
    BY <1>2 DEF Notice!MatrixCommit, Notice!End
  <2>2. x.items \in Payloads /\ x.of = {}
    BY <2>1 DEF NoticeInv, Sender
  <2>3. \A c \in DOMAIN x.items : x.items[c] \in {"on", "off"}
    BY <2>2, PayloadsAssumption
  <2>4. matrix' \in [Notice!Cells -> Notice!Stored]
    BY <1>1, <2>1, <2>3 DEF Notice!Stored
  <2>5. \A c \in Notice!Cells : matrix'[c] = "default" => matrix[c] = "default"
    BY <2>1, <2>3
  <2>6. switchedOff' = switchedOff /\ silent' = Notice!StillSilent(matrix', switchedOff')
    BY <2>1
  <2> QED BY <1>1, <2>1, <2>2, <2>4, <2>5, <2>6, PreferencesKeep
<1>3. CASE Notice!SwitchCommit(w)
  <2>1. /\ x.op = "switch" /\ noticeTxn' = [noticeTxn EXCEPT ![w] = Notice!NoTxn]
        /\ switchedOff' = IF x.off = x.was THEN switchedOff ELSE CHOOSE off \in x.off : TRUE
        /\ silent' = Notice!StillSilent(matrix, switchedOff')
        /\ UNCHANGED <<matrix, event, log, left, cut>>
    BY <1>3 DEF Notice!SwitchCommit, Notice!End
  <2>2. x.of = {} /\ \E o \in SUBSET Controllable : x.off = {o}
    BY <2>1 DEF NoticeInv, Sender
  <2>3. switchedOff' \in SUBSET Controllable
    BY <1>1, <2>1, <2>2
  <2>4. matrix' = matrix /\ silent' = Notice!StillSilent(matrix', switchedOff')
    BY <2>1
  <2> QED BY <1>1, <2>1, <2>2, <2>3, <2>4, PreferencesKeep
<1> QED BY <1>2, <1>3

LEMMA NoticeNextKeeps == NoticeInv /\ [Notice!Next]_notice => NoticeInv'
<1>1. ASSUME NoticeInv, UNCHANGED notice PROVE NoticeInv'
  <2>1. /\ UNCHANGED <<switchedOff, matrix, event, log, noticeTxn, left, silent, cut>>
        /\ \A n : Rows(n)' = Rows(n) /\ Notice!InFlight(n)' = Notice!InFlight(n)
    BY <1>1 DEF notice, Rows, Notice!Drafted, Notice!InFlight
  <2>2. NoticeTypes' /\ OneEach' /\ \A n \in Notices : event'[n] = {} => Unsent(n)'
    BY <1>1, <2>1 DEF NoticeInv, NoticeTypes, OneEach, Unsent
  <2>3. \A w \in Workers : Sender(w)'
    BY <1>1, <2>1 DEF NoticeInv, Sender
  <2>4. \A n \in Notices : \A e \in event[n] : Accounted(n, e)'
    BY <1>1, <2>1 DEF NoticeInv, Accounted
  <2>5. \A w \in Workers, n \in Notices : \A e \in event[n] :
           n \in noticeTxn[w].of => CameTo(w, n, e)' /\ GoesBy(w, n, e)'
    BY <1>1, <2>1 DEF NoticeInv, CameTo, GoesBy
  <2> QED BY <2>1, <2>2, <2>3, <2>4, <2>5 DEF NoticeInv
<1>2. ASSUME NoticeInv, NEW w \in Workers, NEW n \in Notices, NEW e \in Events, Notice!Notify(w, n, e)
      PROVE  NoticeInv'
  BY <1>2, NotifyKeeps
<1>3. ASSUME NoticeInv, NEW w \in Workers, Notice!Channels(w) PROVE NoticeInv'
  BY <1>3, SuppressKeeps, SendKeeps, SendPruningKeeps DEF Notice!Channels
<1>4. ASSUME NoticeInv, NEW w \in Workers, Notice!Customer(w) PROVE NoticeInv'
  BY <1>4, ScreenBegins, ScreenCommits DEF Notice!Customer
<1> QED BY <1>1, <1>2, <1>3, <1>4, NoticeEndKeeps DEF Notice!Next

(* The log answers "why didn't they get it?": one row for each channel of  *)
(* a notice whose request ended, nothing that left is called suppressed,   *)
(* and nothing but a forced event leaves on a channel muted all the while. *)
THEOREM LogAccountsForAll == ContactSpec => []EveryChannelAccounted
<1>1. ContactInit => NoticeInv
  BY NoticeInitially DEF ContactInit
<1>2. NoticeInv /\ [ContactNext]_contactVars => NoticeInv'
  BY OnePartMoves, NoticeNextKeeps
<1>3. NoticeInv => EveryChannelAccounted
  BY DEF NoticeInv, Accounted, Rows, EveryChannelAccounted, Notice!EveryChannelAccounted
<1> QED BY <1>1, <1>2, <1>3, PTL DEF ContactSpec

--------------------------------------------------------------------------------
(* Accounts.  A session that began when its values were free finds them    *)
(* free, until another commits; and that one lets it know.                 *)

AccountTxn ==
    [op : {"idle", "insert", "inserted", "write"}, on : People \cup {NoOne},
     email : SUBSET Addresses, phone : SUBSET Who!PhoneNumbers, member : SUBSET BOOLEAN, beside : BOOLEAN]

(* A number of one's own, typed or drawn, is nobody else's. *)
NumberOf(u, p) == \A v \in People \ {u} : p # Who!Drawn(v) /\ p # Who!Own(v)

WhoInv ==
    /\ email \in [People -> Addresses \cup {NoOne}]
    /\ phone \in [People -> Who!PhoneNumbers \cup {NoOne}]
    /\ verified \in SUBSET People /\ portal \in SUBSET People
    /\ accountTxn \in [Workers -> AccountTxn]
    /\ \A u \in People : NumberOf(u, phone[u])
    /\ \A w \in Workers : /\ accountTxn[w].op # "idle" => accountTxn[w].on \in People
                          /\ \A p \in accountTxn[w].phone : NumberOf(accountTxn[w].on, p)
    /\ \A w \in Workers :
          accountTxn[w].op \in {"insert", "write"} /\ ~accountTxn[w].beside => ~Who!Taken(accountTxn[w])

LEMMA PhonesAre ==
    /\ Who!Mailboxes \subseteq Addresses
    /\ \A a \in Addresses : Who!Derived(a) \in Who!PhoneNumbers
    /\ \A u \in People : Who!Drawn(u) \in Who!PhoneNumbers /\ Who!Own(u) \in Who!PhoneNumbers
    /\ NoOne \notin Addresses /\ NoOne \notin Who!PhoneNumbers
    /\ \A u \in People : \A a : NumberOf(u, Who!Derived(a))
    /\ \A u \in People : /\ NumberOf(u, Who!Drawn(u)) /\ NumberOf(u, Who!Own(u))
                         /\ NumberOf(u, NoOne)
<1>1. Who!Mailboxes \subseteq Addresses
  BY AddressesAssumption DEF Who!Mailboxes
<1>2. \A a \in Addresses : Who!Derived(a) \in Who!PhoneNumbers
  BY DEF Who!PhoneNumbers
<1>3. \A u \in People : Who!Drawn(u) \in Who!PhoneNumbers /\ Who!Own(u) \in Who!PhoneNumbers
  BY DEF Who!PhoneNumbers
<1>4. NoOne \notin Addresses /\ NoOne \notin Who!PhoneNumbers
  BY AddressesAssumption DEF Who!PhoneNumbers, Who!Derived, Who!Drawn, Who!Own
<1>5. \A u \in People : \A a : NumberOf(u, Who!Derived(a))
  BY DEF NumberOf, Who!Derived, Who!Drawn, Who!Own
<1>6. \A u \in People : NumberOf(u, Who!Drawn(u)) /\ NumberOf(u, Who!Own(u))
  BY DEF NumberOf, Who!Drawn, Who!Own
<1>7. \A u \in People : NumberOf(u, NoOne)
  BY <1>3, <1>4 DEF NumberOf
<1> QED BY <1>1, <1>2, <1>3, <1>4, <1>5, <1>6, <1>7

LEMMA NoAccountTxn ==
    /\ Who!NoTxn \in AccountTxn /\ Who!NoTxn.op = "idle" /\ Who!NoTxn.phone = {}
  BY DEF Who!NoTxn, AccountTxn

LEMMA WhoInitially == Who!Init => WhoInv
<1> SUFFICES ASSUME Who!Init PROVE WhoInv
  OBVIOUS
<1>1. PICK first \in [People -> BOOLEAN], a \in Who!Mailboxes, b \in Who!Mailboxes :
          /\ email = [u \in People |-> IF first[u] THEN a ELSE NoOne]
          /\ phone = [u \in People |-> IF first[u] THEN Who!Derived(b) ELSE NoOne]
          /\ verified = {u \in People : first[u]}
          /\ portal = {u \in People : first[u] /\ a = AdminEmail}
  BY DEF Who!Init
<1>2. /\ email \in [People -> Addresses \cup {NoOne}]
      /\ phone \in [People -> Who!PhoneNumbers \cup {NoOne}]
      /\ verified \in SUBSET People /\ portal \in SUBSET People
      /\ \A u \in People : NumberOf(u, phone[u])
  BY <1>1, PhonesAre
<1>3. accountTxn \in [Workers -> AccountTxn] /\ \A w \in Workers : accountTxn[w] = Who!NoTxn
  BY NoAccountTxn DEF Who!Init
<1> QED BY <1>2, <1>3, NoAccountTxn DEF WhoInv

(* A session begins: nobody has what it is to write. *)
LEMMA AccountBegins ==
    ASSUME WhoInv, NEW w \in Workers, NEW x \in AccountTxn, Who!Begin(w, x),
           x.on \in People, \A p \in x.phone : NumberOf(x.on, p), ~Who!Taken(x)
    PROVE  WhoInv'
<1>1. /\ accountTxn' = [accountTxn EXCEPT ![w] = x]
      /\ UNCHANGED <<email, phone, verified, portal>>
  BY DEF Who!Begin, Who!rows
<1>2. /\ accountTxn'[w] = x /\ \A u \in Workers \ {w} : accountTxn'[u] = accountTxn[u]
      /\ accountTxn' \in [Workers -> AccountTxn]
  BY <1>1 DEF WhoInv
<1> QED BY <1>1, <1>2 DEF WhoInv, Who!Taken

LEMMA RegisterBegins ==
    ASSUME WhoInv, NEW w \in Workers, NEW u \in People, NEW a \in Addresses, Who!Register(w, u, a)
    PROVE  WhoInv'
<1> DEFINE x == [Who!NoTxn EXCEPT !.op = "insert", !.on = u, !.email = {a}, !.phone = {Who!PhoneOf(u, a)},
                                  !.member = {a = AdminEmail}]
<1>1. Who!With(a) = {} /\ Who!Begin(w, x)
  BY DEF Who!Register
<1>2. Who!PhoneOf(u, a) \in Who!PhoneNumbers /\ NumberOf(u, Who!PhoneOf(u, a))
  BY PhonesAre DEF Who!PhoneOf
<1>3. /\ x \in AccountTxn /\ x.on = u /\ x.email = {a} /\ x.phone = {Who!PhoneOf(u, a)}
  BY <1>2, NoAccountTxn DEF AccountTxn, Who!NoTxn
<1> HIDE DEF x
<1>4. \A v \in People \ {u} : email[v] # a
  BY <1>1 DEF Who!With
<1>5. \A v \in People \ {u} : phone[v] # Who!PhoneOf(u, a)
  <2>1. CASE \E v \in People : phone[v] = Who!Derived(a) /\ email[v] # a
    <3>1. Who!PhoneOf(u, a) = Who!Drawn(u)
      BY <2>1 DEF Who!PhoneOf
    <3> QED BY <3>1 DEF WhoInv, NumberOf
  <2>2. CASE ~\E v \in People : phone[v] = Who!Derived(a) /\ email[v] # a
    <3>1. Who!PhoneOf(u, a) = Who!Derived(a)
      BY <2>2 DEF Who!PhoneOf
    <3> QED BY <1>4, <2>2, <3>1
  <2> QED BY <2>1, <2>2
<1>6. ~Who!Taken(x)
  BY <1>3, <1>4, <1>5 DEF Who!Taken
<1> QED BY <1>1, <1>2, <1>3, <1>6, AccountBegins

LEMMA RegisterAgainBegins ==
    ASSUME WhoInv, NEW w \in Workers, NEW u \in People, NEW a \in Addresses, Who!RegisterAgain(w, u, a)
    PROVE  WhoInv'
<1>1. \E m \in SUBSET BOOLEAN : Who!Begin(w, [Who!NoTxn EXCEPT !.op = "write", !.on = u, !.member = m])
  BY DEF Who!RegisterAgain
<1>2. PICK m \in SUBSET BOOLEAN : Who!Begin(w, [Who!NoTxn EXCEPT !.op = "write", !.on = u, !.member = m])
  BY <1>1
<1> DEFINE y == [Who!NoTxn EXCEPT !.op = "write", !.on = u, !.member = m]
<1>3. y \in AccountTxn /\ y.on = u /\ y.email = {} /\ y.phone = {}
  BY NoAccountTxn DEF AccountTxn, Who!NoTxn
<1> HIDE DEF y
<1>4. ~Who!Taken(y)
  BY <1>3 DEF Who!Taken
<1>5. Who!Begin(w, y)
  BY <1>2 DEF y
<1> QED BY <1>3, <1>4, <1>5, AccountBegins

LEMMA CreateStaffBegins ==
    ASSUME WhoInv, NEW w \in Workers, NEW u \in People, NEW a \in Addresses, Who!CreateStaff(w, u, a)
    PROVE  WhoInv'
<1> DEFINE x == [Who!NoTxn EXCEPT !.op = "write", !.on = u, !.email = {a}, !.phone = {Who!Own(u)},
                                  !.member = {TRUE}]
<1>1. Who!With(a) = {} /\ Who!Begin(w, x)
  BY DEF Who!CreateStaff
<1>2. x \in AccountTxn /\ x.on = u /\ x.email = {a} /\ x.phone = {Who!Own(u)}
  BY PhonesAre, NoAccountTxn DEF AccountTxn, Who!NoTxn
<1> HIDE DEF x
<1>3. ~Who!Taken(x)
  BY <1>1, <1>2 DEF Who!Taken, Who!With, WhoInv, NumberOf
<1> QED BY <1>1, <1>2, <1>3, PhonesAre, AccountBegins

LEMMA UpdateStaffBegins ==
    ASSUME WhoInv, NEW w \in Workers, NEW u \in People, NEW a \in Addresses, Who!UpdateStaff(w, u, a)
    PROVE  WhoInv'
<1> DEFINE x == [Who!NoTxn EXCEPT !.op = "write", !.on = u, !.email = {a}]
<1>1. Who!With(a) = {} /\ Who!Begin(w, x)
  BY DEF Who!UpdateStaff
<1>2. x \in AccountTxn /\ x.on = u /\ x.email = {a} /\ x.phone = {}
  BY NoAccountTxn DEF AccountTxn, Who!NoTxn
<1> HIDE DEF x
<1>3. ~Who!Taken(x)
  BY <1>1, <1>2 DEF Who!Taken, Who!With
<1> QED BY <1>1, <1>2, <1>3, AccountBegins

LEMMA ChangeEmailBegins ==
    ASSUME WhoInv, NEW w \in Workers, NEW u \in People, NEW a \in Addresses, Who!ChangeEmail(w, u, a)
    PROVE  WhoInv'
<1> DEFINE x == [Who!NoTxn EXCEPT !.op = "write", !.on = u, !.email = {a}, !.phone = Who!Moved(u, a)]
<1>1. Who!With(a) = {} /\ Who!Begin(w, x)
  BY DEF Who!ChangeEmail
<1>2. /\ Who!Moved(u, a) \in SUBSET Who!PhoneNumbers
      /\ \A p \in Who!Moved(u, a) : NumberOf(u, p) /\ \A v \in People \ {u} : phone[v] # p
  BY PhonesAre DEF Who!Moved
<1>3. x \in AccountTxn /\ x.on = u /\ x.email = {a} /\ x.phone = Who!Moved(u, a)
  BY <1>2, NoAccountTxn DEF AccountTxn, Who!NoTxn
<1> HIDE DEF x
<1>4. ~Who!Taken(x)
  BY <1>1, <1>2, <1>3 DEF Who!Taken, Who!With
<1> QED BY <1>1, <1>2, <1>3, <1>4, AccountBegins

(* A commit overtakes whoever is at work. *)
LEMMA CommittedOvertakes ==
    ASSUME WhoInv, NEW w \in Workers, Who!Committed(w)
    PROVE  /\ accountTxn' \in [Workers -> AccountTxn]
           /\ \A u \in Workers : \/ accountTxn'[u] = Who!NoTxn
                                 \/ /\ accountTxn'[u].beside
                                    /\ accountTxn'[u].op = accountTxn[u].op
                                    /\ accountTxn'[u].on = accountTxn[u].on
                                    /\ accountTxn'[u].phone = accountTxn[u].phone
<1>1. /\ accountTxn \in [Workers -> AccountTxn]
      /\ accountTxn' = [u \in Workers |-> IF u = w \/ Who!Idle(u) THEN Who!NoTxn
                                          ELSE [accountTxn[u] EXCEPT !.beside = TRUE]]
  BY DEF WhoInv, Who!Committed
<1>2. \A u \in Workers :
          LET y == [accountTxn[u] EXCEPT !.beside = TRUE]
          IN /\ y \in AccountTxn /\ y.beside /\ y.op = accountTxn[u].op /\ y.on = accountTxn[u].on
             /\ y.phone = accountTxn[u].phone
  BY <1>1 DEF AccountTxn
<1> QED BY <1>1, <1>2, NoAccountTxn

LEMMA CommittedKeeps ==
    ASSUME WhoInv, NEW w \in Workers, Who!Committed(w),
           email' \in [People -> Addresses \cup {NoOne}],
           phone' \in [People -> Who!PhoneNumbers \cup {NoOne}],
           verified' \in SUBSET People, portal' \in SUBSET People,
           \A u \in People : NumberOf(u, phone'[u])
    PROVE  WhoInv'
  BY CommittedOvertakes, NoAccountTxn DEF WhoInv, NumberOf

LEMMA VerifyKeeps ==
    ASSUME WhoInv, NEW w \in Workers, NEW a, Who!Verify(w, a) PROVE WhoInv'
<1>1. /\ Who!Committed(w) /\ UNCHANGED <<email, phone>>
      /\ verified' \in SUBSET People /\ portal' \in SUBSET People
  BY DEF Who!Verify, Who!With, WhoInv
<1>2. /\ email' \in [People -> Addresses \cup {NoOne}]
      /\ phone' \in [People -> Who!PhoneNumbers \cup {NoOne}]
      /\ \A u \in People : NumberOf(u, phone'[u])
  BY <1>1 DEF WhoInv
<1> QED BY <1>1, <1>2, CommittedKeeps

LEMMA CommitAccountKeeps ==
    ASSUME WhoInv, NEW w \in Workers, Who!Commit(w) PROVE WhoInv'
<1> DEFINE x == accountTxn[w]
<1>1. Who!Committed(w) /\ Who!Written(x) /\ x \in AccountTxn /\ x.on \in People
  BY DEF Who!Commit, WhoInv
<1>2. x.email \in SUBSET Addresses /\ x.phone \in SUBSET Who!PhoneNumbers
  BY <1>1 DEF AccountTxn
<1>3. email' \in [People -> Addresses \cup {NoOne}]
  BY <1>1, <1>2 DEF Who!Written, Who!Column, WhoInv
<1>4. /\ phone' \in [People -> Who!PhoneNumbers \cup {NoOne}]
      /\ \A u \in People : NumberOf(u, phone'[u])
  <2>1. CASE x.phone = {}
    BY <1>1, <2>1 DEF Who!Written, Who!Column, WhoInv
  <2>2. CASE x.phone # {}
    <3> DEFINE p == CHOOSE v \in x.phone : TRUE
    <3>1. p \in x.phone
      BY <2>2
    <3>2. phone' = [phone EXCEPT ![x.on] = p]
      BY <1>1, <2>2 DEF Who!Written, Who!Column
    <3>3. p \in Who!PhoneNumbers /\ NumberOf(x.on, p)
      BY <1>2, <3>1 DEF WhoInv
    <3> HIDE DEF p
    <3> QED BY <1>1, <3>2, <3>3 DEF WhoInv
  <2> QED BY <2>1, <2>2
<1>5. verified' \in SUBSET People /\ portal' \in SUBSET People
  <2>1. portal' \in {portal \cup {x.on}, portal \ {x.on}, portal}
    BY <1>1 DEF Who!Written
  <2> QED BY <1>1, <2>1 DEF Who!Written, WhoInv
<1> QED BY <1>1, <1>3, <1>4, <1>5, CommittedKeeps

(* A row that goes in, a session that ends: the tables stay. *)
LEMMA RowsUntouchedKeep ==
    ASSUME WhoInv, NEW w \in Workers, Who!Insert(w) \/ Who!Refuse(w) \/ Who!Abort(w)
    PROVE  WhoInv'
<1>1. UNCHANGED <<email, phone, verified, portal>>
  BY DEF Who!Insert, Who!Refuse, Who!Abort, Who!rows
<1>2. CASE accountTxn' = [accountTxn EXCEPT ![w] = Who!NoTxn]
  <2>1. /\ accountTxn'[w] = Who!NoTxn /\ \A u \in Workers \ {w} : accountTxn'[u] = accountTxn[u]
        /\ accountTxn' \in [Workers -> AccountTxn]
    BY <1>2, NoAccountTxn DEF WhoInv
  <2> QED BY <1>1, <2>1, NoAccountTxn DEF WhoInv, Who!Taken
<1>3. CASE Who!Insert(w)
  <2> DEFINE y == [accountTxn[w] EXCEPT !.op = "inserted"]
  <2>1. accountTxn' = [accountTxn EXCEPT ![w] = y] /\ accountTxn[w].op = "insert"
    BY <1>3 DEF Who!Insert
  <2>2. /\ y \in AccountTxn /\ y.op = "inserted" /\ y.on = accountTxn[w].on
        /\ y.phone = accountTxn[w].phone
    <3>1. accountTxn[w] \in AccountTxn
      BY DEF WhoInv
    <3> QED BY <3>1 DEF AccountTxn
  <2> HIDE DEF y
  <2>3. /\ accountTxn'[w] = y /\ \A u \in Workers \ {w} : accountTxn'[u] = accountTxn[u]
        /\ accountTxn' \in [Workers -> AccountTxn]
    BY <2>1, <2>2 DEF WhoInv
  <2> QED BY <1>1, <2>1, <2>2, <2>3 DEF WhoInv, Who!Taken
<1> QED BY <1>2, <1>3 DEF Who!Refuse, Who!Abort

LEMMA WhoNextKeeps == WhoInv /\ [Who!Next]_accounts => WhoInv'
<1>1. ASSUME WhoInv, UNCHANGED accounts PROVE WhoInv'
  BY <1>1 DEF accounts, WhoInv, Who!Taken
<1>2. ASSUME WhoInv, NEW w \in Workers, Who!Customer(w) PROVE WhoInv'
  BY <1>2, PhonesAre, VerifyKeeps, RegisterBegins, RegisterAgainBegins DEF Who!Customer
<1>3. ASSUME WhoInv, NEW w \in Workers, Who!Staff(w) PROVE WhoInv'
  BY <1>3, PhonesAre, CreateStaffBegins, UpdateStaffBegins, ChangeEmailBegins DEF Who!Staff
<1> QED BY <1>1, <1>2, <1>3, CommitAccountKeeps, RowsUntouchedKeep DEF Who!Next

(* "A colliding placeholder must not be a 500": whoever is refused was     *)
(* overtaken by another commit.                                            *)
THEOREM RefusedWereOvertaken == ContactSpec => RefusedOnlyIfOvertaken
<1>1. ContactInit => WhoInv
  BY WhoInitially DEF ContactInit
<1>2. WhoInv /\ [ContactNext]_contactVars => WhoInv'
  BY OnePartMoves, WhoNextKeeps
<1>3. WhoInv => [\A w \in Workers : Who!Refuse(w) => accountTxn[w].beside]_Who!vars
  BY DEF WhoInv, Who!Refuse
<1>4. RefusedOnlyIfOvertaken <=> [][\A w \in Workers : Who!Refuse(w) => accountTxn[w].beside]_Who!vars
  BY DEF RefusedOnlyIfOvertaken, Who!RefusedOnlyIfOvertaken
<1> QED BY <1>1, <1>2, <1>3, <1>4, PTL DEF ContactSpec

--------------------------------------------------------------------------------
(* The whole *)

(* What holds of tickets alone holds of them beside the other parts. *)
LEMMA TicketsAreAPart == ContactSpec => Spec
<1>1. ContactInit => Init
  BY DEF ContactInit
<1>2. [ContactNext]_contactVars => [Next]_vars
  BY OnePartMoves
<1> QED BY <1>1, <1>2, PTL DEF ContactSpec, Spec

LEMMA NoticeTyped == NoticeInv => Notice!TypeOK
<1> SUFFICES ASSUME NoticeInv PROVE Notice!TypeOK
  OBVIOUS
<1>1. \A n \in Notices : event[n] \in {{}} \cup {{e} : e \in Events}
  BY DEF NoticeInv, NoticeTypes
<1>2. \A w \in Workers : DOMAIN noticeTxn[w] = DOMAIN Notice!NoTxn
  BY DEF NoticeInv, NoticeTypes, NoticeTxn, Notice!NoTxn
<1> QED BY <1>1, <1>2 DEF NoticeInv, NoticeTypes, Notice!TypeOK

LEMMA WhoTyped == WhoInv => Who!TypeOK
<1> SUFFICES ASSUME WhoInv PROVE Who!TypeOK
  OBVIOUS
<1>1. \A w \in Workers : DOMAIN accountTxn[w] = DOMAIN Who!NoTxn
  BY DEF WhoInv, AccountTxn, Who!NoTxn
<1> QED BY <1>1 DEF WhoInv, Who!TypeOK

LEMMA SharedTyped == Shared!IInv => Push!TypeOK
  BY DEF Shared!IInv, Shared!TypeOK, Push!TypeOK, Shared!Txn, Push!Txn

(* Every part keeps its types, whichever takes the steps. *)
THEOREM ContactTypeCorrect == ASSUME IsFiniteSet(Tickets) PROVE ContactSpec => []ContactTypeOK
<1>1. ContactSpec => []TypeOK
  BY TicketsAreAPart, TicketsTypeCorrect, PTL
<1>2. ContactSpec => []Shared!IInv
  BY SharedIsPush, Shared!HandsetsInductive, NobodyAssumption, PTL
<1>3. ContactInit => SendInv /\ WhoInv /\ NoticeInv
  BY SendInitially, WhoInitially, NoticeInitially DEF ContactInit
<1>4. SendInv /\ WhoInv /\ NoticeInv /\ [ContactNext]_contactVars => (SendInv /\ WhoInv /\ NoticeInv)'
  BY OnePartMoves, SendNextKeeps, WhoNextKeeps, NoticeNextKeeps
<1>5. TypeOK /\ Shared!IInv /\ SendInv /\ WhoInv /\ NoticeInv => ContactTypeOK
  BY SharedTyped, WhoTyped, NoticeTyped DEF ContactTypeOK, SendInv
<1> QED BY <1>1, <1>2, <1>3, <1>4, <1>5, PTL DEF ContactSpec

=============================================================================

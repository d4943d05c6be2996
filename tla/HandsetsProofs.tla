----------------------------- MODULE HandsetsProofs -----------------------------
(***************************************************************************)
(* Shared phones, for any number of requests, customers and phones: no     *)
(* push is begun towards a phone its customer has left.                    *)
(*                                                                         *)
(* The argument: a token names somebody who has left its phone only if a   *)
(* registration put the name there afterwards, and nobody counts as gone   *)
(* from a phone while a registration of theirs there is under way.         *)
(***************************************************************************)
EXTENDS Handsets, TLAPS

(* What makes NoPushToTheDeparted inductive. *)
RegistrantsStay ==
    \A w \in Workers : txn[w].op = "register" =>
        <<txn[w].on, txn[w].who>> \in (Phones \X Customers) \ gone
OwnersStay == \A p \in Phones : token[p] \in Customers => <<p, token[p]>> \notin gone

IInv == TypeOK /\ RegistrantsStay /\ OwnersStay /\ NoPushToTheDeparted

(* The app's own steps touch none of the tables. *)
LEMMA AppKeeps ==
    ASSUME IInv, NEW p \in Phones, Forget(p) \/ \E c \in Customers : SignIn(p, c) PROVE IInv'
<1>1. holder' \in [Phones -> Customers \cup {NoOne}] /\ UNCHANGED <<token, txn, gone>>
  BY DEF IInv, TypeOK, SignIn, Forget
<1> QED BY <1>1 DEF IInv, TypeOK, RegistrantsStay, OwnersStay, NoPushToTheDeparted

(* Loading the row: whoever registers is back on the phone. *)
LEMMA RegisterReadKeeps ==
    ASSUME IInv, NEW w \in Workers, NEW p \in Phones, RegisterRead(w, p) PROVE IInv'
<1>1. holder[p] \in Customers
  BY DEF IInv, TypeOK, RegisterRead
<1>2. PICK r \in {"none", "own", "other"} :
          txn' = [txn EXCEPT ![w] = [NoTxn EXCEPT !.op = "register", !.who = holder[p], !.on = p, !.row = r]]
  BY DEF RegisterRead
<1>3. /\ gone' = gone \ {<<p, holder[p]>>}
      /\ UNCHANGED <<holder, token>>
  BY DEF RegisterRead
<1>4. TypeOK'
  BY <1>1, <1>2, <1>3 DEF IInv, TypeOK, Txn, NoTxn
<1>5. RegistrantsStay'
  <2> SUFFICES ASSUME NEW v \in Workers, txn'[v].op = "register"
               PROVE <<txn'[v].on, txn'[v].who>> \in (Phones \X Customers) \ gone'
    BY DEF RegistrantsStay
  <2>1. CASE v = w
    <3>1. txn'[v].on = p /\ txn'[v].who = holder[p]
      BY <1>2, <2>1 DEF IInv, TypeOK, NoTxn
    <3> QED BY <1>1, <1>3, <3>1
  <2>2. CASE v # w
    <3>1. txn'[v] = txn[v]
      BY <1>2, <2>2 DEF IInv, TypeOK
    <3> QED BY <1>3, <3>1 DEF IInv, RegistrantsStay
  <2> QED BY <2>1, <2>2
<1>6. OwnersStay'
  BY <1>3 DEF IInv, OwnersStay
<1>7. NoPushToTheDeparted'
  BY <1>2 DEF IInv, TypeOK, NoPushToTheDeparted, NoTxn
<1> QED BY <1>4, <1>5, <1>6, <1>7 DEF IInv

(* Writing it: only those with no registration of their own there leave. *)
LEMMA RegisterCommitKeeps ==
    ASSUME NoOne \notin Customers, IInv, NEW w \in Workers, RegisterCommit(w) PROVE IInv'
<1> DEFINE x == txn[w]
           Leavers == {c \in Customers \ {x.who} : ~Registering(c, x.on)}
<1>1. /\ x \in Txn /\ x.op = "register"
      /\ x.on \in Phones /\ x.who \in Customers /\ <<x.on, x.who>> \notin gone
  BY DEF IInv, TypeOK, RegistrantsStay, RegisterCommit
<1>2. /\ token' = [token EXCEPT ![x.on] = IF x.row = "own" THEN @ ELSE x.who]
      /\ txn' = [txn EXCEPT ![w] = NoTxn]
      /\ gone' = IF x.row = "own" THEN gone ELSE gone \cup {<<x.on, c>> : c \in Leavers}
      /\ UNCHANGED holder
  BY DEF RegisterCommit, Registered, IInv, TypeOK
<1>3. TypeOK'
  BY <1>1, <1>2 DEF IInv, TypeOK, Txn, NoTxn
<1>4. RegistrantsStay'
  <2> SUFFICES ASSUME NEW v \in Workers, txn'[v].op = "register"
               PROVE <<txn'[v].on, txn'[v].who>> \in (Phones \X Customers) \ gone'
    BY DEF RegistrantsStay
  <2>1. v # w /\ txn'[v] = txn[v]
    BY <1>2 DEF IInv, TypeOK, NoTxn
  <2>2. txn[v].on \in Phones /\ txn[v].who \in Customers /\ <<txn[v].on, txn[v].who>> \notin gone
    BY <2>1 DEF IInv, RegistrantsStay
  <2>3. Registering(txn[v].who, txn[v].on)
    BY <2>1 DEF Registering
  <2> QED BY <1>2, <2>1, <2>2, <2>3
<1>5. OwnersStay'
  <2> SUFFICES ASSUME NEW p \in Phones, token'[p] \in Customers PROVE <<p, token'[p]>> \notin gone'
    BY DEF OwnersStay
  <2>1. token[p] \in Customers => <<p, token[p]>> \notin gone
    BY DEF IInv, OwnersStay
  <2>2. CASE x.row = "own" \/ p # x.on
    BY <1>1, <1>2, <2>1, <2>2 DEF IInv, TypeOK
  <2>3. CASE x.row # "own" /\ p = x.on
    BY <1>1, <1>2, <2>3 DEF IInv, TypeOK
  <2> QED BY <2>2, <2>3
<1>6. NoPushToTheDeparted'
  BY <1>2 DEF IInv, TypeOK, NoPushToTheDeparted, NoTxn
<1> QED BY <1>3, <1>4, <1>5, <1>6 DEF IInv

(* Rows deleted under a session change neither who registers nor whom a    *)
(* push is for.                                                            *)
LEMMA LosingKeeps ==
    ASSUME TypeOK, NEW phones \in SUBSET Phones
    PROVE  /\ Losing(phones) \in [Workers -> Txn]
           /\ \A w \in Workers : /\ Losing(phones)[w].op = txn[w].op
                                 /\ Losing(phones)[w].who = txn[w].who
                                 /\ Losing(phones)[w].on = txn[w].on
                                 /\ Losing(phones)[w].left = txn[w].left
BY DEF TypeOK, Txn, Losing

(* Signing out: the token goes with the customer. *)
LEMMA UnregisterKeeps ==
    ASSUME NoOne \notin Customers, IInv, NEW p \in Phones, Unregister(p) PROVE IInv'
<1> DEFINE c == holder[p]
<1>1. /\ c \in Customers
      /\ token' = [token EXCEPT ![p] = IF @ = c THEN NoOne ELSE @]
      /\ txn' = Losing({p}) \/ txn' = txn
      /\ gone' = IF Registering(c, p) THEN gone ELSE gone \cup {<<p, c>>}
      /\ holder' = [holder EXCEPT ![p] = NoOne]
  BY DEF IInv, TypeOK, Unregister
<1>2. /\ txn' \in [Workers -> Txn]
      /\ \A w \in Workers : /\ txn'[w].op = txn[w].op /\ txn'[w].left = txn[w].left
                            /\ txn'[w].on = txn[w].on /\ txn'[w].who = txn[w].who
  <2>1. CASE txn' = Losing({p})
    BY <2>1, LosingKeeps DEF IInv
  <2>2. CASE txn' = txn
    BY <2>2 DEF IInv, TypeOK
  <2> QED BY <1>1, <2>1, <2>2
<1>3. TypeOK'
  BY <1>1, <1>2 DEF IInv, TypeOK
<1>4. RegistrantsStay'
  BY <1>1, <1>2 DEF IInv, RegistrantsStay, Registering
<1>5. OwnersStay'
  BY <1>1 DEF IInv, TypeOK, OwnersStay
<1>6. NoPushToTheDeparted'
  BY <1>2 DEF IInv, NoPushToTheDeparted
<1> QED BY <1>3, <1>4, <1>5, <1>6 DEF IInv

(* A push begins: none of its tokens is that of a phone its customer left. *)
LEMMA PushReadKeeps ==
    ASSUME IInv, NEW w \in Workers, NEW c \in Customers, PushRead(w, c) PROVE IInv'
<1> DEFINE tokens == {p \in Phones : token[p] = c}
<1>1. {p \in tokens : <<p, c>> \in gone} = {}
  BY DEF IInv, OwnersStay
<1>2. /\ txn' = [txn EXCEPT ![w] = [NoTxn EXCEPT !.op = "push", !.who = c, !.to = tokens, !.left = {}]]
      /\ UNCHANGED <<holder, token, gone>>
  BY <1>1 DEF PushRead
<1> QED BY <1>2 DEF IInv, TypeOK, Txn, NoTxn, RegistrantsStay, OwnersStay, NoPushToTheDeparted

(* The answer: dead tokens lose their rows, whoever has them. *)
LEMMA PushSendKeeps ==
    ASSUME NoOne \notin Customers, IInv, NEW w \in Workers, PushSend(w) PROVE IInv'
<1>1. PICK dead \in SUBSET txn[w].to :
          /\ token' = [p \in Phones |-> IF p \in dead THEN NoOne ELSE token[p]]
          /\ txn' = [Losing(dead) EXCEPT ![w] = NoTxn]
  BY DEF PushSend
<1>2. UNCHANGED <<holder, gone>>
  BY DEF PushSend
<1>3. dead \in SUBSET Phones
  BY DEF IInv, TypeOK, Txn
<1>4. \A v \in Workers : \/ v = w /\ txn'[v] = NoTxn
                         \/ /\ txn'[v].op = txn[v].op /\ txn'[v].left = txn[v].left
                            /\ txn'[v].on = txn[v].on /\ txn'[v].who = txn[v].who
  BY <1>1, <1>3, LosingKeeps DEF IInv
<1>5. TypeOK'
  <2>1. Losing(dead) \in [Workers -> Txn] /\ NoTxn \in Txn
    BY <1>3, LosingKeeps DEF IInv, Txn, NoTxn
  <2> QED BY <1>1, <1>2, <2>1 DEF IInv, TypeOK
<1>6. RegistrantsStay'
  BY <1>2, <1>4 DEF IInv, RegistrantsStay, NoTxn
<1>7. OwnersStay'
  BY <1>1, <1>2 DEF IInv, OwnersStay
<1>8. NoPushToTheDeparted'
  BY <1>4 DEF IInv, NoPushToTheDeparted, NoTxn
<1> QED BY <1>5, <1>6, <1>7, <1>8 DEF IInv

LEMMA AbortKeeps == ASSUME IInv, NEW w \in Workers, Abort(w) PROVE IInv'
<1>1. txn' = [txn EXCEPT ![w] = NoTxn] /\ UNCHANGED <<holder, token, gone>>
  BY DEF Abort
<1> QED BY <1>1 DEF IInv, TypeOK, Txn, NoTxn, RegistrantsStay, OwnersStay, NoPushToTheDeparted

--------------------------------------------------------------------------------

(* The invariant holds of every behaviour. *)
THEOREM HandsetsInductive == ASSUME NoOne \notin Customers PROVE Spec => []IInv
<1>1. Init => IInv
  BY DEF Init, IInv, TypeOK, Txn, NoTxn, RegistrantsStay, OwnersStay, NoPushToTheDeparted
<1>2. IInv /\ [Next]_vars => IInv'
  <2>1. ASSUME IInv, UNCHANGED vars PROVE IInv'
    BY <2>1 DEF vars, IInv, TypeOK, RegistrantsStay, OwnersStay, NoPushToTheDeparted
  <2>2. ASSUME IInv, NEW p \in Phones, NEW c \in Customers, SignIn(p, c) PROVE IInv'
    BY <2>2, AppKeeps
  <2>3. ASSUME IInv, NEW p \in Phones, Forget(p) PROVE IInv'
    BY <2>3, AppKeeps
  <2>4. ASSUME IInv, NEW p \in Phones, Unregister(p) PROVE IInv'
    BY <2>4, UnregisterKeeps
  <2>5. ASSUME IInv, NEW w \in Workers, NEW p \in Phones, RegisterRead(w, p) PROVE IInv'
    BY <2>5, RegisterReadKeeps
  <2>6. ASSUME IInv, NEW w \in Workers, NEW c \in Customers, PushRead(w, c) PROVE IInv'
    BY <2>6, PushReadKeeps
  <2>7. ASSUME IInv, NEW w \in Workers, RegisterCommit(w) \/ PushSend(w) \/ Abort(w) PROVE IInv'
    BY <2>7, RegisterCommitKeeps, PushSendKeeps, AbortKeeps
  <2> QED BY <2>1, <2>2, <2>3, <2>4, <2>5, <2>6, <2>7 DEF Next
<1> QED BY <1>1, <1>2, PTL DEF Spec

(* register_device and unregister_device: a shared handset stops receiving *)
(* the last user's alerts.                                                 *)
THEOREM DepartedHearNothing ==
    ASSUME NoOne \notin Customers PROVE Spec => []NoPushToTheDeparted
<1>1. IInv => NoPushToTheDeparted
  BY DEF IInv
<1> QED BY <1>1, HandsetsInductive, PTL

=============================================================================

------------------------------- MODULE Handsets -------------------------------
(***************************************************************************)
(* Push notifications and the handsets they reach.  An installation of the *)
(* app has one push token, and the token's row says whose it is.  Phones   *)
(* are shared: one customer signs out, another signs in.                   *)
(*                                                                         *)
(* A registration loads the row and writes it at its commit; a sign-out is *)
(* one DELETE; a push loads its tokens, then waits for the provider.       *)
(***************************************************************************)
EXTENDS FiniteSets

CONSTANTS
    Workers,    \* requests at work at once
    Customers,
    Phones,     \* installations, each with its push token
    NoOne       \* not a customer

VARIABLES
    holder,   \* who is signed in on each phone
    token,    \* device_tokens.user_id of the token of each; NoOne: no row
    txn,      \* the session of each request
    gone      \* pairs of a phone and a customer who has left it (ghost)

vars == <<holder, token, txn, gone>>

(* row: whose row a registration has loaded, if it is still there; to: the *)
(* phones a push is sent to; left: those its customer had left by then     *)
(* (ghost).                                                                *)
NoTxn == [op |-> "idle", who |-> NoOne, on |-> NoOne, row |-> "none", to |-> {}, left |-> {}]
Txn == [op : {"idle", "register", "push"}, who : Customers \cup {NoOne},
        on : Phones \cup {NoOne}, row : {"none", "own", "other", "lost"},
        to : SUBSET Phones, left : SUBSET Phones]

TypeOK ==
    /\ holder \in [Phones -> Customers \cup {NoOne}]
    /\ token \in [Phones -> Customers \cup {NoOne}]
    /\ txn \in [Workers -> Txn]
    /\ gone \subseteq Phones \X Customers

Init ==
    /\ holder = [p \in Phones |-> NoOne]
    /\ token = [p \in Phones |-> NoOne]
    /\ txn = [w \in Workers |-> NoTxn]
    /\ gone = {}

Idle(w) == txn[w].op = "idle"

(* A registration of this customer on this phone is under way. *)
Registering(c, p) == \E w \in Workers : txn[w].op = "register" /\ txn[w].who = c /\ txn[w].on = p

--------------------------------------------------------------------------------
(* The app.  It registers whenever it starts, and it calls the server      *)
(* before it forgets its session, unless it is removed or has no network.  *)

SignIn(p, c) ==
    /\ holder[p] = NoOne
    /\ holder' = [holder EXCEPT ![p] = c]
    /\ UNCHANGED <<token, txn, gone>>

Forget(p) ==
    /\ holder[p] # NoOne
    /\ holder' = [holder EXCEPT ![p] = NoOne]
    /\ UNCHANGED <<token, txn, gone>>

--------------------------------------------------------------------------------
(* register_device *)

RegisterRead(w, p) ==
    /\ Idle(w) /\ holder[p] # NoOne
    /\ txn' = [txn EXCEPT ![w] = [NoTxn EXCEPT !.op = "register", !.who = holder[p], !.on = p,
                                  !.row = CASE token[p] = NoOne -> "none"
                                            [] token[p] = holder[p] -> "own"
                                            [] OTHER -> "other"]]
    /\ gone' = gone \ {<<p, holder[p]>>}
    /\ UNCHANGED <<holder, token>>

(* Mutant: a token that is known already keeps its owner. *)
RegisteredKeeping(x) == IF x.row = "none" THEN x.who ELSE token[x.on]

(* The row is inserted, or reassigned whoever has it by now; a row that    *)
(* was the customer's already when it was loaded keeps the owner it has.   *)
Registered(x) == IF x.row = "own" THEN token[x.on] ELSE x.who

(* A row inserted meanwhile, or deleted, makes the request fail.           *)
RegisterCommit(w) ==
    LET x == txn[w]
    IN /\ x.op = "register"
       /\ x.row \in {"own", "other"} \/ (x.row = "none" /\ token[x.on] = NoOne)
       /\ token' = [token EXCEPT ![x.on] = Registered(x)]
       /\ gone' = IF x.row = "own" THEN gone
                  ELSE gone \cup {<<x.on, c>> : c \in {c \in Customers \ {x.who} : ~Registering(c, x.on)}}
       /\ txn' = [txn EXCEPT ![w] = NoTxn]
       /\ UNCHANGED holder

(* The sessions after rows have been deleted. *)
Losing(phones) ==
    [w \in Workers |-> IF txn[w].row \in {"own", "other"} /\ txn[w].on \in phones
                       THEN [txn[w] EXCEPT !.row = "lost"] ELSE txn[w]]

(* unregister_device: the token, if it is still the caller's. *)
Unregister(p) ==
    LET c == holder[p]
    IN /\ c # NoOne
       /\ token' = [token EXCEPT ![p] = IF @ = c THEN NoOne ELSE @]
       /\ txn' = IF token[p] = c THEN Losing({p}) ELSE txn
       /\ gone' = IF Registering(c, p) THEN gone ELSE gone \cup {<<p, c>>}
       /\ holder' = [holder EXCEPT ![p] = NoOne]

--------------------------------------------------------------------------------
(* ExpoPushService.send *)

(* tokens_for_user *)
PushRead(w, c) ==
    LET tokens == {p \in Phones : token[p] = c}
    IN /\ Idle(w) /\ tokens # {}
       /\ txn' = [txn EXCEPT ![w] = [NoTxn EXCEPT !.op = "push", !.who = c, !.to = tokens,
                                     !.left = {p \in tokens : <<p, c>> \in gone}]]
       /\ UNCHANGED <<holder, token, gone>>

(* The provider answers: delivered, or that some tokens are dead: those    *)
(* rows are deleted, whoever has them by now (drop_tokens).                *)
PushSend(w) ==
    /\ txn[w].op = "push"
    /\ \E dead \in SUBSET txn[w].to :
          /\ token' = [p \in Phones |-> IF p \in dead THEN NoOne ELSE token[p]]
          /\ txn' = [Losing(dead) EXCEPT ![w] = NoTxn]
    /\ UNCHANGED <<holder, gone>>

(* The request fails, the provider cannot be reached, the process stops.   *)
Abort(w) ==
    /\ ~Idle(w)
    /\ txn' = [txn EXCEPT ![w] = NoTxn]
    /\ UNCHANGED <<holder, token, gone>>

Next ==
    \/ \E p \in Phones, c \in Customers : SignIn(p, c)
    \/ \E p \in Phones : Forget(p) \/ Unregister(p)
    \/ \E w \in Workers :
          \/ \E p \in Phones : RegisterRead(w, p)
          \/ \E c \in Customers : PushRead(w, c)
          \/ RegisterCommit(w) \/ PushSend(w) \/ Abort(w)

Spec == Init /\ [][Next]_vars

--------------------------------------------------------------------------------
(* Properties *)

(* register_device: "a re-registration reassigns ownership rather than     *)
(* erroring, otherwise the previous owner keeps receiving the new user's   *)
(* notifications"; unregister_device: "so a shared handset stops receiving *)
(* the last user's alerts".  No push is begun towards a phone its customer *)
(* has left, by signing out or because another has registered there: only  *)
(* a registration of theirs still under way then could bring them back.    *)
NoPushToTheDeparted == \A w \in Workers : txn[w].left = {}

=============================================================================

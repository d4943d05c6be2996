------------------------------- MODULE Accounts -------------------------------
(***************************************************************************)
(* Who has which address: registration, staff accounts and changes of      *)
(* e-mail, over the two unique columns of `users`.  An account that has    *)
(* given no telephone number carries a placeholder derived from its        *)
(* address, and the address may move on without it.                        *)
(*                                                                         *)
(* Customers' addresses are normalised before anything else; the portal    *)
(* stores a member's address as it was typed.                              *)
(***************************************************************************)
EXTENDS Naturals

CONSTANTS
    Workers,    \* request threads at work at once
    People,     \* accounts ever created (a bound)
    Addresses,  \* addresses as they are typed
    Norm,       \* the normal form of each: trimmed, in lower case
    AdminEmail, \* settings.admin_email
    Nobody      \* not an address: no such account

VARIABLES
    email,     \* users.email
    phone,     \* users.phone_normalized, with its origin
    verified,  \* accounts for which registration answers 409
    portal,    \* accounts whose role is staff or admin
    txn        \* the session of each worker

rows == <<email, phone, verified, portal>>
vars == <<rows, txn>>

Mailboxes == {Norm[a] : a \in Addresses}
Derived(a) == <<"derived", Norm[a]>>
Drawn(u) == <<"drawn", u>>
Own(u) == <<"own", u>>
PhoneNumbers == {Derived(a) : a \in Addresses} \cup {Drawn(u) : u \in People} \cup {Own(u) : u \in People}

(* email, phone, member: the values the session is to write, if any;       *)
(* beside: another session has committed since this one began.             *)
NoTxn == [op |-> "idle", on |-> Nobody, email |-> {}, phone |-> {}, member |-> {},
          beside |-> FALSE]

TypeOK ==
    /\ email \in [People -> Addresses \cup {Nobody}]
    /\ phone \in [People -> PhoneNumbers \cup {Nobody}]
    /\ verified \subseteq People /\ portal \subseteq People
    /\ \A w \in Workers : DOMAIN txn[w] = DOMAIN NoTxn

(* An empty table; the administrator, seeded with a placeholder; or a      *)
(* customer whose address moved on before placeholders did.                *)
Init ==
    /\ txn = [w \in Workers |-> NoTxn]
    /\ \E first \in [People -> BOOLEAN], a, b \in Mailboxes :
          /\ \A u, v \in People : first[u] /\ first[v] => u = v
          /\ email = [u \in People |-> IF first[u] THEN a ELSE Nobody]
          /\ phone = [u \in People |-> IF first[u] THEN Derived(b) ELSE Nobody]
          /\ verified = {u \in People : first[u]}
          /\ portal = {u \in People : first[u] /\ a = AdminEmail}

Idle(w) == txn[w].op = "idle"
With(a) == {u \in People : email[u] = a}
Unused(u) == email[u] = Nobody /\ \A w \in Workers : txn[w].on # u

Begin(w, x) ==
    /\ Idle(w)
    /\ txn' = [txn EXCEPT ![w] = x]
    /\ UNCHANGED rows

Committed(w) ==
    txn' = [u \in Workers |-> IF u = w \/ Idle(u) THEN NoTxn
                              ELSE [txn[u] EXCEPT !.beside = TRUE]]

--------------------------------------------------------------------------------
(* Registration *)

(* Mutant: the placeholder is used whoever holds it. *)
PhoneOfDerived(u, a) == Derived(a)

(* The placeholder of the address, or a drawn one if a stale row holds it. *)
PhoneOf(u, a) ==
    IF \E v \in People : phone[v] = Derived(a) /\ email[v] # a THEN Drawn(u) ELSE Derived(a)

(* request_otp, purpose register, of an address nobody has: a new row.     *)
Register(w, u, a) ==
    /\ Unused(u) /\ With(a) = {}
    /\ Begin(w, [NoTxn EXCEPT !.op = "insert", !.on = u, !.email = {a}, !.phone = {PhoneOf(u, a)},
                              !.member = {a = AdminEmail}])

(* ... and of an account that never entered its code: a customer's again.  *)
RegisterAgain(w, u, a) ==
    /\ u \in With(a) \ verified
    /\ Begin(w, [NoTxn EXCEPT !.op = "write", !.on = u,
                              !.member = {a = AdminEmail} \ {u \in portal}])

(* verify_otp: whoever entered the code mailed to the address.             *)
Verify(w, a) ==
    /\ Idle(w)
    /\ \E u \in With(a) :
          /\ verified' = verified \cup {u}
          /\ portal' = IF a = AdminEmail THEN portal \cup {u} ELSE portal
    /\ Committed(w)
    /\ UNCHANGED <<email, phone>>

--------------------------------------------------------------------------------
(* The portal, and support *)

(* The number is the member's own; a number in use is refused.             *)
CreateStaff(w, u, a) ==
    /\ Unused(u) /\ With(a) = {}
    /\ Begin(w, [NoTxn EXCEPT !.op = "write", !.on = u, !.email = {a}, !.phone = {Own(u)},
                              !.member = {TRUE}])

(* The placeholder stays behind.                                           *)
UpdateStaff(w, u, a) ==
    /\ u \in portal /\ email[u] # a /\ With(a) = {}
    /\ Begin(w, [NoTxn EXCEPT !.op = "write", !.on = u, !.email = {a}])

(* change_email_verified: a placeholder moves along, if it is free.        *)
Moved(u, a) ==
    IF phone[u] = Derived(email[u]) /\ \A v \in People \ {u} : phone[v] # Derived(a)
    THEN {Derived(a)} ELSE {}

ChangeEmail(w, u, a) ==
    /\ email[u] # Nobody /\ a # Norm[email[u]] /\ With(a) = {}
    /\ Begin(w, [NoTxn EXCEPT !.op = "write", !.on = u, !.email = {a}, !.phone = Moved(u, a)])

--------------------------------------------------------------------------------
(* The two unique keys *)

Taken(x) == \E u \in People \ {x.on} : email[u] \in x.email \/ phone[u] \in x.phone
Waits(w) ==
    \E u \in Workers \ {w} :
        /\ txn[u].op = "inserted"
        /\ txn[u].email \cap txn[w].email # {} \/ txn[u].phone \cap txn[w].phone # {}

(* A column is written if the session has a value for it.                  *)
Column(old, u, values) == IF values = {} THEN old ELSE [old EXCEPT ![u] = CHOOSE v \in values : TRUE]

Written(x) ==
    /\ email' = Column(email, x.on, x.email)
    /\ phone' = Column(phone, x.on, x.phone)
    /\ portal' = CASE x.member = {TRUE}  -> portal \cup {x.on}
                   [] x.member = {FALSE} -> portal \ {x.on}
                   [] OTHER -> portal
    /\ verified' = verified \cup {u \in {x.on} : x.phone = {Own(u)}}

(* The row goes in before the challenge is made ...                        *)
Insert(w) ==
    /\ txn[w].op = "insert" /\ ~Taken(txn[w]) /\ ~Waits(w)
    /\ txn' = [txn EXCEPT ![w].op = "inserted"]
    /\ UNCHANGED rows

(* ... and is committed with it; the others write at their commit.         *)
Commit(w) ==
    /\ txn[w].op = "inserted" \/ (txn[w].op = "write" /\ ~Taken(txn[w]) /\ ~Waits(w))
    /\ Written(txn[w])
    /\ Committed(w)

(* The database refuses the row: nothing catches it, and the answer is 500.*)
Refuse(w) ==
    /\ txn[w].op \in {"insert", "write"} /\ Taken(txn[w]) /\ ~Waits(w)
    /\ txn' = [txn EXCEPT ![w] = NoTxn]
    /\ UNCHANGED rows

Abort(w) ==
    /\ ~Idle(w)
    /\ txn' = [txn EXCEPT ![w] = NoTxn]
    /\ UNCHANGED rows

Customer(w) ==
    \E a \in Mailboxes :
        Verify(w, a) \/ \E u \in People : Register(w, u, a) \/ RegisterAgain(w, u, a)

Staff(w) ==
    \/ \E u \in People, a \in Addresses : CreateStaff(w, u, a) \/ UpdateStaff(w, u, a)
    \/ \E u \in People, a \in Mailboxes : ChangeEmail(w, u, a)

Next ==
    \E w \in Workers :
        Customer(w) \/ Staff(w) \/ Insert(w) \/ Commit(w) \/ Refuse(w) \/ Abort(w)

Spec == Init /\ [][Next]_vars

--------------------------------------------------------------------------------
(* Properties *)

(* auth/service.py: "a colliding placeholder must not be a 500", for a     *)
(* stale row is not a reason to refuse a customer.  Only a session that    *)
(* another one overtook meets a key it did not see.                        *)
RefusedOnlyIfOvertaken == [][\A w \in Workers : Refuse(w) => txn[w].beside]_vars

=============================================================================

------------------------------- MODULE Contact --------------------------------
(***************************************************************************)
(* What reaches a customer, as one system: support tickets and those who   *)
(* watch them; messages to many; the handsets pushes go to; the addresses  *)
(* people have; and notices under preferences that change.  They share no  *)
(* rows that matter to one another: `part` is chosen once and only that    *)
(* part takes steps.                                                       *)
(***************************************************************************)
EXTENDS Tickets

CONSTANTS
    Parts,                                          \* those that may take steps
    Customers, Rings,                               \* Outreach, Handsets
    Phones, NoOne,                                  \* Handsets
    People, Addresses, Norm, AdminEmail,            \* Accounts
    Categories, Controllable, Events, Payloads, Notices  \* Notify

ASSUME NobodyAssumption == NoOne \notin Customers
ASSUME RingsAssumption == Rings \in Nat
ASSUME AddressesAssumption ==
    /\ Norm \in [Addresses -> Addresses]
    /\ NoOne \notin Addresses \cup ({"derived", "drawn", "own"} \X (Addresses \cup People))
ASSUME CatalogueAssumption ==
    /\ "in_app" \notin Controllable
    /\ Events \subseteq [category : Categories, channels : SUBSET Controllable, force : BOOLEAN]
ASSUME PayloadsAssumption ==
    \A items \in Payloads : /\ DOMAIN items \subseteq Categories \X Controllable
                            /\ \A c \in DOMAIN items : items[c] \in {"on", "off"}

VARIABLES part
VARIABLES campaign, wants, dead, owners, recall, told, sendTxn, excused
VARIABLES holder, token, pushTxn, gone
VARIABLES email, phone, verified, portal, accountTxn
VARIABLES switchedOff, matrix, event, log, noticeTxn, left, silent, cut

send == <<campaign, wants, dead, owners, recall, told, sendTxn, excused>>
push == <<holder, token, pushTxn, gone>>
accounts == <<email, phone, verified, portal, accountTxn>>
notice == <<switchedOff, matrix, event, log, noticeTxn, left, silent, cut>>

Send == INSTANCE Outreach WITH txn <- sendTxn
Push == INSTANCE Handsets WITH txn <- pushTxn
Who == INSTANCE Accounts WITH txn <- accountTxn, Nobody <- NoOne
Notice == INSTANCE Notify WITH txn <- noticeTxn

(* What the parts that take no steps begin with makes no difference.       *)
ContactInit ==
    /\ part \in Parts
    /\ Init /\ Send!Init /\ Push!Init /\ Who!Init /\ Notice!Init
    /\ part # "send" => wants = {} /\ owners = {} /\ dead = {}
    /\ part # "who" => verified = {}

ContactNext ==
    \/ part = "tickets" /\ Next /\ UNCHANGED <<part, send, push, accounts, notice>>
    \/ part = "send" /\ Send!Next /\ UNCHANGED <<part, vars, push, accounts, notice>>
    \/ part = "push" /\ Push!Next /\ UNCHANGED <<part, vars, send, accounts, notice>>
    \/ part = "who" /\ Who!Next /\ UNCHANGED <<part, vars, send, push, notice>>
    \/ part = "notice" /\ Notice!Next /\ UNCHANGED <<part, vars, send, push, accounts>>

contactVars == <<part, vars, send, push, accounts, notice>>

ContactSpec == ContactInit /\ [][ContactNext]_contactVars

--------------------------------------------------------------------------------
(* Properties: those of the parts, under their names there. *)

(* Every part keeps its types. *)
ContactTypeOK ==
    /\ TypeOK
    /\ Send!TypeOK /\ Push!TypeOK /\ Who!TypeOK /\ Notice!TypeOK

(* notifications/service.py and warranty/service.py: told once. *)
ToldOnceUnlessRacedOrFailed == Send!ToldOnceUnlessRacedOrFailed

(* notifications/router.py: no push towards a phone its customer has left. *)
NoPushToTheDeparted == Push!NoPushToTheDeparted

(* notifications/models.py: the log says why a channel stayed silent. *)
EveryChannelAccounted == Notice!EveryChannelAccounted

(* auth/service.py: "a colliding placeholder must not be a 500". *)
RefusedOnlyIfOvertaken == Who!RefusedOnlyIfOvertaken

=============================================================================

# Elizade backend: specifications

TLA+ models of the backend in `src/` (FastAPI, SQLAlchemy 2, PostgreSQL), the
TLC runs that check them and the theorems TLAPS proves about them. The models
are translated from the code, not from the documentation. Where the two differ the
difference is listed under *Disagreements*: some are runs that fail on purpose, the
others are in the models, which allow what the code does.

## What makes this code hard

The program is a set of request handlers and two cron jobs over one database.
Almost everything that can go wrong comes from four facts about the session
(`app/core/database.py`):

* PostgreSQL runs READ COMMITTED and no query takes `FOR UPDATE`, so each
  statement of a handler sees a different database;
* the session does not autoflush: what a handler assigned stays in memory until
  a flush or the commit, while other requests commit;
* an ORM update is blind. It writes the changed columns `WHERE id = ...`,
  whatever the row holds by then, and writes nothing for a column whose new value
  equals the one loaded;
* side effects (mail, push) leave in the middle of the transaction, and one of
  them, pruning a dead push token, commits the caller's session.

A handler is therefore modelled as a few steps: what it loads, what it decides on
what it loaded, and its commit. A worker (`w`) is a request thread of the API or
one execution of a job; `pc[w]` says where it stands and `txn[w]`, `req[w]` or
`run[w]` what its session carries. Everything between two of its database
statements is one step. Handlers that write nothing decided on what they read
are one step.

## Inventory

| Component | State | Operations | What is hard | What makes it correct |
|---|---|---|---|---|
| Reservations, `sales/service.py`, `jobs/expire_reservations.py` | holds with status and expiry, the lead each opened | reserve, cancel, expire (and `--dry-run`) | checks and writes of several requests interleave; the job dies or commits half-way | one live hold per car; a car is released only when nobody holds it; sold stays sold; an unpaid hold ends |
| Vehicle availability and Notify Me, `inventory/service.py` | availability, subscriptions | `set_availability` (from the desk, reservations, ownership), subscribe | delivery fails inside the caller's transaction | nobody is marked as told without being told |
| Inventory: cars, galleries, sheets, `inventory/service.py` | cars and VINs, image rows, files | create, rename, delete, import, add and delete images | files take no part in transactions; one bad row inside a batch | every image has its file, one is primary; a sheet leaves no valid row out |
| Leads and test drives, `leads/`, `sales/service.py` | stage, closing times, events, the booking a lead came from | open (five ways), advance, win, lose, change, cancel or expire a booking | two records of one sale are kept in step by hand; events are dated by the start of a transaction | a booking that was completed or cancelled has a closed lead; the history ends where the lead stands |
| Sign-in codes, `auth/service.py`, `services/otp.py` | challenges and attempts | request, verify | attempts counted without a lock | a code is guessed at most five times and opens one session |
| Refresh tokens, `auth/refresh.py` | tokens in families | issue, rotate, reuse detection, sign out | two rotations of one token; a revocation that cannot see an uncommitted replacement | a token is exchanged once; an ended session stays ended |
| Accounts, `auth/service.py`, `staff/`, `users/` | addresses, placeholder phones, roles | register, verify, create and update staff, change e-mail | two unique columns, one derived from a value that moves | a customer is refused only for an address somebody took meanwhile |
| Ownership, warranty, merges, `ownership/`, `warranty/`, `customers/service.py` | requests, vehicles, certificates, claims, merged accounts | submit, documents, review, certify, claim, decide, merge | approval, claims and merges meet over the same rows | one garage per vehicle, one primary vehicle; a merge leaves nothing behind |
| Workshop, `service/service.py` | appointments, jobs, additional work, invoices, history, odometer | book, reschedule, confirm, start, complete, cancel, ask, answer | staff and customer change the same service at once | board and job agree; a job waits only while an answer is owed; the invoice is what was approved |
| Price book and board, `service/price_book_service.py`, `maintenance_service.py`, `status.py` | versions, intervals, margins, visits, odometer | import, publish, add and change intervals, record and edit visits | two kinds of limit; proof of service filtered by what was done | the last version published is shown; a vehicle that is due stays on the call list until served |
| Service reminders, `notifications/service.py`, `cadence.py`, `jobs/run_due_reminders.py` | rules, due dates, the dispatch log | sweep, evaluate one rule, switch a rule | mail leaves before the log commits; sweeps overlap; dates against instants | each reminder once; stages only tighten |
| Campaigns, recalls, `notifications/service.py`, `warranty/admin_router.py` | campaign status, recall rows, opt-ins | send, create a recall, notify owners | a send is cut in two by a dead token's commit | told once, unless two sends raced or one failed |
| Transactional notices and preferences, `notifications/notify.py`, `preferences.py`, `users/service.py` | switches, the matrix, the delivery log | notify, change the matrix, change the switches | preferences change while a notice goes out; the log commits at the end, or half-way | the log accounts for every channel; nothing leaves on a channel muted all the while |
| Devices and push, `notifications/router.py`, `services/push.py` | device tokens | register, unregister, send, prune | phones change hands while a push waits for its provider | no push towards a phone its customer has left |
| Support tickets, `support/` | tickets, numbers, messages, read marks | open, assign, resolve, reply over REST and socket, catch up | numbers counted, not drawn; `created_at` is the start of a transaction | numbers consecutive; a ticket that is done stays quiet; no gap for a socket |
| Realtime: hub, gateway, stream, `realtime/` | rooms, sockets, a pool of connections | handshake, join, frame, broadcast, drop, poll | every socket shares one loop and one pool | what waits for a frame or a poll holds no connection; each comes back |
| Branches, uploads, wording, analytics, seeds | single rows, files, queries | create, read, update | little | uniqueness |

How they interact: reservations and ownership approvals change availability
through `set_availability`, which alerts Notify Me subscribers through the mail
and push services; every sales request opens a lead, and its booking moves it;
deactivating an account (`staff/service.py`) bears on sign-in and refresh;
completing a service writes the odometer that warranty cover, the board and the
reminders read; staff and customers meet in tickets over REST and over the socket
gateway, which shares the connection pool with every request.

`PROJECT.json` lists every component with what is modelled of it, and every hazard
found at the line where it bites.

## Modules

| Module | Models |
|---|---|
| `Reservations` | holds, availability, Notify Me, leads as far as reservations touch them |
| `HoldBook` | the abstract reservation desk that `Reservations` implements while no two handlers have one car in hand |
| `Sessions` | one-time codes, sessions and refresh tokens of one account |
| `Accounts` | who has which address: registration, staff, changes of e-mail |
| `Reminders` | the service reminder sweep and its dispatch log |
| `Workshop` | appointments, jobs, additional work, invoices, history, odometer |
| `CarePlan` | price versions, service intervals, evidence of service, the call list |
| `Pipeline` | a lead, its booking, and the history its customer reads |
| `Garage` | ownership requests, vehicles, certificates, claims, and the merge of two customers |
| `Showroom` | cars, VINs, import sheets, galleries and their files |
| `Tickets` | numbering, status, messages; rooms, broadcasts, drops and catching up |
| `Gateway` | the connection pool under requests, sockets and streams on one event loop |
| `Outreach` | campaigns, safety recalls, opt-ins |
| `Handsets` | device tokens, and the pushes that read them |
| `Notify` | notices, the preferences they follow, and the log of their deliveries |
| `Contact` | `Tickets`, `Outreach`, `Handsets`, `Accounts` and `Notify` as one system: what reaches a customer |
| `BackOffice` | `Gateway`, `Pipeline`, `Garage`, `CarePlan` and `Showroom` as one system |
| `MC...` with its `.cfg` files | instances for TLC, with their bounds |
| `...Proofs` | theorems about `Reservations`, `Sessions`, `Reminders`, `Workshop`, `Handsets`, `Tickets`, and about `Contact` and `BackOffice` with all their parts |

Operators named as mutants in their comments are deliberate faults, used to see
that a property fails when the code is wrong; no specification uses them.

### Reservations

`availability`, `status`, `lapsed`, `lead` and `sub` are columns of the database;
`alerted` is a ghost. `txn[w]` is the session: `rows` are the reservations it will
write and `mark` the status they get, `seen` is the availability loaded with the
row, `dirty` the cars whose availability it changed, `told` the subscriptions it
will close.

* `CreateRead`, `CreateCheck`, `CreateCommit` are `create_reservation`; the id is
  drawn in memory (a UUID), so two sessions never share one.
* `CancelRead`, `CancelFlush`, `CancelCommit` are `cancel_my_reservation`.
* `SweepRead`, `SweepFlush`, `SweepRelease`, `SweepCommit`, `SweepDryRun` are
  `expire_due` and `main` of the job.
* `SetAvailability` and `Alert` are shared by all of them, and by `StatusRead`: the
  desk's change of status, which loses its transaction when delivery fails
  (`strict`), and the sale an ownership approval records, which does not.
* `Abort` is any exception, kill or restart.
* `TakePayment` is the branch, whose statuses `deposit_paid` and `confirmed` the code
  reads and nowhere sets.

`Alert` has the outcomes the code has: reached; failed with or without something
sent; and reached with a dead push token, when `drop_tokens` commits everything
the caller has written so far. The last exists only with the Expo transport
(`PushEnabled`). Row locks matter in one place: from the flush that updates a
reservation to the end of its transaction another update of it waits
(`LockedByOther`). Left out: ownership of the row and 404s, the lead's timeline (it
is in `Pipeline`), soft-deleted cars, more than one subscriber per car.

### Sessions

One account. `VerifyRead`/`VerifyCommit`/`IssueSession` are `verify_otp` and the
session the router opens; `RotateRead`/`RotateCommit`, `Reuse` and `SignOut` are
`refresh.rotate` and `revoke`. `RevokeFamily` updates the rows that exist when it
runs: the replacement a rotation in flight has inserted is not among them. An
expired challenge ends a request with nothing written, which is the same as the
request not being made. The fixed codes of store reviewers and their throttle
are left out. Ghosts: `source` (what each token was issued for), `guesses`,
`raced`, `ended`.

### Accounts

`email` and `phone` are the unique columns; a placeholder phone is `Derived` from
an address or, where that one is taken, `Drawn` at random, and stays behind when the
address moves. A customer's address is normalised (`Norm`); the portal stores what
was typed. `Insert` and `Commit` succeed, `Refuse` is the unique key, `Waits` an
insert that waits for another one to end. `beside` remembers that another session
committed since this one began. Sign-in itself is in `Sessions`.

### Reminders

`Start` lists the rules; `EvaluateRule` selects the vehicles and fixes the date;
`Remind` handles one vehicle; `Finish` commits the rule. The first rule of a sweep is as
it was listed (`listed`): its row is still in the session when `evaluate_rule` asks for it,
and only a commit makes the session read the next ones anew. The clock counts moments,
`MomentsPerDay` to a day, because the query compares instants and the cadence
compares dates. `Dispatch` has the outcomes of `dispatch_to_user`: delivered;
failed, and logged all the same; delivered and committed half-way by the pruning of
a dead token. A commit refused by `uq_reminder_dispatch_once` ends the whole sweep:
the session is unusable afterwards, and the `except` branch that should record the
error reads an attribute of it. `Service` is external: no code in `src/` writes
`next_service_due`. Stages are fixed for a run; editing a rule's stages under a
running cycle is not modelled.

### Workshop

A job is named by its appointment, whose `appointment_id` is unique. A handler
loads its appointment, job and vehicle (`Load`); the invoice and the additional
work of a job, and the slot check, are later statements (`CompleteBill`, `Answer`,
`RescheduleCheck`); `Commit` writes the changed columns. `Refused` is a unique key.
`raced` holds the rows committed while another handler had them in memory: the
code gives no guarantee about those, and the properties say so. `Move` is
`update_appointment`, which makes no slot check, and `moved` remembers it; `struck`
remembers history items staff deleted. Left out: bays, technicians, the stage
checklist, which no other handler reads to decide anything. Tax is always zero in
the code, so the invoice is the set of works it bills.

### CarePlan

One catalogue item and one vehicle. Publishing a price file and adding an interval
are read-then-insert sessions (`PublishRead`/`NumberRead`/`PublishCommit`,
`RuleRead`/`RuleCommit`) and may run two at once; `alone` remembers which did not. The
version to archive and the next number are two statements, with commits between them. The board is not stored:
`Picked`, `Proofs`, `Track`, `Severity` and `Due` translate `status.py`, evaluated on
the rules, the visits, the odometer and the day, and `OnCallList` is what an agent
sees. Zero stands for a NULL limit. Prices and their display are left out.

### Pipeline

A request is authenticated first (`Authenticate`), and with that query its transaction
begins: what it inserts is dated there, before its handler has loaded a lead. A lead is
opened by an enquiry, quotation, trade-in, test drive or reservation (`Open`), moved by
agents (`Advance`, `Close`), and moved by its booking: the booking's handler loads the
booking, then its lead by a second statement (`SyncLead`), then commits both. The expiry
sweep ends a reservation and does not look at the lead (`ExpireDue`). `Steps` and
`Timeline` are `leads/tracking.py`: what the customer reads, worked out from the events,
with the lead's own columns where events are missing. Leads older than the events, at any
stage, are initial states. Ghosts: `raced` holds leads of which two handlers had one row
in memory, and leads whose booking ended before there was code to relate the two;
`overtaken` leads one of whose events came late, dated before one that was there, or
before the lead. The two are different: two handlers that never hold a lead together may
commit in one order and be dated in the other.

### Garage

`vehicles` are named by the request that made them and the reviewer who approved:
two approvals of one request make two. `SubmitRead`/`SubmitCommit`, `AppendRead`,
`ReviewRead`, `Deliver` and `DecisionCommit` are the ownership service; an approval goes on
to ask whether the vehicle is somebody's (`OwnedCheck`) and whether its customer has a
primary one (`PrimaryCheck`), by statements of their own;
`CertificateRead`, `ClaimRead`, `IssueCommit`, `ClaimCommit` and `DecideClaim` the
warranty service, where `far` stands for a vehicle past the mileage its certificate
covers. `MergeRead` loads the two accounts; `MergeMove` updates one table after another
(`MergeOrder`: vehicles, certificates, claims, requests), and each keeps the rows it found
locked; what is inserted behind it stays. `MergeCommit` ends it. A
customer account that was merged is inactive, and handlers that loaded it before
still write for it (`raced`).

### Showroom

An import session checks a row, inserts it in a savepoint, and goes on; a VIN
another session has inserted and not committed makes it wait. A file is saved before
its row is committed and removed after the row is (`AddCommit`, `Unlink`). `Heirs` is
the choice of the next primary image. `freed` remembers VINs a car gave up, `raced`
the galleries two handlers had at once. Descriptive columns are left out.

### Tickets

Two kinds of process write: REST handlers on threads (`Workers`), and the event loop
(`Loop`), which runs one socket frame at a time. `thread` is a ticket's messages in
the order their rows committed; a message's `at` is its `created_at`, the start of its
transaction, so the two orders differ. A REST handler that is to write one has been
authenticated before it loads its ticket (`Authenticate`, `LoadToPost`), and the message is
dated there; a frame is a transaction of its own. `Commit` writes blindly and, for a frame,
broadcasts to the room after the commit; replies over REST reach nobody live (the hub
needs a running loop, which a thread has not). A client joins, asks for what it
missed after its `Cursor`, receives frames and drops. Attachments, ratings and
service-level settings are left out.

### Gateway

`at` is where a request, a socket or a stream stands, `pinned` who holds a connection,
`loop` whose turn it is on the event loop. What a coroutine does between two awaits is
synchronous: if it must wait for a connection, the loop waits, and so does every send
another coroutine has under way. `GiveUp` is the pool's timeout. A refused handshake
awaits its close, and a frame its sends, with the transaction open: `OnlyTheBusyHold`
names who may hold a connection, and these two are among them.

### Outreach

A send reads its segment once (`Start`), tells one customer at a time and commits at
the end; a dead token commits in the middle (`flushed`). A recall commits with every
owner it tells and stamps the row afterwards, so a stamp is saved by the next commit.
`excused` holds those told by two sends at once or by one that failed.

### Handsets

A registration loads the token's row and writes it at its commit; a row that was the
customer's already keeps the owner it has by then. Signing out deletes the row if it is
still the caller's. A push reads its tokens, then waits for the provider, which may
report some dead. `gone` holds the pairs of a phone and a customer who has left it.

### Notify

One customer. `Notify` begins a notice with the in-app row and the switches of the
user's row; `Suppress`, `Send` and `SendPruning` are the turns of its channels, each of
which asks for the matrix row by a statement of its own (`Wants`); `NotifyCommit` ends
the request, `Abort` is `safe_notify` rolling back, or a stop. A push that prunes a dead
token commits the log so far and makes the session load the switches again. `SetMatrix`
and `MatrixCommit` write the cells of one request that differ from what it found, and
fail where another request inserted the row meanwhile; `Switch` and `SwitchCommit`
rewrite the one column all switches share. The log is a set of rows: nothing reads
their order. Ghosts: `left` (what went out), `silent` (channels muted ever since a
notice began), `cut` (notices whose request did not end). Left out: rendering, read
marks, and the promotions' own opt-in, which no event of the catalogue meets.

## Runs

| Run | Bounds | Shows |
|---|---|---|
| `reservations_apart` | 2 workers that overlap but never have one car in hand, 2 cars, 3 holds, one Notify Me, dry runs, mock push | `Reservations` implements `HoldBook`; sold stays sold; told means alerted |
| `reservations_concurrent` | 2 workers, 1 car, 2 holds, one Notify Me, a deposit, sweeps and dry runs, Expo transport with commits half-way | an ended hold stays ended; a lapsed hold ends (liveness) |
| `sessions` | 2 workers, 2 codes, 3 tokens, 2 attempts | each guarantee of codes and tokens, with the race that is its only exception |
| `reminders` | 2 sweeps, 2 vehicles, 2 rules, one of them switched off and on, 1 stage and the overdue one, 3 moments of half a day | a reminder is repeated only beside or after a run that had not recorded it; none is forgotten; stages tighten |
| `workshop` | 2 workers, 1 vehicle; one service with 2 additional works, or 2 appointments over 2 times | board, job, approvals, invoice, history, odometer and calendar agree |
| `contact` | five parts, 2 workers each: `Tickets` (2 tickets, 2 messages, 2 clients), `Outreach` (2 customers), `Handsets` (2 customers, 2 phones), `Accounts` (2 people, 2 addresses, one of them also in capitals), `Notify` (1 notice of 2 events, 1 category, 2 channels, 3 changes of the matrix) | tickets are numbered, quiet when done, without gaps for sockets; each is told once; no push to the departed; a customer is refused only when overtaken; every channel of a notice is accounted for |
| `back_office` | five parts: `Gateway` (1 request, 3 sockets, 1 stream, a pool of 2), and with 2 workers each `Pipeline` (1 lead, 6 readings of the clock), `Garage` (2 customers, 2 requests, 1 VIN), `CarePlan` (3 versions, 2 intervals, 2 visits, 3 days), `Showroom` (2 cars, 2 VINs, 3 files, 3 sheets) | a connection that is taken comes back (liveness); lead, booking and history agree; one garage and one primary vehicle; a merge leaves nothing; the board shows the last version; due until served; galleries and imports |

`contact` and `back_office` run `Contact` and `BackOffice`, which hold several modules that
share no rows. Each is a sum, not a product: `part` is chosen in the initial state and
only that part takes steps, so every behaviour of every part is explored by itself, and a
property of one part is the module's own under its name there. A part that takes no steps
begins in one state, where its own initial states make no difference. What the parts do to one another is in the
modules: each has the requests of its domain, wherever in `src/` they live.

Every bound is a constant, marked *(a bound)* where it is declared, or a conjunct of
the CONSTRAINT of an `MC` module, named and explained there. A CONSTRAINT cuts
combinations of unrelated details (a merge beside a second claim; an import beside a
gallery), never a pair of handlers over the same rows. Why the bounds are enough: every
hazard listed is a conflict of two handlers over one or two rows, so two workers and
two rows of a kind exhibit it; a third hold lets a car keep a holder while another car
loses its last; three tokens make a chain, so that a token is spent, replaced and its
replacement raced; two works make one answer that must not resume the job and one that
must; two attempts make a first guess and a last; two messages make one that commits out of
order; three sockets exhaust a pool of two with the loop waiting; two intervals
make a model's own one that overrides the general one; three images make a primary, an
heir and one left. The reminders need a due date that moves (two dates on one vehicle),
a second vehicle in the same transaction, a midnight between two moments, and a second
rule that is switched off while a sweep is at the first.

The starting states of `Reservations` are any resting database (`Init`); its
instances take those where every car is on sale or reserved and every hold is
unused or pending, two holds on one car among them. `reservations_apart` begins with a
pending hold on either car, reserved before leads were opened (`lead_id` may be NULL), and
takes only the steps that the theorems below are about (`Apart`, its ACTION_CONSTRAINT). Its two workers are
interchangeable, so it checks one order of their names (a symmetry, sound because
nothing it checks is a liveness property). `Accounts` may start with its
seeded administrator, or with a customer whose address moved on before placeholders
did; `Pipeline` with leads at any stage from before events were recorded; `Outreach` with any
opt-ins, tokens and owners. The other modules start empty.

Deadlock is checked in every run but `back_office`, whose bounded histories end (the
last day, the last version, the last transaction) with every handler idle.

### Fairness

Two runs need it.

* `reservations_concurrent`. `Fairness` says that some handler that can go on does (weak
  fairness of `GoesOn`, one formula for all of them, because each is a thread of its own);
  a dry run goes on to its rollback too, or its row locks would stay. A sweep that is
  possible again and again is started, and not every one of them dry (the cron job), and
  handlers are not killed at the same point for ever: neither at the same step (strong
  fairness of the commits and of the steps a lock can disable), nor, while a sweep waits
  for a lock (`SweepWaits`), at the step that would give it up. Nothing is assumed of
  customers, staff, payments or delivery. The sweep is what makes the promise good:
  without fairness of `SweepRead` a hold lapses and stays.
* `back_office`, for `OneOfEachComesBack` (`ComesBack` of `Gateway`, for one of each kind of user). A request that has its connection
  responds, and one that waits for a connection gives up when `pool_timeout` is over
  (weak fairness of `Respond`, `WorkerGiveUp`, `GiveUp`); a coroutine whose turn it is
  goes on (weak fairness of `Leaves`); and a send that completes again and again between
  the turns of others is resumed (strong fairness of `Sent`), because asyncio's ready
  queue is first in, first out. Without `GiveUp` the property fails: sends that hold
  every connection wait for a loop that waits for a connection.

### Disagreements

Five are runs TLC must fail, and quote a line of the repository in `PROJECT.json`:

* `sold_walked_back`: a cancellation that loaded the car as reserved puts it back
  on sale after it was sold in between.
* `dry_run_not_dry`: with the Expo transport, pruning a dead token commits the dry
  run's changes.
* `disabled_not_signed_out`: deactivating an account leaves its tokens live.
* `told_twice`: two overlapping sweeps send the same reminder.
* `messages_missed`: a message that began earlier and committed later is older than
  what a client holds, and no later request returns it.

Others are said by a line of the repository and have no run of their own. The models
allow what the code does, and a property that a passing run checks names the case as its
exception:

* `auth/refresh.py:9`: "A token is therefore valid exactly once". Two rotations that load
  it at once both mint a replacement (`ExchangedOnceUnlessRaced`).
* `support/service.py:560`: "The REST and WebSocket paths must produce the SAME event". A
  REST handler runs on a thread, which has no running loop, and its reply is never
  broadcast (`NoGap` exempts `over = "rest"`).
* `realtime/ticket_gateway.py:93`: the transaction is "explicitly ended wherever this handler
  is about to wait on the network". A frame awaits its broadcast, and a refused handshake
  its close, with the transaction open and a connection taken (`OnlyTheBusyHold`).
* `service/service.py:690`: "A vehicle cannot have two active appointments in the same time
  slot". Two bookings at once can, and staff may move an appointment onto another one
  (`OneVehicleOneSlot`).
* `jobs/expire_reservations.py:23`: only holds "nobody has paid for" are released. A deposit
  taken between the sweep's query and its flush is overwritten (`LoadedHoldsStay`, the
  hypothesis of `HandlersKeepTheBook`).
* `leads/tracking.py:127`: "the history a customer is allowed to read, oldest first". Events
  are dated by the start of their transaction, at authentication, so two agents who never
  had the lead at once may be shown in the other order, and the history then ends at a
  stage the lead has left (`overtaken`). And the history of a lead that was open and past
  its first stage when events began ends at "submitted" until its next move (`Told`).
* `sales/service.py:547`: "THE LEAD USED TO SIT STILL" while its booking was over. That of a
  test drive or of a cancelled reservation no longer does; a reservation that expires still
  leaves its lead open (`Over` in `Pipeline` holds completed and cancelled only).

## Proofs

Theorems hold for every value of the constants under the assumptions declared in the
modules, all of them about what the constants are: which rows belong to which
(`CarOfAssumption`, `RowsAssumption`, `ClientsAssumption`), that "nobody" is nobody, that
an address normalises to an address, that numbers are numbers. TLC evaluates each in the
run whose module extends the one that declares it. A theorem that needs more says so.
There is no bound on workers, sockets or rows anywhere; the number of transactions,
versions and days stays a constant, of any size.

The argument is the same nearly everywhere. Nothing a handler reads is locked, so an
invariant about the tables alone is not inductive: a commit could write anything. What
makes it so is a clause about every session, which says what its blind write is going to
do to the tables as they are now. Loading establishes it; a commit of another session
leaves those rows alone or puts them among `raced`, and then the clause says nothing.

* `ReservationsProofs`. `NextSafe` shows once, action by action, that a step keeps
  `TypeOK` and `SessionsOwnTheirRows` and revives no ended hold: a hold stays ended
  only because no session carries a row another one is creating, a create carries only
  rows that do not exist, and what a cancellation or a sweep writes is an ended status.
  From it `TypeCorrect`, `SessionsOwnRows` and `EndedHoldsStayEnded`.

  Nothing in the code keeps two handlers off one car, and with two on one car sold cars are
  walked back (`sold_walked_back`) and double holds are made. What the code's checks do
  promise is the subject of the rest: any number of handlers at once, as long as no two
  have one car in hand (`CarsApart`: the car of a row a session has loaded, changed or is
  about to change). `NextKnows` is the argument for two of the theorems. What each session
  remembers is still true (`SessionsKnow`), and a step of another session writes only rows
  of the cars it has in hand (`WithinHands`), so it spares this one's (`OthersAreSpared`).
  From it `SoldStaysSold` and `NeverDoubleHeld`.

  `HandlersKeepTheBook` is the refinement: `Reservations` implements `HoldBook`, so every
  commit of the endpoints, the sweep and the desk is one step of the abstract desk.
  `SessionsCarry` says of each session which step it carries and how much of it has been
  worked out: a reservation whose car nobody holds once it has looked, or holds to close
  and the cars that this frees. It holds for both transports. The Expo transport's
  `drop_tokens` commits in the middle of a sweep that has several cars to free, so the book
  is `Piecemeal` then: one step ends the holds and frees some of the cars, and each later one
  frees another that nobody holds (`Release`), which a session whose holds are written
  already goes on to do (`Resumes`). Besides `CarsApart` it assumes `LoadedHoldsStay`:
  a payment, which is one request without a session in the model, is not taken for a
  hold that a session has loaded to end; the session would overwrite it.

  `NobodyIsClosedUnheard` needs no cars apart: a session closes only subscriptions whose
  subscriber it has reached (`ToldInv`), whoever else is at work on the car. Its one
  hypothesis is that none of those is opened anew before the commit
  (`NobodyResubscribes`). The hypotheses of these theorems together are `Apart`, which
  the run `reservations_apart` asks of each step.

  `DryRunsChangeNothing` holds for any number of handlers, given `~PushEnabled`: without
  the Expo transport a session writes at its commit only, and a dry run has none. With it
  the property is false, as `dry_run_not_dry` shows.
* `SessionsProofs`. The invariant adds four facts to the properties: a request in
  flight holds rows that exist (`InFlight`), no two requests mint one token
  (`Apart`), a token with a replacement is revoked (`Spent`) and so is a code with
  a session verified or raced, and an ended family has no rotation in flight
  (`Closed`). From it `SessionsTypeCorrect`, `TokensExchangedOnce`,
  `EndedSessionsStayEnded` and `CodesOpenOneSession`. `GuessesAreBounded` is a second,
  smaller invariant, `Counted`: of a challenge nobody checked twice at once the attempts
  are the guesses, and a check in flight is about to write one more.
* `RemindersProofs`. `LogStep` is the argument for the log, stated once for every
  step of a sweep: it keeps the log honest if each row it drops is logged, untold
  or excused (`Accounts`) and what it tells is in none of those places already and
  lands in one of them (`TellsNew`). `ToldIsRecorded` is what makes
  `ToldOnceUnlessRacedOrLost` inductive: a reminder told before and missing from the
  log is in some session's rows. `StagesTighten` is the lemma about `StageFor`
  from which `CadenceTightens` follows for any stages, with `ToldInStep`: a
  reminder only ever goes out on a day that calls for its stage.
* `WorkshopProofs`. Each session is described by what its commit would leave if it
  came now (`LeavesAgreeing`, `LeavesRunning`, `LeavesOwed`, `LeavesHigher`): the
  columns it writes on top of the tables as they are. From it `TypeCorrect`,
  `BoardAndJobAgree`, `NobodyWaitsForNothing` and `OdometerOnlyRises`. A second
  invariant beside it, `BooksInv`, does the same for bills, history and times: a session
  that completes a service has, once it has looked, a bill of what stands approved
  (`LeavesRecorded`), and one that gives a time has the vehicle in memory, so that who
  else gives one has raced for it (`LeavesSlot`). From it `CompletedIsRecorded`,
  `BilledIsApproved` and `NoDoubleBooking`.
* `TicketsProofs`. `TicketsNumberedInOrder` and `DoneStaysQuiet` follow from what a
  session that opens or answers a ticket holds (`Loaded`, `Quiet`). `CaughtUpMissNothing`
  is about a client that joins, asks after its cursor and receives frames in any
  interleaving with commits: a message is known by the time its transaction began, which
  no two share (`Timed`); frames on their way are in the order of the thread
  (`InboxOrdered`); and whatever precedes a message the client holds it holds too, unless it
  was sent over REST or committed late (`HeldClosed`). The last is what makes a cursor
  enough. `TicketsTypeCorrect` assumes finitely many tickets, for their count.
* `HandsetsProofs`. `DepartedHearNothing` is `NoPushToTheDeparted` for any number of
  customers and shared phones. What makes it inductive: a token names nobody who has left
  its phone (`OwnersStay`), because nobody counts as gone from a phone where a registration
  of theirs is under way (`RegistrantsStay`).
* `ContactProofs`, about the composition, so about the very definitions the run `contact`
  checks; `OnePartMoves` says that a step of the whole is a step of one part.
  * `ToldOnce`: while the session that told a customer is open it knows, and when it has
    ended the campaign's status or the owner's row does (`CampaignKnown`, `RecallKnown`), as
    long as no other was open beside it (`RacersExcused`).
  * `SharedPhonesGoQuiet`: `DepartedHearNothing`, through an instance of its module.
  * `LogAccountsForAll`: the rows of a notice, logged and drafted, are one for each channel
    its session has come to (`CameTo`), and a channel muted ever since the notice began is
    muted in the preferences the session goes by, however old (`GoesBy`): a cell of the
    matrix, once set, is never unset.
  * `RefusedWereOvertaken`: a session whose values were free when it began finds them
    free until another commits, and then it is `beside` it. A placeholder number is
    nobody else's, whoever's address it derives from (`NumberOf`).
  * `ContactTypeCorrect`.
* `BackOfficeProofs`, likewise about the composition.
  * `OnlyBusyHold`, of `Gateway` alone: who holds a connection is a request at work, the
    coroutine whose turn it is, or a socket whose sends or refusal are under way, and no more
    are out than the pool has. Waiting for a frame or between polls holds none. It assumes
    that requests and coroutines are different things (`Distinct`).
  * `BookingsCloseLeads`: a session that ends a booking, completed or cancelled, closes the
    lead or found it closed, and no session writes an open stage over a closed lead nobody
    raced for (`Knows`); so a lead is closed once, won or lost. The expiry of a
    reservation touches neither.
    `NewestEventIsTheStage`: the newest event of a lead names its stage, for leads none of
    whose events came late. Races need no exception here: each commit that moves a lead
    writes the stage and its event together, so only the order of dates can part them
    (`InTime`).
    `HistoriesEndWhereLeadsStand` carries this through `build_timeline`, for any number of
    events. `InOrderSorts` shows that the definition by rank sorts rows whose times differ:
    it is written by rank because the prover sees through no library sort. The fold is
    unfolded event by event (`FoldStepByStep`), and what `Collapse` keeps of each
    (`CollapseReads`) is carried to the last by least counterexample (`FoldReads`), since
    the library's induction theorems cannot be instantiated. The row written for a lead
    closed before there were events comes last (`OutcomeComesLast`).
  * `BoardShowsTheLast`: a session that publishes knows every published version that was
    published alone, and a number above all others (`PublishKnows`). That a finite set of
    numbers has a greatest one (`GreatestExists`) comes from well-founded induction on pairs.
    `DueStaysDue`: what an interval says of a visit grows with days and distance.
  * `OneGarageOnePrimary` and `MergesLeaveNothing`: an approval found no vehicle of its VIN
    and no primary one of its customer's, a merge has in hand all that its customer owns, and
    nobody writes for a customer who was merged, unless somebody else had the VIN, the
    request or the customer (`ReviewKnows`, `MergeKnows`, `NoneWrite`). The attempt to prove
    it showed that a customer can keep two primary vehicles with nothing raced: a merge into
    an account brings the other's primary vehicle along. `joined` names those accounts.
  * `GalleriesStaySound`: each image has a file of its own, what a session adds is not what
    another one adds, removes or promotes (`FilesOf`, `Apart`), and a session that alone has a
    gallery in memory knows how it stands (`GalleryKnows`). The proof needs that a file name
    never comes back while a session remembers it; the names are UUIDs, and `Unsaved` says so.
    `ImportsLeaveNoneOut`: of every row before the one it is at, an import has made a car, or
    knows of one.
  * `BackOfficeTypeCorrect`.

`SessionsOwnRows`, `NeverDoubleHeld`, `OnlyBusyHold` and `NewestEventIsTheStage` state
what no run checks: the first is the invariant behind `EndedHoldStaysEnded`, the others are
proved for every instance and so need none.

Model-checked only:

* `LapsedHoldEnds` and `OneOfEachComesBack`, liveness under fairness, out of the prover's
  reach;
* the five runs of *Disagreements*, which refute.

## Seen while modelling

What the code does beyond what is listed under *Disagreements*, where the repository
promises nothing or only in passing; the models allow all of it.

* Two reservations of a car at once both pass the check; two cancellations at once
  each see the other's hold and leave the car reserved for nobody.
* With the Expo transport, a sweep that is killed after `drop_tokens` committed its first
  cars leaves its holds expired and its other cars reserved for nobody: no later sweep
  looks at them again (`Piecemeal` in `HoldBook` allows it).
* An approved ownership request may be reviewed again and rejected: the vehicle it
  delivered stays with its owner. No property says what should become of it.
* A push that has read its tokens goes out to a phone its customer leaves meanwhile
  (`NoPushToTheDeparted` counts a push from that read).
* Two price files published at once leave two published versions, perhaps with one
  number; two general intervals added at once both stand, since NULL is not unique.
* A merge corrects neither primary flags nor tokens nor preferences, and may merge into
  an account that was merged itself: A into B, then B into A strands records, and leaves a customer with two primary vehicles (`joined`).
* `send_campaign` loses its status to an error after customers were told; an owner who
  buys after `create_recall` has no recall row.
* Two image deletions or additions at once may leave no primary image, or two; an upload
  that fails leaves its file; a deleted car keeps its VIN.
* A staff member's address keeps its capitals, so the normalised sign-in does not find
  it; unique violations are caught nowhere but in the import.
* A file in the gallery's storage is named by a fresh UUID: a name that comes back would
  make one image's deletion remove another's file (`Unsaved` says that it does not).
* A device registration in flight at sign-out brings the token back.
* The settings screen shows SMS as opt-in (`DEFAULTS` in `preferences.py`), but without a
  row `notify` falls back to the switch, which is on; reminders and campaigns ask the
  switches alone, not the matrix.
* A push to a customer without a device is logged as sent.
* Two changes of the switches at once: the later one rewrites the whole column and takes
  the earlier one back.

## Plan

1. Done: the modules, runs and proofs above. Every invariant and action property that a
   passing run checks is a theorem, but for those listed as model-checked only.
2. Model further: marketing rules and editing a rule's stages in `Reminders`; the fixed
   codes and their throttle in `Sessions`; ratings in `Tickets`.

## Not modelled

Mail and SMS wording, templates and transports (success or failure at their callers,
which are modelled); uploads and object storage apart from galleries; catalogue
queries, dashboards and analytics (they only read); branches, bays, technicians,
notes and descriptive columns (single rows nothing else decides on); migrations, seeds
and configuration (start-up scripts). Security properties, the fixed reviewer codes and
rate limits are not stated.

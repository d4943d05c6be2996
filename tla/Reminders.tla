------------------------------ MODULE Reminders ------------------------------
(***************************************************************************)
(* The service reminder sweep: evaluate_due_rules and evaluate_rule, the   *)
(* cadence arithmetic and the reminder_dispatches log that lets a cron run *)
(* it every day.                                                           *)
(*                                                                         *)
(* A run is one execution of the job, of the run-due endpoint or of a      *)
(* rule's evaluate endpoint; several may be at work at once.  Mail and push*)
(* leave the house while a rule is being evaluated; the log rows that say  *)
(* so are inserted when the rule is finished and the session commits.      *)
(*                                                                         *)
(* The clock counts moments, MomentsPerDay of them to a calendar day: the  *)
(* cadence compares dates, the query compares instants.                    *)
(***************************************************************************)
EXTENDS Integers, FiniteSets

CONSTANTS
    Runs,           \* sweeps at work at once
    Rules,          \* notification_rules with trigger service_due_soon
    Vehicles,       \* owned vehicles, each of one active customer
    Stages,         \* parse_stages(config.stages): days before the due date
    DaysBefore,     \* config.days_before, 0 when absent
    OverdueDays,    \* OVERDUE_STAGE is -OverdueDays
    MomentsPerDay,  \* resolution of the clock
    Horizon,        \* the last moment (a bound)
    DueMoments,     \* the next_service_due values of each vehicle (a bound)
    Unreachable,    \* vehicles whose owner's mail may bounce (a bound)
    Uninstalled,    \* vehicles whose owner may have a dead push token (a bound)
    Toggled         \* rules staff switch on and off (a bound)

ASSUME StagesAssumption == Stages \subseteq Nat /\ Stages # {} /\ IsFiniteSet(Stages)
ASSUME ClockAssumption ==
    /\ DaysBefore \in Nat /\ OverdueDays \in Nat \ {0}
    /\ MomentsPerDay \in Nat \ {0} /\ Horizon \in Nat
    /\ DueMoments \in [Vehicles -> SUBSET Nat]
ASSUME BoundsAssumption ==
    Unreachable \subseteq Vehicles /\ Uninstalled \subseteq Vehicles /\ Toggled \subseteq Rules

VARIABLES
    now,      \* the wall clock
    due,      \* owned_vehicles.next_service_due
    enabled,  \* rules whose is_active is set
    sent,     \* reminder_dispatches, committed
    pc,       \* where each run stands
    run,      \* each run's session
    told,     \* the days each reminder went out, as its run dates it (ghost)
    doubled,  \* reminders that went out more than once (ghost)
    excused   \* reminders sent by two runs at once, or by a run that ended
              \* without recording them (ghost)

world == <<now, due, enabled>>
ghosts == <<told, doubled, excused>>
vars == <<now, due, enabled, sent, pc, run,
          told, doubled, excused>>

Moments == 0 .. Horizon
Day(t) == t \div MomentsPerDay
OverdueStage == -OverdueDays

(* (rule, vehicle, milestone, stage): uq_reminder_dispatch_once *)
Milestones == UNION {DueMoments[v] : v \in Vehicles}
Keys == {k \in [rule : Rules, vehicle : Vehicles, milestone : Milestones,
                 stage : Stages \cup {OverdueStage}] :
            k.milestone \in DueMoments[k.vehicle]}
DueDates == {d \in [Vehicles -> Milestones] : \A v \in Vehicles : d[v] \in DueMoments[v]}

(* A run: the rules it has still to evaluate and whether it has them as it *)
(* listed them, the one it is evaluating and since when, the vehicles it   *)
(* has still to look at with their due dates as loaded, and the rows it    *)
(* will insert.                                                            *)
NoRun == [left |-> {}, listed |-> FALSE, rule |-> {}, at |-> 0, todo |-> {},
          seen |-> [v \in Vehicles |-> 0], rows |-> {}]

TypeOK ==
    /\ now \in Moments
    /\ due \in DueDates
    /\ enabled \subseteq Rules
    /\ sent \subseteq Keys
    /\ pc \in [Runs -> {"idle", "rules", "recipients"}]
    /\ \A w \in Runs :
          /\ run[w].left \subseteq Rules /\ run[w].rule \subseteq Rules
          /\ run[w].listed \in BOOLEAN /\ run[w].at \in Moments /\ run[w].todo \subseteq Vehicles
          /\ run[w].seen \in [Vehicles -> Milestones \cup {0}]
          /\ run[w].rows \subseteq {k \in Keys : k.rule \in run[w].rule}
          /\ run[w].rule = {} <=> pc[w] # "recipients"
    /\ told \in [Keys -> SUBSET {Day(t) : t \in Moments}]
    /\ doubled \subseteq Keys /\ excused \subseteq Keys

Init ==
    /\ now = 0
    /\ due \in DueDates
    /\ enabled = Rules
    /\ sent = {}
    /\ pc = [w \in Runs |-> "idle"]
    /\ run = [w \in Runs |-> NoRun]
    /\ told = [k \in Keys |-> {}]
    /\ doubled = {}
    /\ excused = {}

--------------------------------------------------------------------------------
(* Cadence *)

(* days_until: calendar days, not 24-hour blocks. *)
DaysUntil(d, t) == Day(d) - Day(t)

(* Mutant: the time left counted in whole 24-hour blocks. *)
StageForRaw(d, t) ==
    LET remaining == (d - t) \div MomentsPerDay
    IN IF remaining < 0 THEN {s \in {OverdueStage} : remaining >= s}
       ELSE {s \in Stages : /\ remaining <= s
                            /\ \A u \in Stages : remaining <= u => s <= u}

(* stage_for: the step a vehicle sits in, as a set of at most one.  Past   *)
(* the due date there is one follow-up, and then silence.                  *)
StageFor(d, t) ==
    LET remaining == DaysUntil(d, t)
    IN IF remaining < 0 THEN {s \in {OverdueStage} : remaining >= s}
       ELSE {s \in Stages : /\ remaining <= s
                            /\ \A u \in Stages : remaining <= u => s <= u}

(* The query's window, in days: never narrower than the widest stage. *)
Window == CHOOSE n \in Stages \cup {DaysBefore} :
              \A m \in Stages \cup {DaysBefore} : m <= n

(* _users_for_service_due_soon: instants, between the floor and deadline. *)
DueSoon(t) ==
    {v \in Vehicles : /\ due[v] <= t + Window * MomentsPerDay
                      /\ due[v] >= t - OverdueDays * MomentsPerDay}

--------------------------------------------------------------------------------
Goto(w, x, step) ==
    /\ pc' = [pc EXCEPT ![w] = step]
    /\ run' = [run EXCEPT ![w] = x]

(* The run ends and its open transaction is rolled back. *)
Die(w, rows) ==
    /\ Goto(w, NoRun, "idle")
    /\ excused' = excused \cup {k \in rows : told'[k] # {}}

(* The job and the run-due endpoint list every active rule; the evaluate   *)
(* endpoint takes one, and refuses an inactive one.                        *)
Start(w, rules) ==
    /\ pc[w] = "idle"
    /\ rules # {}
    /\ Goto(w, [NoRun EXCEPT !.left = rules, !.listed = TRUE], "rules")
    /\ UNCHANGED <<world, sent, ghosts>>

(* evaluate_rule up to its loop.  The first rule is in the session as it   *)
(* was listed; the commit after it expires the others, and one of these    *)
(* that was switched off since raises, is put down under errors, and the   *)
(* sweep goes on.                                                          *)
EvaluateRule(w, r) ==
    /\ pc[w] = "rules"
    /\ r \in run[w].left
    /\ LET x == [run[w] EXCEPT !.left = @ \ {r}, !.listed = FALSE]
       IN IF run[w].listed \/ r \in enabled
          THEN Goto(w, [x EXCEPT !.rule = {r}, !.at = now, !.todo = DueSoon(now),
                                 !.seen = due], "recipients")
          ELSE Goto(w, x, IF x.left = {} THEN "idle" ELSE "rules")
    /\ UNCHANGED <<world, sent, ghosts>>

InFlight == UNION {run[w].rows : w \in Runs}

Tell(k, t) ==
    /\ told' = [told EXCEPT ![k] = @ \cup {Day(t)}]
    /\ doubled' = IF told[k] # {} THEN doubled \cup {k} ELSE doubled

Race(keys) == excused' = excused \cup (keys \cap InFlight)

(* Mutant: the row is added before the push whose pruning commits, and the *)
(* session is thought to hold nothing afterwards.                          *)
DispatchForgetting(w, k, x) ==
    \/ /\ Tell(k, x.at)
       /\ Goto(w, [x EXCEPT !.rows = @ \cup {k}], "recipients")
       /\ Race({k})
       /\ UNCHANGED sent
    \/ /\ k.vehicle \in Unreachable
       /\ Goto(w, [x EXCEPT !.rows = @ \cup {k}], "recipients")
       /\ UNCHANGED <<sent, ghosts>>
    \/ /\ k.vehicle \in Uninstalled
       /\ x.rows \cap sent = {}
       /\ Tell(k, x.at)
       /\ sent' = sent \cup x.rows
       /\ Goto(w, [x EXCEPT !.rows = {}, !.seen = due], "recipients")
       /\ Race({k})
    \/ /\ k.vehicle \in Uninstalled
       /\ x.rows \cap sent # {}
       /\ Tell(k, x.at)
       /\ Die(w, x.rows \cup {k})
       /\ UNCHANGED sent

(* dispatch_to_user for reminder k, and the row it is logged by:           *)
(*   - delivered;                                                          *)
(*   - delivery raised with nothing sent: logged all the same;             *)
(*   - delivered, and a dead push token makes drop_tokens commit: the rows *)
(*     so far are inserted, and what was loaded is read afresh;            *)
(*   - delivered, and that commit hits the unique key: the session is      *)
(*     unusable, the handlers that would log the error raise too, and the  *)
(*     whole sweep ends.                                                   *)
Dispatch(w, k, x) ==
    \/ /\ Tell(k, x.at)
       /\ Goto(w, [x EXCEPT !.rows = @ \cup {k}], "recipients")
       /\ Race({k})
       /\ UNCHANGED sent
    \/ /\ k.vehicle \in Unreachable
       /\ Goto(w, [x EXCEPT !.rows = @ \cup {k}], "recipients")
       /\ UNCHANGED <<sent, ghosts>>
    \/ /\ k.vehicle \in Uninstalled
       /\ x.rows \cap sent = {}
       /\ Tell(k, x.at)
       /\ sent' = sent \cup x.rows
       /\ Goto(w, [x EXCEPT !.rows = {k}, !.seen = due], "recipients")
       /\ Race({k})
    \/ /\ k.vehicle \in Uninstalled
       /\ x.rows \cap sent # {}
       /\ Tell(k, x.at)
       /\ Die(w, x.rows \cup {k})
       /\ UNCHANGED sent

Key(x, v, s) == [rule |-> CHOOSE r \in x.rule : TRUE, vehicle |-> v,
                 milestone |-> x.seen[v], stage |-> s]

(* Mutant: the log is not asked. *)
RemindAlways(w, v) ==
    /\ pc[w] = "recipients"
    /\ v \in run[w].todo
    /\ LET x == [run[w] EXCEPT !.todo = @ \ {v}]
           new == {Key(x, v, s) : s \in StageFor(x.seen[v], x.at)}
       IN IF new = {}
          THEN Goto(w, x, "recipients") /\ UNCHANGED <<sent, ghosts>>
          ELSE \E k \in new : Dispatch(w, k, x)
    /\ UNCHANGED world

(* One vehicle of the loop: nothing to say at this step, said already, or  *)
(* a reminder.                                                             *)
Remind(w, v) ==
    /\ pc[w] = "recipients"
    /\ v \in run[w].todo
    /\ LET x == [run[w] EXCEPT !.todo = @ \ {v}]
           new == {Key(x, v, s) : s \in StageFor(x.seen[v], x.at)} \ sent
       IN IF new = {}
          THEN Goto(w, x, "recipients") /\ UNCHANGED <<sent, ghosts>>
          ELSE \E k \in new : Dispatch(w, k, x)
    /\ UNCHANGED world

(* Mutant: the next rule starts with the rows of the last one. *)
FinishKeeping(w) ==
    /\ pc[w] = "recipients"
    /\ run[w].todo = {}
    /\ IF run[w].rows \cap sent = {}
       THEN /\ sent' = sent \cup run[w].rows
            /\ Goto(w, [run[w] EXCEPT !.rule = {}],
                    IF run[w].left = {} THEN "idle" ELSE "rules")
            /\ UNCHANGED ghosts
       ELSE /\ UNCHANGED <<sent, told, doubled>>
            /\ Die(w, run[w].rows)
    /\ UNCHANGED world

(* The rule's commit.  Another run may have inserted one of the rows since *)
(* it was looked for: the unique key refuses, and the sweep ends there.    *)
Finish(w) ==
    /\ pc[w] = "recipients"
    /\ run[w].todo = {}
    /\ IF run[w].rows \cap sent = {}
       THEN /\ sent' = sent \cup run[w].rows
            /\ Goto(w, [NoRun EXCEPT !.left = run[w].left],
                    IF run[w].left = {} THEN "idle" ELSE "rules")
            /\ UNCHANGED ghosts
       ELSE /\ UNCHANGED <<sent, told, doubled>>
            /\ Die(w, run[w].rows)
    /\ UNCHANGED world

(* The process is killed. *)
Abort(w) ==
    /\ pc[w] # "idle"
    /\ UNCHANGED <<world, sent, told, doubled>>
    /\ Die(w, run[w].rows)

(* update_rule *)
SetActive(r, on) ==
    /\ (r \in enabled) # on
    /\ enabled' = IF on THEN enabled \cup {r} ELSE enabled \ {r}
    /\ UNCHANGED <<now, due, sent, pc, run, ghosts>>

(* Nothing in the application writes next_service_due; whoever records the *)
(* service outside it moves it on.                                         *)
Service(v, d) ==
    /\ d > due[v]
    /\ due' = [due EXCEPT ![v] = d]
    /\ UNCHANGED <<now, enabled, sent, pc, run, ghosts>>

Tick ==
    /\ now < Horizon
    /\ now' = now + 1
    /\ UNCHANGED <<due, enabled, sent, pc, run, ghosts>>

Sweep(w) ==
    \/ Start(w, enabled) \/ Finish(w) \/ Abort(w)
    \/ \E r \in enabled : Start(w, {r})
    \/ \E r \in Rules : EvaluateRule(w, r)
    \/ \E v \in Vehicles : Remind(w, v)

Next ==
    \/ \E w \in Runs : Sweep(w)
    \/ \E r \in Toggled, on \in BOOLEAN : SetActive(r, on)
    \/ \E v \in Vehicles : \E d \in DueMoments[v] : Service(v, d)
    \/ Tick

Spec == Init /\ [][Next]_vars

--------------------------------------------------------------------------------
(* Properties *)

(* docs/reminder-cron.md: "A vehicle receives each stage once".  What the  *)
(* log does guarantee: a reminder goes out again only beside another run   *)
(* that has not committed it, or after a run that never could.             *)
ToldOnceUnlessRacedOrLost == doubled \subseteq excused

(* A reminder that left the house is in the log, is about to be, or is one *)
(* of those exceptions: no path through the loop forgets a row.            *)
ToldIsRecorded ==
    \A k \in Keys : told[k] # {} => k \in sent \cup excused \cup InFlight

(* cadence.py: no two stages on one date, and never a wider stage after a  *)
(* tighter one ("sending the 30-day copy to someone with 3 days left would *)
(* be actively misleading"): as the runs date them, the stages a customer  *)
(* hears about one due date tighten from one day to the next.              *)
CadenceTightens ==
    \A j, k \in Keys :
        j.rule = k.rule /\ j.vehicle = k.vehicle /\ j.milestone = k.milestone =>
            \A t \in told[j], u \in told[k] :
                /\ t = u => j.stage = k.stage
                /\ t < u => k.stage <= j.stage

(* docs/reminder-cron.md, without those exceptions: "a retry, an           *)
(* overlapping run, or a manual trigger from the admin portal cannot       *)
(* double-notify anyone".                                                  *)
NobodyToldTwice == doubled = {}

=============================================================================

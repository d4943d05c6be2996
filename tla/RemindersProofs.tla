---------------------------- MODULE RemindersProofs ----------------------------
(***************************************************************************)
(* Proofs about Reminders, for any number of sweeps, rules, vehicles and   *)
(* stages, any resolution of the clock and any grace after the due date.   *)
(*                                                                         *)
(* Two arguments.  The cadence needs no log at all: a reminder carries the *)
(* stage its day calls for, and what a day calls for only tightens.  The   *)
(* log needs three facts at once: a reminder that went out is in the log,  *)
(* in some session's rows, or excused; so when one goes out again, not     *)
(* being in the log, another session holds its row, or it is excused.      *)
(***************************************************************************)
EXTENDS Reminders, TLAPS

RunType == [left : SUBSET Rules, listed : BOOLEAN, rule : SUBSET Rules, at : Moments,
            todo : SUBSET Vehicles, seen : [Vehicles -> Milestones \cup {0}],
            rows : SUBSET Keys]

(* A sweep at a rule's vehicles holds a due date for each of them. *)
Holds(x, step) ==
    /\ x.rows \subseteq {k \in Keys : k.rule \in x.rule}
    /\ x.rule = {} <=> step # "recipients"
    /\ step = "recipients" => x.seen \in DueDates

(* A reminder went out on days that called for its stage. *)
ToldInStep ==
    \A k \in Keys : \A t \in told[k] :
        \E m \in Moments : t = Day(m) /\ k.stage \in StageFor(k.milestone, m)

IInv ==
    /\ TypeOK
    /\ run \in [Runs -> RunType]
    /\ \A w \in Runs : Holds(run[w], pc[w])
    /\ ToldInStep
    /\ ToldIsRecorded
    /\ ToldOnceUnlessRacedOrLost

--------------------------------------------------------------------------------
(* The cadence *)

LEMMA DayInt == ASSUME NEW t \in Nat PROVE Day(t) \in Int
  BY ClockAssumption DEF Day

LEMMA StageForTyped ==
    ASSUME NEW d, NEW t, NEW s \in StageFor(d, t)
    PROVE  s \in Stages \cup {OverdueStage}
  BY DEF StageFor

(* The stage a later day calls for is no wider, and one day calls for one. *)
LEMMA StagesTighten ==
    ASSUME NEW d \in Nat, NEW m \in Nat, NEW n \in Nat,
           NEW j \in StageFor(d, m), NEW k \in StageFor(d, n), Day(m) <= Day(n)
    PROVE  k <= j /\ (Day(m) = Day(n) => k = j)
<1> DEFINE before == DaysUntil(d, m)
           after == DaysUntil(d, n)
<1>1. before \in Int /\ after \in Int /\ after <= before
      /\ (Day(m) = Day(n) => after = before)
  BY DayInt DEF DaysUntil
<1>2. OverdueStage \in Int /\ OverdueStage < 0
  BY ClockAssumption DEF OverdueStage
<1>3. /\ (before < 0) => (j = OverdueStage)
      /\ (after < 0) => (k = OverdueStage)
  BY DEF StageFor
<1>a. ASSUME ~(before < 0)
      PROVE  j \in Stages /\ before <= j /\ \A u \in Stages : before <= u => j <= u
  BY <1>a DEF StageFor
<1>b. ASSUME ~(after < 0)
      PROVE  k \in Stages /\ after <= k /\ \A u \in Stages : after <= u => k <= u
  BY <1>b DEF StageFor
<1>4. Stages \subseteq Nat
  BY StagesAssumption
<1> HIDE DEF before, after
<1>5. CASE after < 0
  <2>1. k = OverdueStage
    BY <1>3, <1>5
  <2>2. CASE before < 0
    BY <1>2, <1>3, <2>1, <2>2
  <2>3. CASE ~(before < 0)
    <3>1. j \in Nat
      BY <1>4, <1>a, <2>3
    <3> QED
      BY <1>1, <1>2, <1>5, <2>1, <2>3, <3>1
  <2> QED
    BY <2>2, <2>3
<1>6. CASE ~(after < 0)
  <2>1. ~(before < 0)
    BY <1>1, <1>6
  <2>2. j \in Nat /\ k \in Nat
    BY <1>4, <1>6, <1>a, <1>b, <2>1
  <2>3. after <= j
    BY <1>1, <1>a, <2>1, <2>2
  <2>4. k <= j
    BY <1>6, <1>a, <1>b, <2>1, <2>3
  <2>5. ASSUME Day(m) = Day(n) PROVE j <= k
    BY <1>1, <1>6, <1>a, <1>b, <2>1, <2>5
  <2> QED
    BY <2>2, <2>4, <2>5
<1> QED
  BY <1>5, <1>6

LEMMA MilestonesNat == Milestones \subseteq Nat
  BY ClockAssumption DEF Milestones

LEMMA MomentsNat == Moments \subseteq Nat
<1>1. Horizon \in Nat
  BY ClockAssumption
<1> QED
  BY <1>1 DEF Moments

LEMMA InStepTightens ==
    ASSUME TypeOK, ToldInStep
    PROVE  CadenceTightens
<1> SUFFICES ASSUME NEW j \in Keys, NEW k \in Keys, j.milestone = k.milestone,
                    NEW t \in told[j], NEW u \in told[k]
             PROVE  /\ t = u => j.stage = k.stage
                    /\ t < u => k.stage <= j.stage
  BY DEF CadenceTightens
<1>1. PICK m \in Moments : t = Day(m) /\ j.stage \in StageFor(j.milestone, m)
  BY DEF ToldInStep
<1>2. PICK n \in Moments : u = Day(n) /\ k.stage \in StageFor(k.milestone, n)
  BY DEF ToldInStep
<1>3. m \in Nat /\ n \in Nat /\ j.milestone \in Nat
  <2>1. j.milestone \in Milestones
    BY DEF Keys
  <2> QED
    BY <2>1, MilestonesNat, MomentsNat
<1>4. Day(m) \in Int /\ Day(n) \in Int
  BY <1>3, DayInt
<1>5. CASE Day(m) <= Day(n)
  BY <1>1, <1>2, <1>3, <1>4, <1>5, StagesTighten
<1>6. CASE ~(Day(m) <= Day(n))
  BY <1>1, <1>2, <1>4, <1>6
<1> QED
  BY <1>5, <1>6

--------------------------------------------------------------------------------
(* Sessions *)

LEMMA NoRunTyped == NoRun \in RunType /\ NoRun.rows = {} /\ NoRun.rule = {}
  BY ClockAssumption DEF NoRun, RunType, Moments

LEMMA DueSeen == ASSUME NEW d \in DueDates PROVE d \in [Vehicles -> Milestones \cup {0}]
  BY DEF DueDates

(* The reminder a sweep may send for a vehicle is a key of the log. *)
LEMMA KeyTyped ==
    ASSUME NEW x \in RunType, NEW v \in Vehicles, NEW s \in Stages \cup {OverdueStage},
           x.seen \in DueDates, x.rule # {}
    PROVE  /\ Key(x, v, s) \in Keys
           /\ Key(x, v, s).rule \in x.rule
           /\ Key(x, v, s).milestone = x.seen[v]
           /\ Key(x, v, s).stage = s
<1>1. (CHOOSE r \in x.rule : TRUE) \in x.rule
  OBVIOUS
<1>2. x.seen[v] \in DueMoments[v] /\ x.seen[v] \in Milestones
  BY DEF DueDates
<1> QED
  BY <1>1, <1>2 DEF Key, Keys, RunType

LEMMA InitIInv == Init => IInv
<1> SUFFICES ASSUME Init PROVE IInv
  OBVIOUS
<1>1. run \in [Runs -> RunType] /\ \A w \in Runs : run[w] = NoRun /\ pc[w] = "idle"
  BY NoRunTyped DEF Init
<1>2. TypeOK
  <2>1. now \in Moments
    BY ClockAssumption DEF Init, Moments
  <2>2. \A w \in Runs :
          /\ run[w].left \subseteq Rules /\ run[w].rule \subseteq Rules
          /\ run[w].listed \in BOOLEAN /\ run[w].at \in Moments /\ run[w].todo \subseteq Vehicles
          /\ run[w].seen \in [Vehicles -> Milestones \cup {0}]
          /\ run[w].rows \subseteq {k \in Keys : k.rule \in run[w].rule}
          /\ (run[w].rule = {} <=> pc[w] # "recipients")
    BY <1>1, NoRunTyped DEF RunType
  <2> QED
    BY <2>1, <2>2 DEF Init, TypeOK
<1>3. \A w \in Runs : Holds(run[w], pc[w])
  BY <1>1, NoRunTyped DEF Holds
<1>4. ToldInStep /\ ToldIsRecorded /\ ToldOnceUnlessRacedOrLost
  BY DEF Init, ToldInStep, ToldIsRecorded, ToldOnceUnlessRacedOrLost
<1> QED
  BY <1>1, <1>2, <1>3, <1>4 DEF IInv

(* A sweep's step from one place to another, rows kept or given up. *)
LEMMA GotoTyped ==
    ASSUME IInv, NEW w \in Runs, NEW x \in RunType,
           NEW step \in {"idle", "rules", "recipients"}, Goto(w, x, step), Holds(x, step)
    PROVE  /\ pc' \in [Runs -> {"idle", "rules", "recipients"}]
           /\ run' \in [Runs -> RunType]
           /\ \A u \in Runs : Holds(run[u], pc[u])'
           /\ run'[w] = x /\ \A u \in Runs \ {w} : run'[u] = run[u]
<1>1. pc \in [Runs -> {"idle", "rules", "recipients"}] /\ run \in [Runs -> RunType]
  BY DEF IInv, TypeOK
<1>2. /\ run'[w] = x /\ pc'[w] = step
      /\ \A u \in Runs \ {w} : run'[u] = run[u] /\ pc'[u] = pc[u]
  BY <1>1 DEF Goto
<1>3. ASSUME NEW u \in Runs PROVE Holds(run'[u], pc'[u])
  BY <1>2 DEF IInv
<1>4. \A u \in Runs : Holds(run[u], pc[u])'
  BY <1>3 DEF Holds
<1> QED
  BY <1>1, <1>2, <1>4 DEF Goto

(* What the sessions hold after such a step. *)
LEMMA RowsAfter ==
    ASSUME NEW w \in Runs, NEW x, run'[w] = x, \A u \in Runs \ {w} : run'[u] = run[u]
    PROVE  /\ InFlight \subseteq InFlight' \cup run[w].rows
           /\ (run[w].rows \subseteq x.rows) => (InFlight \subseteq InFlight')
           /\ x.rows \subseteq InFlight'
<1>1. ASSUME NEW k \in InFlight, k \notin run[w].rows PROVE k \in InFlight'
  <2>1. PICK u \in Runs : k \in run[u].rows
    BY DEF InFlight
  <2>2. k \in run'[u].rows
    BY <1>1, <2>1
  <2> QED
    BY <2>2 DEF InFlight
<1>2. x.rows \subseteq InFlight'
  BY DEF InFlight
<1> QED
  BY <1>1, <1>2

(* A step of a sweep keeps the log honest if what it drops from its rows   *)
(* is logged, untold or excused, and if what it tells is in none of those  *)
(* places already and lands in one of them.                                *)
Accounts(w, x) ==
    \A k \in run[w].rows : told'[k] # {} => k \in x.rows \cup sent' \cup excused'

TellsNew(x) ==
    \E k \in Keys, m \in Moments :
        /\ Tell(k, m)
        /\ k.stage \in StageFor(k.milestone, m)
        /\ k \notin sent
        /\ k \in InFlight => k \in excused'
        /\ k \in x.rows \cup sent' \cup excused'

LEMMA LogStep ==
    ASSUME IInv, NEW w \in Runs, NEW x \in RunType,
           NEW step \in {"idle", "rules", "recipients"}, Goto(w, x, step), Holds(x, step),
           UNCHANGED world, sent \subseteq sent', sent' \subseteq Keys,
           excused \subseteq excused', excused' \subseteq Keys,
           UNCHANGED <<told, doubled>> \/ TellsNew(x),
           Accounts(w, x)
    PROVE  IInv'
<1>1. /\ now' \in Moments /\ due' \in DueDates /\ enabled' \subseteq Rules
      /\ told \in [Keys -> SUBSET {Day(t) : t \in Moments}] /\ doubled \subseteq Keys
      /\ doubled \subseteq excused /\ ToldInStep /\ ToldIsRecorded
  BY DEF IInv, TypeOK, world, ToldOnceUnlessRacedOrLost
<1>2. /\ pc' \in [Runs -> {"idle", "rules", "recipients"}]
      /\ run' \in [Runs -> RunType]
      /\ \A u \in Runs : Holds(run[u], pc[u])'
      /\ run'[w] = x /\ \A u \in Runs \ {w} : run'[u] = run[u]
  BY GotoTyped
<1>3. InFlight \subseteq InFlight' \cup run[w].rows /\ x.rows \subseteq InFlight'
  BY <1>2, RowsAfter
<1>4. ASSUME UNCHANGED <<told, doubled>>
      PROVE  /\ told' \in [Keys -> SUBSET {Day(t) : t \in Moments}] /\ doubled' \subseteq Keys
             /\ ToldInStep' /\ ToldIsRecorded' /\ ToldOnceUnlessRacedOrLost'
  <2>1. ToldInStep'
    BY <1>1, <1>4 DEF ToldInStep
  <2>2. ToldIsRecorded'
    BY <1>1, <1>3, <1>4 DEF ToldIsRecorded, Accounts
  <2> QED
    BY <1>1, <1>4, <2>1, <2>2 DEF ToldOnceUnlessRacedOrLost
<1>5. ASSUME TellsNew(x)
      PROVE  /\ told' \in [Keys -> SUBSET {Day(t) : t \in Moments}] /\ doubled' \subseteq Keys
             /\ ToldInStep' /\ ToldIsRecorded' /\ ToldOnceUnlessRacedOrLost'
  <2>1. PICK k \in Keys, m \in Moments :
          /\ Tell(k, m)
          /\ k.stage \in StageFor(k.milestone, m)
          /\ k \notin sent
          /\ (k \in InFlight => k \in excused')
          /\ k \in x.rows \cup sent' \cup excused'
    BY <1>5 DEF TellsNew
  <2>2. /\ told'[k] = told[k] \cup {Day(m)}
        /\ \A j \in Keys \ {k} : told'[j] = told[j]
        /\ told' \in [Keys -> SUBSET {Day(t) : t \in Moments}]
    BY <1>1, <2>1 DEF Tell
  <2>3. ToldInStep'
    <3> SUFFICES ASSUME NEW j \in Keys, NEW t \in told'[j]
                 PROVE  \E n \in Moments : t = Day(n) /\ j.stage \in StageFor(j.milestone, n)
      BY DEF ToldInStep
    <3>1. CASE t \in told[j]
      BY <1>1, <3>1 DEF ToldInStep
    <3>2. CASE j = k /\ t = Day(m)
      BY <2>1, <3>2
    <3> QED
      BY <2>2, <3>1, <3>2
  <2>4. ToldIsRecorded'
    <3> SUFFICES ASSUME NEW j \in Keys, told'[j] # {}
                 PROVE  j \in sent' \cup excused' \cup InFlight'
      BY DEF ToldIsRecorded
    <3>1. CASE j = k
      BY <1>3, <2>1, <3>1
    <3>2. CASE j # k
      <4>1. j \in sent \cup excused \cup InFlight
        BY <1>1, <2>2, <3>2 DEF ToldIsRecorded
      <4> QED
        BY <1>3, <4>1 DEF Accounts
    <3> QED
      BY <3>1, <3>2
  <2>5. doubled' \subseteq doubled \cup {k} /\ (told[k] = {} => doubled' = doubled)
    BY <2>1 DEF Tell
  <2>6. ASSUME told[k] # {} PROVE k \in excused'
    BY <1>1, <2>1, <2>6 DEF ToldIsRecorded
  <2>7. ToldOnceUnlessRacedOrLost'
    BY <1>1, <2>5, <2>6 DEF ToldOnceUnlessRacedOrLost
  <2> QED
    BY <1>1, <2>2, <2>3, <2>4, <2>5, <2>7
<1>6. /\ told' \in [Keys -> SUBSET {Day(t) : t \in Moments}] /\ doubled' \subseteq Keys
      /\ ToldInStep' /\ ToldIsRecorded' /\ ToldOnceUnlessRacedOrLost'
  BY <1>4, <1>5
<1>7. TypeOK'
  <2>1. \A u \in Runs :
          /\ (run[u].left \subseteq Rules /\ run[u].rule \subseteq Rules)'
          /\ (run[u].listed \in BOOLEAN /\ run[u].at \in Moments /\ run[u].todo \subseteq Vehicles)'
          /\ (run[u].seen \in [Vehicles -> Milestones \cup {0}])'
          /\ (run[u].rows \subseteq {k \in Keys : k.rule \in run[u].rule})'
          /\ (run[u].rule = {} <=> pc[u] # "recipients")'
    BY <1>2 DEF RunType, Holds
  <2> QED
    BY <1>1, <1>2, <1>6, <2>1 DEF TypeOK
<1> QED
  BY <1>2, <1>6, <1>7 DEF IInv

--------------------------------------------------------------------------------
(* The steps of a sweep *)

LEMMA SessionTyped ==
    ASSUME IInv, NEW w \in Runs
    PROVE  /\ run[w] \in RunType /\ Holds(run[w], pc[w])
           /\ sent \subseteq Keys /\ excused \subseteq Keys
           /\ (pc[w] # "recipients") => (run[w].rows = {})
<1>1. run[w] \in RunType /\ Holds(run[w], pc[w])
  BY DEF IInv
<1>2. sent \subseteq Keys /\ excused \subseteq Keys
  BY DEF IInv, TypeOK
<1> QED
  BY <1>1, <1>2 DEF Holds

LEMMA StartIInv ==
    ASSUME IInv, NEW w \in Runs, NEW rules \in SUBSET Rules, Start(w, rules)
    PROVE  IInv'
<1> DEFINE x == [NoRun EXCEPT !.left = rules, !.listed = TRUE]
<1>1. x \in RunType /\ x.rows = {} /\ x.rule = {}
  BY NoRunTyped DEF NoRun, RunType
<1>2. Goto(w, x, "rules") /\ UNCHANGED <<world, sent, ghosts>> /\ run[w].rows = {}
  BY SessionTyped DEF Start
<1> HIDE DEF x
<1>3. Holds(x, "rules")
  BY <1>1 DEF Holds
<1>4. Accounts(w, x)
  BY <1>2 DEF Accounts
<1> QED
  BY <1>1, <1>2, <1>3, <1>4, LogStep, SessionTyped DEF ghosts

LEMMA EvaluateRuleIInv ==
    ASSUME IInv, NEW w \in Runs, NEW r \in Rules, EvaluateRule(w, r)
    PROVE  IInv'
<1> DEFINE y == run[w]
           x == [y EXCEPT !.left = @ \ {r}, !.listed = FALSE]
           z == [x EXCEPT !.rule = {r}, !.at = now, !.todo = DueSoon(now), !.seen = due]
           step == IF x.left = {} THEN "idle" ELSE "rules"
<1>1. y \in RunType /\ y.rows = {} /\ y.rule = {}
  BY SessionTyped DEF EvaluateRule, Holds
<1>2. now \in Moments /\ due \in DueDates /\ due \in [Vehicles -> Milestones \cup {0}]
  BY DueSeen DEF IInv, TypeOK
<1>3. DueSoon(now) \subseteq Vehicles
  BY DEF DueSoon
<1>4. UNCHANGED <<world, sent, ghosts>>
      /\ (Goto(w, z, "recipients") \/ Goto(w, x, step))
  BY DEF EvaluateRule
<1> HIDE DEF y
<1>5. x \in RunType /\ x.rows = {} /\ x.rule = {}
  BY <1>1 DEF RunType
<1>6. z \in RunType /\ z.rows = {} /\ z.rule = {r} /\ z.seen = due
  BY <1>1, <1>2, <1>3 DEF RunType
<1> HIDE DEF x, z
<1>7. Holds(x, step) /\ Holds(z, "recipients")
  BY <1>2, <1>5, <1>6 DEF Holds
<1>8. Accounts(w, x) /\ Accounts(w, z)
  BY <1>1 DEF Accounts, y
<1>9. CASE Goto(w, z, "recipients")
  BY <1>4, <1>6, <1>7, <1>8, <1>9, LogStep, SessionTyped DEF ghosts
<1>10. CASE Goto(w, x, step)
  BY <1>4, <1>5, <1>7, <1>8, <1>10, LogStep, SessionTyped DEF ghosts
<1> QED
  BY <1>4, <1>9, <1>10

(* A sweep that ends without committing excuses what it told. *)
LEMMA DieIInv ==
    ASSUME IInv, NEW w \in Runs, Die(w, run[w].rows), UNCHANGED <<world, sent, told, doubled>>
    PROVE  IInv'
<1>1. Goto(w, NoRun, "idle")
      /\ excused' = excused \cup {k \in run[w].rows : told'[k] # {}}
  BY DEF Die
<1>2. Holds(NoRun, "idle")
  BY NoRunTyped DEF Holds
<1>3. Accounts(w, NoRun)
  BY <1>1 DEF Accounts
<1>4. run[w].rows \subseteq Keys
  BY SessionTyped DEF Holds
<1>5. sent \subseteq Keys /\ excused \subseteq Keys
  BY SessionTyped
<1>6. excused \subseteq excused' /\ excused' \subseteq Keys /\ sent' = sent
  BY <1>1, <1>4, <1>5
<1> QED
  BY <1>1, <1>2, <1>3, <1>5, <1>6, NoRunTyped, LogStep

LEMMA FinishIInv ==
    ASSUME IInv, NEW w \in Runs, Finish(w)
    PROVE  IInv'
<1>1. CASE run[w].rows \cap sent = {}
  <2> DEFINE x == [NoRun EXCEPT !.left = run[w].left]
             step == IF run[w].left = {} THEN "idle" ELSE "rules"
  <2>1. sent' = sent \cup run[w].rows /\ Goto(w, x, step) /\ UNCHANGED <<world, ghosts>>
    BY <1>1 DEF Finish
  <2>2. run[w].left \subseteq Rules /\ run[w].rows \subseteq Keys /\ sent \subseteq Keys
        /\ excused \subseteq Keys
    BY SessionTyped DEF RunType
  <2>3. x \in RunType /\ x.rows = {} /\ x.rule = {}
    BY <2>2, NoRunTyped DEF NoRun, RunType
  <2> HIDE DEF x
  <2>4. Holds(x, step)
    BY <2>3 DEF Holds
  <2>5. Accounts(w, x)
    BY <2>1 DEF Accounts
  <2>6. sent \subseteq sent' /\ sent' \subseteq Keys /\ excused' = excused
        /\ UNCHANGED <<told, doubled>>
    BY <2>1, <2>2 DEF ghosts
  <2> QED
    BY <2>1, <2>2, <2>3, <2>4, <2>5, <2>6, LogStep
<1>2. CASE ~(run[w].rows \cap sent = {})
  BY <1>2, DieIInv DEF Finish
<1> QED
  BY <1>1, <1>2

LEMMA DispatchIInv ==
    ASSUME IInv, NEW w \in Runs, NEW x \in RunType, NEW k \in Keys,
           Holds(x, "recipients"), x.rows = run[w].rows, k.rule \in x.rule,
           k.stage \in StageFor(k.milestone, x.at), k \notin sent,
           Dispatch(w, k, x), UNCHANGED world
    PROVE  IInv'
<1>1. /\ sent \subseteq Keys /\ excused \subseteq Keys /\ x.at \in Moments
      /\ x.rows \subseteq Keys /\ x.rows \subseteq {j \in Keys : j.rule \in x.rule}
      /\ x.rule # {}
  BY SessionTyped DEF RunType, Holds
<1>2. due \in DueDates /\ due \in [Vehicles -> Milestones \cup {0}]
  BY DueSeen DEF IInv, TypeOK
<1>3. told'[k] # {} \/ ~Tell(k, x.at)
  <2>1. told \in [Keys -> SUBSET {Day(t) : t \in Moments}]
    BY DEF IInv, TypeOK
  <2> QED
    BY <2>1 DEF Tell
<1> DEFINE logged == [x EXCEPT !.rows = @ \cup {k}]
           afresh == [x EXCEPT !.rows = {k}, !.seen = due]
<1>4. /\ logged \in RunType /\ logged.rows = x.rows \cup {k}
      /\ logged.rule = x.rule /\ logged.seen = x.seen
  BY <1>1 DEF RunType
<1>5. /\ afresh \in RunType /\ afresh.rows = {k}
      /\ afresh.rule = x.rule /\ afresh.seen = due
  BY <1>1, <1>2 DEF RunType
<1>6. \/ /\ Tell(k, x.at)
         /\ Goto(w, logged, "recipients")
         /\ Race({k})
         /\ UNCHANGED sent
      \/ /\ Goto(w, logged, "recipients")
         /\ UNCHANGED <<sent, ghosts>>
      \/ /\ Tell(k, x.at)
         /\ sent' = sent \cup x.rows
         /\ Goto(w, afresh, "recipients")
         /\ Race({k})
      \/ /\ Tell(k, x.at)
         /\ Die(w, x.rows \cup {k})
         /\ UNCHANGED sent
  BY DEF Dispatch
<1> HIDE DEF logged, afresh
<1>7. Holds(logged, "recipients") /\ Holds(afresh, "recipients")
  BY <1>1, <1>2, <1>4, <1>5 DEF Holds
<1>8. CASE /\ Tell(k, x.at) /\ Goto(w, logged, "recipients")
           /\ Race({k}) /\ UNCHANGED sent
  <2>1. excused' = excused \cup ({k} \cap InFlight)
    BY <1>8 DEF Race
  <2>2. TellsNew(logged)
    BY <1>1, <1>4, <1>8, <2>1 DEF TellsNew
  <2>3. Accounts(w, logged)
    BY <1>4 DEF Accounts
  <2>4. excused \subseteq excused' /\ excused' \subseteq Keys
    BY <1>1, <2>1
  <2> QED
    BY <1>1, <1>4, <1>7, <1>8, <2>2, <2>3, <2>4, LogStep
<1>9. CASE Goto(w, logged, "recipients") /\ UNCHANGED <<sent, ghosts>>
  <2>1. Accounts(w, logged)
    BY <1>4 DEF Accounts
  <2> QED
    BY <1>1, <1>4, <1>7, <1>9, <2>1, LogStep DEF ghosts
<1>10. CASE /\ Tell(k, x.at) /\ sent' = sent \cup x.rows
            /\ Goto(w, afresh, "recipients") /\ Race({k})
  <2>1. excused' = excused \cup ({k} \cap InFlight)
    BY <1>10 DEF Race
  <2>2. TellsNew(afresh)
    BY <1>1, <1>5, <1>10, <2>1 DEF TellsNew
  <2>3. Accounts(w, afresh)
    BY <1>10 DEF Accounts
  <2>4. excused \subseteq excused' /\ excused' \subseteq Keys
        /\ sent \subseteq sent' /\ sent' \subseteq Keys
    BY <1>1, <1>10, <2>1
  <2> QED
    BY <1>5, <1>7, <1>10, <2>2, <2>3, <2>4, LogStep
<1>11. CASE Tell(k, x.at) /\ Die(w, x.rows \cup {k}) /\ UNCHANGED sent
  <2>1. /\ Goto(w, NoRun, "idle")
        /\ excused' = excused \cup {j \in x.rows \cup {k} : told'[j] # {}}
    BY <1>11 DEF Die
  <2>2. k \in excused'
    BY <1>3, <1>11, <2>1
  <2>3. TellsNew(NoRun)
    BY <1>1, <1>11, <2>2 DEF TellsNew
  <2>4. Accounts(w, NoRun)
    BY <2>1 DEF Accounts
  <2>5. excused \subseteq excused' /\ excused' \subseteq Keys
    BY <1>1, <2>1
  <2>6. Holds(NoRun, "idle")
    BY NoRunTyped DEF Holds
  <2> QED
    BY <1>1, <1>11, <2>1, <2>3, <2>4, <2>5, <2>6, NoRunTyped, LogStep
<1> QED
  BY <1>6, <1>8, <1>9, <1>10, <1>11

LEMMA RemindIInv ==
    ASSUME IInv, NEW w \in Runs, NEW v \in Vehicles, Remind(w, v)
    PROVE  IInv'
<1> DEFINE y == run[w]
           x == [y EXCEPT !.todo = @ \ {v}]
           new == {Key(x, v, s) : s \in StageFor(x.seen[v], x.at)} \ sent
<1>1. y \in RunType /\ Holds(y, "recipients")
  BY SessionTyped DEF Remind
<1>2. UNCHANGED world
      /\ \/ Goto(w, x, "recipients") /\ UNCHANGED <<sent, ghosts>>
         \/ \E k \in new : Dispatch(w, k, x)
  BY DEF Remind
<1> HIDE DEF y
<1>3. /\ x \in RunType /\ x.rows = y.rows /\ x.rule = y.rule
      /\ x.seen = y.seen /\ x.at = y.at
  BY <1>1 DEF RunType
<1> HIDE DEF x
<1>4. Holds(x, "recipients") /\ x.rows = run[w].rows
  BY <1>1, <1>3 DEF Holds, y
<1>5. CASE Goto(w, x, "recipients") /\ UNCHANGED <<sent, ghosts>>
  <2>1. Accounts(w, x)
    BY <1>4 DEF Accounts
  <2> QED
    BY <1>2, <1>3, <1>4, <1>5, <2>1, LogStep, SessionTyped DEF ghosts
<1>6. ASSUME NEW k \in new, Dispatch(w, k, x) PROVE IInv'
  <2>1. PICK s \in StageFor(x.seen[v], x.at) : k = Key(x, v, s)
    OBVIOUS
  <2>2. s \in Stages \cup {OverdueStage} /\ x.seen \in DueDates /\ x.rule # {}
    BY <1>4, StageForTyped DEF Holds
  <2>3. /\ k \in Keys /\ k.rule \in x.rule
        /\ k.milestone = x.seen[v] /\ k.stage = s
    BY <1>3, <2>1, <2>2, KeyTyped
  <2> QED
    BY <1>2, <1>3, <1>4, <1>6, <2>1, <2>3, DispatchIInv
<1> QED
  BY <1>2, <1>5, <1>6

--------------------------------------------------------------------------------
(* Every step *)

LEMMA SweepIInv ==
    ASSUME IInv, NEW w \in Runs, Sweep(w)
    PROVE  IInv'
<1>1. enabled \subseteq Rules
  BY DEF IInv, TypeOK
<1>2. ASSUME Start(w, enabled) PROVE IInv'
  BY <1>1, <1>2, StartIInv
<1>3. ASSUME NEW r \in enabled, Start(w, {r}) PROVE IInv'
  BY <1>1, <1>3, StartIInv
<1>4. ASSUME Finish(w) PROVE IInv'
  BY <1>4, FinishIInv
<1>5. ASSUME Abort(w) PROVE IInv'
  BY <1>5, DieIInv DEF Abort
<1>6. ASSUME NEW r \in Rules, EvaluateRule(w, r) PROVE IInv'
  BY <1>6, EvaluateRuleIInv
<1>7. ASSUME NEW v \in Vehicles, Remind(w, v) PROVE IInv'
  BY <1>7, RemindIInv
<1> QED
  BY <1>2, <1>3, <1>4, <1>5, <1>6, <1>7 DEF Sweep

(* Time, staff and services change nothing a sweep has loaded. *)
LEMMA WorldIInv ==
    ASSUME IInv, now' \in Moments, due' \in DueDates, enabled' \subseteq Rules,
           UNCHANGED <<sent, pc, run, ghosts>>
    PROVE  IInv'
<1>1. TypeOK'
  BY DEF IInv, TypeOK, ghosts
<1>2. ToldInStep' /\ ToldIsRecorded' /\ ToldOnceUnlessRacedOrLost'
  BY DEF IInv, ToldInStep, ToldIsRecorded, ToldOnceUnlessRacedOrLost, InFlight, ghosts
<1>3. \A w \in Runs : Holds(run[w], pc[w])'
  BY DEF IInv, Holds
<1> QED
  BY <1>1, <1>2, <1>3 DEF IInv

LEMMA NextIInv ==
    ASSUME IInv, [Next]_vars
    PROVE  IInv'
<1>1. now \in Moments /\ due \in DueDates /\ enabled \subseteq Rules
  BY DEF IInv, TypeOK
<1>2. ASSUME NEW w \in Runs, Sweep(w) PROVE IInv'
  BY <1>2, SweepIInv
<1>3. ASSUME NEW r \in Toggled, NEW on \in BOOLEAN, SetActive(r, on) PROVE IInv'
  BY <1>1, <1>3, WorldIInv, BoundsAssumption DEF SetActive
<1>4. ASSUME NEW v \in Vehicles, NEW d \in DueMoments[v], Service(v, d) PROVE IInv'
  <2>1. d \in Milestones
    BY DEF Milestones
  <2>2. due' \in DueDates
    BY <1>1, <1>4, <2>1 DEF Service, DueDates
  <2> QED
    BY <1>1, <1>4, <2>2, WorldIInv DEF Service
<1>5. ASSUME Tick PROVE IInv'
  <2>1. Horizon \in Nat
    BY ClockAssumption
  <2>2. now' \in Moments
    BY <1>1, <1>5, <2>1 DEF Tick, Moments
  <2> QED
    BY <1>1, <1>5, <2>2, WorldIInv DEF Tick
<1>6. CASE UNCHANGED vars
  BY <1>1, <1>6, WorldIInv DEF vars, world, ghosts
<1> QED
  BY <1>2, <1>3, <1>4, <1>5, <1>6 DEF Next

(* The strengthening is an invariant: every step of a sweep, of the clock,  *)
(* of staff and of the workshop keeps it.                                  *)
THEOREM Inductive == Spec => []IInv
<1>1. IInv /\ [Next]_vars => IInv'
  BY NextIInv
<1> QED
  BY <1>1, InitIInv, PTL DEF Spec

--------------------------------------------------------------------------------
(* Theorems *)

(* The log, the sessions and the clock keep their types: every row of      *)
(* reminder_dispatches is about a due date its vehicle had.                *)
THEOREM RemindersTypeCorrect == Spec => []TypeOK
<1>1. IInv => TypeOK
  BY DEF IInv
<1> QED
  BY <1>1, Inductive, PTL

(* No path through the sweep forgets a reminder that left the house, but   *)
(* for the ends that excuse it.                                            *)
THEOREM NothingToldIsForgotten == Spec => []ToldIsRecorded
<1>1. IInv => ToldIsRecorded
  BY DEF IInv
<1> QED
  BY <1>1, Inductive, PTL

(* A reminder goes out twice only beside a sweep that has not committed it *)
(* or after one that never could: however many rules, vehicles and sweeps. *)
THEOREM ToldOnce == Spec => []ToldOnceUnlessRacedOrLost
<1>1. IInv => ToldOnceUnlessRacedOrLost
  BY DEF IInv
<1> QED
  BY <1>1, Inductive, PTL

(* The stages a customer hears about one due date only tighten, whatever   *)
(* the stages are, however the sweeps overlap, and with or without the log.*)
THEOREM StagesOnlyTighten == Spec => []CadenceTightens
<1>1. IInv => CadenceTightens
  BY InStepTightens DEF IInv
<1> QED
  BY <1>1, Inductive, PTL

=============================================================================

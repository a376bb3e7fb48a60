------------------------- MODULE PreventiveGeneration -------------------------
(***************************************************************************)
(* When a preventive plan generates an occurrence: plans with their        *)
(* periodicity or hours threshold, the hours of the machines, and calls of *)
(* POST /preventive-occurrences/generate that overlap each other, the      *)
(* edits of the plans, the workflow and midnight.                          *)
(***************************************************************************)
EXTENDS Integers, FiniteSetsExt

CONSTANTS
    Workers,       \* threads that may serve a generation
    Plans,
    Machines,
    ClassOf,       \* equipement_class_id of each machine
    Definitions,   \* the definitions a plan may be given
    MaxDay,        \* bound on the calendar
    MaxHours,      \* bound on the hours of a machine
    Null

Days == 0 .. MaxDay
Hours == 0 .. MaxHours

ASSUME GenerationAssumption ==
    /\ MaxDay \in Nat /\ MaxHours \in Nat
    /\ Null \notin Nat
    /\ Machines = DOMAIN ClassOf
    /\ \A d \in Definitions :
           /\ d.trigger \in {"periodicity", "hours"}
           /\ d.trigger = "periodicity" => d.period \in Nat
           /\ d.trigger = "hours" => d.threshold \in Nat

Active == {"pending", "generated", "in_progress"}
Terminated == {"completed", "skipped"}

\* The UNIQUE constraint makes (plan, machine, scheduled_date) the key.
Keys == Plans \X Machines \X Days

\* by is the definition the call that generated the row had loaded.
Row == [status : Active \cup Terminated, hours : Hours \cup {Null},
        created : Days, by : Definitions]
PlanRow == [active : BOOLEAN, def : Definitions]

\* Null stands for the absence of a row.
ASSUME NullAssumption == Null \notin Row \cup PlanRow

VARIABLES
    day,    \* date.today()
    hours,  \* machine_hours.hours_total, Null without a row
    plan,   \* preventive_plan, Null without a row
    occ,    \* preventive_occurrence, Null without a row
    job,    \* the frame of the generation each worker serves
    torn    \* whether midnight or a plan's edit has fallen within a generation

vars == <<day, hours, plan, occ, job, torn>>
db == <<hours, plan, occ>>

\* A frame: the plans still to treat as they were loaded, the plan in hand with
\* its remaining machines, the machine in hand, and what was read for it.
Frame == [at : {"idle", "plans", "machines", "reference", "insert", "accept"},
          today : Days, todo : SUBSET (Plans \X Definitions),
          plan : Plans \cup {Null}, def : Definitions \cup {Null},
          machines : SUBSET Machines, machine : Machines \cup {Null},
          begun : Days, date : Days \cup {Null}, hours : Hours \cup {Null}]

Idle == [at |-> "idle", today |-> 0, todo |-> {}, plan |-> Null, def |-> Null,
         machines |-> {}, machine |-> Null, begun |-> 0, date |-> Null,
         hours |-> Null]

Init == /\ day = 0
        /\ hours = [m \in Machines |-> Null]
        /\ plan = [p \in Plans |-> Null]
        /\ occ = [k \in Keys |-> Null]
        /\ job = [w \in Workers |-> Idle]
        /\ torn = FALSE

------------------------------------------------------------------------------
(* What a generation reads *)

StatusOf(k) == IF occ[k] = Null THEN "none" ELSE occ[k].status
KeysOf(p, m) == {k \in Keys : k[1] = p /\ k[2] = m}
TerminatedKeys(p, m) == {k \in KeysOf(p, m) : StatusOf(k) \in Terminated}

\* Fault: an occurrence whose DI is not accepted yet is not seen.
StartedOnly(p, m) == \E k \in KeysOf(p, m) : StatusOf(k) = "in_progress"

ActiveExists(p, m) == \E k \in KeysOf(p, m) : StatusOf(k) \in Active

\* Fault: the next date counts from today.
DueFromToday(p, m, def, today) ==
    LET last == {k[3] : k \in TerminatedKeys(p, m)} IN
    {d \in {today} : last # {} => Max(last) + def.period <= d}

\* The date a periodic plan schedules, none when it is not due yet.
PeriodicDue(p, m, def, today) ==
    LET last == {k[3] : k \in TerminatedKeys(p, m)} IN
    {d \in {IF last = {} THEN today ELSE Max(last) + def.period} : d <= today}

\* ORDER BY created_at DESC LIMIT 1: those of one day were created in the order
\* of their dates.
LastCreated(p, m) ==
    CHOOSE k \in TerminatedKeys(p, m) :
        \A j \in TerminatedKeys(p, m) \ {k} :
            \/ occ[j].created < occ[k].created
            \/ occ[j].created = occ[k].created /\ j[3] < k[3]

\* hours_at_trigger of the last one, or 0
LastHours(p, m) ==
    IF TerminatedKeys(p, m) = {} \/ occ[LastCreated(p, m)].hours = Null THEN 0
    ELSE occ[LastCreated(p, m)].hours

\* Fault: the threshold is counted from zero.
DueSinceStart(p, m, def, today) ==
    {today : h \in {h \in {hours[m]} : h # Null /\ h >= def.threshold}}

\* The date an hours plan schedules: today, once the threshold is passed.
HoursDue(p, m, def, today) ==
    {today : h \in {h \in {hours[m]} : h # Null /\ h - LastHours(p, m) >= def.threshold}}

------------------------------------------------------------------------------
(* Generation *)

\* A call goes on with the next machine, the next plan, or returns.
Onward(f) ==
    IF f.machines # {}
    THEN [f EXCEPT !.at = "machines", !.machine = Null, !.date = Null,
                   !.hours = Null, !.begun = 0]
    ELSE IF f.todo # {} THEN [Idle EXCEPT !.at = "plans", !.today = f.today, !.todo = f.todo]
    ELSE Idle

\* generate_occurrences: today is read once, then the active plans.
StartGeneration(w) ==
    /\ job[w].at = "idle"
    /\ LET active == {p \in Plans : plan[p] # Null /\ plan[p].active} IN
       job' = [job EXCEPT ![w] =
           Onward([Idle EXCEPT !.today = day,
                               !.todo = {<<p, plan[p].def>> : p \in active}])]
    /\ UNCHANGED <<day, db, torn>>

\* _load_machines_for_class, for a plan as it was loaded
LoadMachines(w) ==
    /\ job[w].at = "plans"
    /\ LET f == job[w] IN
       \E t \in f.todo :
           job' = [job EXCEPT ![w] =
               Onward([f EXCEPT !.todo = f.todo \ {t}, !.plan = t[1], !.def = t[2],
                                !.machines = {m \in Machines : ClassOf[m] = t[2].class}])]
    /\ UNCHANGED <<day, db, torn>>

\* _generate_for_machine opens its transaction and looks for an active occurrence.
CheckActive(w) ==
    /\ job[w].at = "machines"
    /\ \E m \in job[w].machines :
           LET taken == [job[w] EXCEPT !.machines = @ \ {m}] IN
           job' = [job EXCEPT ![w] =
               IF ActiveExists(job[w].plan, m) THEN Onward(taken)
               ELSE [taken EXCEPT !.at = "reference", !.machine = m, !.begun = day]]
    /\ UNCHANGED <<day, db, torn>>

\* It reads its reference, the last date or the hours then and now, and goes on
\* when an occurrence is due.
ReadReference(w) ==
    /\ job[w].at = "reference"
    /\ LET f == job[w]
           periodic == f.def.trigger = "periodicity"
           due == IF periodic THEN PeriodicDue(f.plan, f.machine, f.def, f.today)
                  ELSE HoursDue(f.plan, f.machine, f.def, f.today)
       IN job' = [job EXCEPT ![w] =
              IF due = {} THEN Onward(f)
              ELSE [f EXCEPT !.at = "insert", !.date = CHOOSE d \in due : TRUE,
                             !.hours = IF periodic THEN Null ELSE hours[f.machine]]]
    /\ UNCHANGED <<day, db, torn>>

Generated(f) == [status |-> "generated", hours |-> f.hours, created |-> f.begun,
                 by |-> f.def]

\* ON CONFLICT DO NOTHING
NoConflict(f) == occ[<<f.plan, f.machine, f.date>>] = Null

\* The occurrence, its DI and its tasks, in one transaction.
Insert(w) ==
    /\ job[w].at = "insert"
    /\ LET f == job[w]
           k == <<f.plan, f.machine, f.date>>
       IN IF NoConflict(f)
          THEN /\ occ' = [occ EXCEPT ![k] = Generated(f)]
               /\ job' = [job EXCEPT ![w] = IF f.def.auto THEN [f EXCEPT !.at = "accept"]
                                            ELSE Onward(f)]
          ELSE /\ job' = [job EXCEPT ![w] = Onward(f)]
               /\ UNCHANGED occ
    /\ UNCHANGED <<day, hours, plan, torn>>

\* _auto_accept_occurrence: it asks for an intervention of type 'PREV', which
\* validate_type_inter refuses before anything is written; the refusal is logged.
AutoAccept(w) ==
    /\ job[w].at = "accept"
    /\ job' = [job EXCEPT ![w] = Onward(@)]
    /\ UNCHANGED <<day, db, torn>>

\* An exception while a machine is treated: the call goes on with the next one.
FailMachine(w) ==
    /\ job[w].at \in {"reference", "insert"}
    /\ job' = [job EXCEPT ![w] = Onward(@)]
    /\ UNCHANGED <<day, db, torn>>

GenerationStep(w) == LoadMachines(w) \/ CheckActive(w) \/ ReadReference(w)
                         \/ Insert(w) \/ AutoAccept(w) \/ FailMachine(w)

------------------------------------------------------------------------------
(* Everything else that goes on *)

Generating == \E w \in Workers : job[w].at # "idle"

\* POST /preventive-plans
CreatePlan(p, def) ==
    /\ plan[p] = Null
    /\ plan' = [plan EXCEPT ![p] = [active |-> TRUE, def |-> def]]
    /\ torn' = (torn \/ Generating)
    /\ UNCHANGED <<day, hours, occ, job>>

\* PATCH /preventive-plans/{id}, under preventive_plan_trigger_type_check
UpdatePlan(p, def) ==
    /\ plan[p] # Null
    /\ plan' = [plan EXCEPT ![p].def = def]
    /\ torn' = (torn \/ Generating)
    /\ UNCHANGED <<day, hours, occ, job>>

\* DELETE /preventive-plans/{id}: nothing makes the plan active again.
SoftDelete(p) ==
    /\ plan[p] # Null
    /\ plan' = [plan EXCEPT ![p].active = FALSE]
    /\ torn' = (torn \/ Generating)
    /\ UNCHANGED <<day, hours, occ, job>>

\* PATCH /preventive-occurrences/{id}/skip, and what the workflow does to the
\* occurrence when its DI is rejected or accepted and its intervention closed.
MoveOccurrence(k, from, to) ==
    /\ StatusOf(k) = from
    /\ occ' = [occ EXCEPT ![k].status = to]
    /\ UNCHANGED <<day, hours, plan, job, torn>>

SkipOccurrence(k) == MoveOccurrence(k, "pending", "skipped")
RejectRequest(k) == MoveOccurrence(k, "generated", "pending")
AcceptRequest(k) == MoveOccurrence(k, "generated", "in_progress")
CloseIntervention(k) == MoveOccurrence(k, "in_progress", "completed")

\* fn_machine_hours_update: time_spent inserted, or changed by delta
Work(m, delta) ==
    /\ delta < 0 => hours[m] # Null
    /\ LET total == (IF hours[m] = Null THEN 0 ELSE hours[m]) + delta IN
       /\ total <= MaxHours
       /\ hours' = [hours EXCEPT ![m] = IF total < 0 THEN 0 ELSE total]
    /\ UNCHANGED <<day, plan, occ, job, torn>>

Midnight == /\ day < MaxDay
            /\ day' = day + 1
            /\ torn' = (torn \/ Generating)
            /\ UNCHANGED <<db, job>>

------------------------------------------------------------------------------

PlanNext == \E p \in Plans : \/ \E def \in Definitions : CreatePlan(p, def) \/ UpdatePlan(p, def)
                             \/ SoftDelete(p)
OccurrenceNext == \E k \in Keys : SkipOccurrence(k) \/ RejectRequest(k) \/ AcceptRequest(k)
                                      \/ CloseIntervention(k)

Next == \/ \E w \in Workers : StartGeneration(w) \/ GenerationStep(w)
        \/ PlanNext
        \/ OccurrenceNext
        \/ \E m \in Machines, delta \in {-1, 1} : Work(m, delta)
        \/ Midnight

Spec == Init /\ [][Next]_vars

------------------------------------------------------------------------------
(* Properties *)

\* Rows and frames keep the values the schema and the code allow.
TypeOK ==
    /\ day \in Days
    /\ hours \in [Machines -> Hours \cup {Null}]
    /\ plan \in [Plans -> PlanRow \cup {Null}]
    /\ occ \in [Keys -> Row \cup {Null}]
    /\ job \in [Workers -> Frame]
    /\ torn \in BOOLEAN

\* Unless midnight or an edit of the plan falls within a generation, a machine
\* has one occurrence of a plan to deal with at a time, whatever else overlaps.
OneActiveOccurrence ==
    ~torn => \A j, k \in Keys :
        (/\ j[1] = k[1] /\ j[2] = k[2]
         /\ StatusOf(j) \in Active /\ StatusOf(k) \in Active) => j = k

\* A periodic plan then loses no period and repeats none, however late it is
\* called: each of its occurrences but the first is scheduled one period after
\* the one before, and none in the future.
CadenceKept ==
    ~torn => \A k \in Keys :
        StatusOf(k) # "none" /\ occ[k].by.trigger = "periodicity" =>
            LET before == {j[3] : j \in {i \in KeysOf(k[1], k[2]) :
                                             occ[i] # Null /\ i[3] < k[3]}}
            IN /\ k[3] <= day
               /\ before # {} => k[3] = Max(before) + occ[k].by.period

\* An hours plan never triggers twice for the same hours of work: two occurrences
\* in a row were triggered at least the threshold apart.
HoursApart ==
    ~torn => \A j, k \in Keys :
        (/\ j[1] = k[1] /\ j[2] = k[2] /\ j[3] < k[3]
         /\ occ[j] # Null /\ occ[k] # Null
         /\ \A d \in (j[3] + 1) .. (k[3] - 1) : occ[<<k[1], k[2], d>>] = Null
         /\ occ[j].by.trigger = "hours" /\ occ[k].by.trigger = "hours")
            => occ[k].hours - occ[j].hours >= occ[k].by.threshold

------------------------------------------------------------------------------
(* Stated by the documentation, and not what the code does *)

\* The plan's auto_accept creates the intervention too
\* (docs/endpoints/preventive-occurrences.md): once its generation has moved on,
\* such an occurrence is not left waiting as 'generated'.
AutoAcceptedOnceTreated ==
    \A k \in Keys :
        (StatusOf(k) = "generated" /\ occ[k].by.auto) =>
            \E w \in Workers : /\ job[w].at = "accept"
                               /\ k = <<job[w].plan, job[w].machine, job[w].date>>

==============================================================================

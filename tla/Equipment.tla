------------------------------- MODULE Equipment -------------------------------
(***************************************************************************)
(* The workflow of MaintenanceWorkflow with the columns the equipment      *)
(* pages, the lists and the menu count: which machine a row is about, what *)
(* is urgent or late, the actions recorded and the purchases they ask for. *)
(* Every endpoint is one step.                                             *)
(***************************************************************************)
EXTENDS MaintenanceWorkflow, FiniteSets, Functions

CONSTANTS
    Machines,     \* machine ids
    MachineRows,  \* the rows a client may give a machine
    Classes,      \* codes of equipement_class
    Actions,      \* intervention_action ids
    Purchases,    \* purchase_request ids
    HoursSpent,   \* the time_spent a client may give an action
    OpenLimit,    \* open interventions beyond which a machine is in 'warning' (5)
    LateLimit     \* late tasks from which it is in 'critical' (3)

OrNone(S) == S \cup {Null}
Seats == Requests \cup Interventions \cup Occurrences

\* class is equipement_class.code, allows the column interventions of the statut,
\* posted whether affectation is a text that is not blank.
MachineRow == [mother : OrNone(Machines), class : OrNone(Classes),
               allows : OrNone(BOOLEAN), posted : BOOLEAN]
ActionRecord == [inter : Interventions, tasks : SUBSET Tasks, hours : HoursSpent]

ASSUME EquipmentAssumption ==
    /\ MachineRows \subseteq MachineRow
    /\ HoursSpent \subseteq Nat /\ OpenLimit \in Nat /\ LateLimit \in Nat \ {0}
    /\ Null \notin Machines \cup Classes \cup Actions \cup Purchases \cup ActionRecord
    /\ Null \notin MachineRow \cup Statuts \cup InterventionStatuses

\* The tables are finite, and share no id.
ASSUME IdsAssumption ==
    /\ \A S \in {Requests, Interventions, Occurrences, Steps, ManualTasks, Machines,
                 Classes, Actions, Purchases} : IsFiniteSet(S)
    /\ Requests \cap Interventions = {} /\ Requests \cap Occurrences = {}
    /\ Interventions \cap Occurrences = {}

VARIABLES
    machine,  \* the machine table, Null without a row
    seat,     \* machine_id of the requests, interventions and occurrences
    urgent,   \* interventions of priority 'urgent'
    late,     \* tasks whose due_date is past
    action,   \* intervention_action, Null without a row
    asked     \* the action each purchase_request is linked to

columns == <<seat, urgent, late>>
evars == <<db, machine, seat, urgent, late, action, asked>>

EquipmentInit ==
    /\ Init
    /\ machine = [m \in Machines |-> Null]
    /\ seat = [x \in Seats |-> Null]
    /\ urgent = {} /\ late = {}
    /\ action = [k \in Actions |-> Null]
    /\ asked = [p \in Purchases |-> Null]

Existing == {m \in Machines : machine[m] # Null}

\* check_equipement_statut_allows_interventions: no statut allows.
Allows(m) == m \in Existing /\ machine[m].allows # FALSE

------------------------------------------------------------------------------
(* The endpoints of the workflow, with these columns *)

RequestOn(r, m) ==
    /\ CreateRequest(r)
    /\ Allows(m)
    /\ seat' = [seat EXCEPT ![r] = m]
    /\ UNCHANGED <<machine, urgent, late, action, asked>>

\* The generation does not look at the statut of the machine.
GenerateOn(o, r, m) ==
    /\ Generate(o, r)
    /\ m \in Existing
    /\ seat' = [seat EXCEPT ![o] = m, ![r] = m]
    /\ UNCHANGED <<machine, urgent, late, action, asked>>

UrgentIs(i, pressing) == urgent' = IF pressing THEN urgent \cup {i} ELSE urgent \ {i}

\* The tasks of the occurrence are attached as they are.
AcceptOn(r, i, pressing) ==
    /\ Accept(r, i)
    /\ Allows(seat[r])
    /\ seat' = [seat EXCEPT ![i] = seat[r]]
    /\ UrgentIs(i, pressing)
    /\ UNCHANGED <<machine, late, action, asked>>

\* POST /interventions names its own machine, and makes the tasks it attaches due on
\* its reported_date.
CreateOn(r, i, m, pressing, past) ==
    /\ CreateIntervention(r, i)
    /\ Allows(m)
    /\ seat' = [seat EXCEPT ![i] = m]
    /\ UrgentIs(i, pressing)
    /\ late' = IF past THEN late \cup TasksOf(db', i) ELSE late
    /\ UNCHANGED <<machine, action, asked>>

\* PUT /interventions/{id} with machine_id and priority: neither is validated.
EditOn(i, m, pressing) ==
    /\ LiveIntervention(db, i)
    /\ m \in Existing
    /\ seat' = [seat EXCEPT ![i] = m]
    /\ UrgentIs(i, pressing)
    /\ UNCHANGED <<db, machine, late, action, asked>>

DeleteOn(i) ==
    /\ DeleteIntervention(i)
    /\ seat' = [seat EXCEPT ![i] = Null]
    /\ urgent' = urgent \ {i}
    /\ UNCHANGED <<machine, late, action, asked>>

TaskOn(t, i, optional, past) ==
    /\ CreateTask(t, i, optional)
    /\ late' = IF past THEN late \cup {t} ELSE late
    /\ UNCHANGED <<machine, seat, urgent, action, asked>>

\* PATCH /intervention-tasks/{id} with due_date
ScheduleTask(t, past) ==
    /\ TaskEditable(t)
    /\ late' = IF past THEN late \cup {t} ELSE late \ {t}
    /\ UNCHANGED <<db, machine, seat, urgent, action, asked>>

DeleteTaskOn(t) ==
    /\ DeleteTask(t)
    /\ late' = late \ {t}
    /\ UNCHANGED <<machine, seat, urgent, action, asked>>

\* POST /intervention-actions: an action is linked to all the tasks of its list.
ActionOn(k, i, tags, hours) ==
    /\ AddAction(i, tags)
    /\ action[k] = Null
    /\ action' = [action EXCEPT ![k] = [inter |-> i, tasks |-> DOMAIN tags, hours |-> hours]]
    /\ UNCHANGED <<machine, columns, asked>>

\* PATCH /intervention-actions/{id}: other hours, more tasks, or both
PatchAction(k, tags, hours) ==
    /\ action[k] # Null
    /\ Editable(db, action[k].inter)
    /\ IF DOMAIN tags = {} THEN UNCHANGED db ELSE AddAction(action[k].inter, tags)
    /\ action' = [action EXCEPT ![k].tasks = @ \cup DOMAIN tags, ![k].hours = hours]
    /\ UNCHANGED <<machine, columns, asked>>

\* POST /purchase-requests for an action
Ask(p, k) ==
    /\ asked[p] = Null
    /\ action[k] # Null
    /\ asked' = [asked EXCEPT ![p] = k]
    /\ UNCHANGED <<db, machine, columns, action>>

\* The endpoints that leave these columns alone.
Progress ==
    /\ \/ \E r \in Requests : Hold(r) \/ Reject(r) \/ Close(r)
       \/ \E o \in Occurrences : Skip(o)
       \/ \E i \in Interventions, s \in InterventionStatuses : SetStatus(i, s) \/ LogStatus(i, s)
       \/ \E t \in Tasks, s \in PatchStatuses : PatchTask(t, s)
    /\ UNCHANGED <<machine, columns, action, asked>>

------------------------------------------------------------------------------
(* The equipment endpoints *)

\* The row written and, in the same transaction, the machines said to be children;
\* those it had before and that are not named stay.
Written(m, row, children) ==
    [n \in Machines |->
        LET old == IF n = m THEN row ELSE machine[n]
        IN IF n \in children /\ old # Null THEN [old EXCEPT !.mother = m] ELSE old]

WriteMachine(m, row, children) ==
    /\ row.mother \in OrNone(Existing \cup {m})
    /\ machine' = Written(m, row, children)
    /\ UNCHANGED <<db, columns, action, asked>>

AddMachine(m, row, children) ==
    /\ machine[m] = Null
    /\ row.mother # m
    /\ WriteMachine(m, row, children \ {m})

UpdateMachine(m, row, children) ==
    /\ m \in Existing
    /\ WriteMachine(m, row, children)

\* Requests, occurrences and children keep a machine; interventions lose it.
DeleteMachine(m) ==
    /\ m \in Existing
    /\ \A x \in Requests \cup Occurrences : seat[x] # m
    /\ \A n \in Existing \ {m} : machine[n].mother # m
    /\ machine' = [machine EXCEPT ![m] = Null]
    /\ seat' = [x \in Seats |-> IF seat[x] = m THEN Null ELSE seat[x]]
    /\ UNCHANGED <<db, urgent, late, action, asked>>

WorkNext ==
    \/ \E r \in Requests, m \in Machines :
           \/ RequestOn(r, m)
           \/ \E o \in Occurrences : GenerateOn(o, r, m)
           \/ \E i \in Interventions, b, past \in BOOLEAN : CreateOn(r, i, m, b, past)
    \/ \E i \in Interventions, b \in BOOLEAN :
           \/ \E r \in Requests : AcceptOn(r, i, b)
           \/ \E m \in Machines : EditOn(i, m, b)
    \/ \E i \in Interventions : DeleteOn(i)
    \/ \E t \in ManualTasks, i \in Interventions, optional, past \in BOOLEAN :
           TaskOn(t, i, optional, past)
    \/ \E t \in Tasks : DeleteTaskOn(t) \/ \E past \in BOOLEAN : ScheduleTask(t, past)
    \/ \E k \in Actions, i \in Interventions : \E T \in SUBSET TasksOf(db, i) :
           \E tags \in [T -> ActionModes], h \in HoursSpent :
               ActionOn(k, i, tags, h) \/ PatchAction(k, tags, h)
    \/ \E k \in Actions, p \in Purchases : Ask(p, k)
    \/ Progress

MachineNext ==
    \E m \in Machines :
        \/ DeleteMachine(m)
        \/ \E row \in MachineRows, children \in SUBSET Existing :
               AddMachine(m, row, children) \/ UpdateMachine(m, row, children)

EquipmentNext == WorkNext \/ MachineNext

------------------------------------------------------------------------------
(* Health *)

On(S, m) == {x \in S : seat[x] = m}
Live == {i \in Interventions : LiveIntervention(db, i)}
Opened(m) == {i \in On(Live, m) : db.intervention[i].status # "ferme"}
Asking == {r \in Requests : db.request[r].statut \in Statuts}
OpenRequests(m) == {r \in On(Asking, m) : db.request[r].statut \notin {"rejetee", "cloturee"}}
TodoOn(m) ==
    {t \in Tasks : /\ db.task[t].intervention # Null
                   /\ seat[db.task[t].intervention] = m
                   /\ db.task[t].status \in PendingTask}
ActionsOf(i) == {k \in Actions : action[k] # Null /\ action[k].inter = i}
AskedBy(k) == {p \in Purchases : asked[p] = k}
AskedOn(m) == {p \in Purchases : asked[p] # Null /\ seat[action[asked[p]].inter] = m}

\* What _fetch_health_inputs counts.  The column purchase_request.status is 'open'
\* from the creation on: every purchase asked for counts.
Metrics(m) ==
    LET opened == Opened(m)
        requests == OpenRequests(m)
        todo == TodoOn(m)
    IN [opened     |-> Cardinality(opened),
        urgent     |-> Cardinality(opened \cap urgent),
        requests   |-> Cardinality(requests),
        tasks      |-> Cardinality(todo),
        late       |-> Cardinality(todo \cap late),
        purchases  |-> Cardinality(AskedOn(m))]

Ranks == [ok |-> 0, maintenance |-> 1, warning |-> 2, critical |-> 3]

\* Fault: the late tasks are looked at after what is open.
FirstOpenFirst(n) ==
    IF n.urgent >= 1 THEN "critical"
    ELSE IF n.opened > OpenLimit THEN "warning"
    ELSE IF n.opened > 0 THEN "maintenance"
    ELSE IF n.late >= LateLimit THEN "critical"
    ELSE IF n.late > 0 THEN "warning" ELSE "ok"

\* The first rule that applies.
First(n) ==
    IF n.urgent >= 1 \/ n.late >= LateLimit THEN "critical"
    ELSE IF n.late > 0 \/ n.opened > OpenLimit THEN "warning"
    ELSE IF n.opened > 0 THEN "maintenance" ELSE "ok"

\* Any other work raises 'ok', and work without affectation 'maintenance'.
Level(n, posted) ==
    LET work == n.opened + n.requests + n.tasks + n.purchases > 0
        raised == IF First(n) = "ok" /\ work THEN "maintenance" ELSE First(n)
    IN IF work /\ ~posted /\ raised = "maintenance" THEN "warning" ELSE raised

Health(m) == Level(Metrics(m), machine[m].posted)

RequestLevel(S) ==
    IF S \cap urgent # {} THEN "critical"
    ELSE IF Cardinality(S) > OpenLimit THEN "warning"
    ELSE IF S # {} THEN "maintenance" ELSE "ok"

\* The health the lists of requests build for the machine, from its interventions. They
\* look the id of the closed status up by its code: the id is taken to be the code.
RequestHealth(m) == RequestLevel(Opened(m))

------------------------------------------------------------------------------
(* Lists, counts and facets *)

ClassOf(m) == machine[m].class
Selected(C) == {m \in Existing : ClassOf(m) \in C}

\* Fault: the machines without a class are neither selected nor excluded.
ExcludedClassed(C) == {m \in Existing : ClassOf(m) # Null /\ ClassOf(m) \notin C}

\* ec.code IS NULL OR ec.code NOT IN (...)
Excluded(C) == {m \in Existing : ClassOf(m) \notin C}
ClassFacets == [c \in OrNone(Classes) |-> Cardinality({m \in Existing : ClassOf(m) = c})]

StatutFacets == [s \in Statuts |-> Cardinality({r \in Asking : db.request[r].statut = s})]

\* The tasks shown with a request: those of its intervention or of its occurrences.
TasksShown(r) ==
    {t \in Tasks : /\ db.task[t].status \in TaskStatuses
                   /\ \/ /\ db.request[r].intervention # Null
                         /\ db.task[t].intervention = db.request[r].intervention
                      \/ /\ db.task[t].occurrence # Null
                         /\ db.occurrence[db.task[t].occurrence].request = r}

\* get_progress, of an intervention or of an occurrence
ProgressOf(S) == [
    total    |-> Cardinality(S),
    blocking |-> Cardinality({t \in S : db.task[t].status \in PendingTask
                                            /\ ~db.task[t].optional}),
    of       |-> [s \in TaskStatuses |-> Cardinality({t \in S : db.task[t].status = s})]]

GammeOf(o) == {t \in Tasks : db.task[t].occurrence = o}

\* GET /dashboard/summary; the purchases of the menu are requests for intervention.
Badges == [
    open     |-> Cardinality({i \in Live : db.intervention[i].status = "ouvert"}),
    tasks    |-> Cardinality({t \in Tasks : db.task[t].status \in PendingTask}),
    machines |-> Cardinality(Existing),
    requests |-> Cardinality({r \in Asking :
                    db.request[r].statut \in {"nouvelle", "en_attente", "acceptee"}}),
    pending  |-> Cardinality({o \in Occurrences :
                    db.occurrence[o].status = "pending" /\ db.occurrence[o].request # Null})]

------------------------------------------------------------------------------
(* The hours of an intervention *)

\* In its list, its page and its export: each action once.
HoursOf(i) == SumFunction([k \in ActionsOf(i) |-> action[k].hours])

\* In a request and in an action: the actions are joined with their purchases first.
ActionLinks(i) ==
    {l \in ActionsOf(i) \X OrNone(Purchases) : l[2] \in Picks(AskedBy(l[1])) \cup AskedBy(l[1])}
EmbeddedHours(i) == SumFunction([l \in ActionLinks(i) |-> action[l[1]].hours])

------------------------------------------------------------------------------
(* Properties *)

EquipmentTypeOK ==
    /\ db \in Database
    /\ machine \in [Machines -> OrNone(MachineRow)]
    /\ seat \in [Seats -> OrNone(Machines)]
    /\ urgent \subseteq Interventions /\ late \subseteq Tasks
    /\ action \in [Actions -> OrNone(ActionRecord)]
    /\ asked \in [Purchases -> OrNone(Actions)]

\* A step that only adds work to a machine, or takes its affectation away, never
\* improves its health: no rule of _calculate_health hides a worse one.
WorkNeverImproves ==
    [][\A m \in Existing \cap Existing' :
          \A before \in {Metrics(m)}, after \in {Metrics(m)'} :
             (/\ \A f \in DOMAIN before : before[f] <= after[f]
              /\ machine'[m].posted => machine[m].posted)
                 => Ranks[Level(before, machine[m].posted)]
                        <= Ranks[Level(after, machine'[m].posted)]]_evars

------------------------------------------------------------------------------
(* Stated by the documentation, and not what the code does *)

\* total_time is SUM(intervention_action.time_spent), wherever it is shown
\* (docs/API_REFERENCE.md).
HoursOnce == \A i \in Live : EmbeddedHours(i) = HoursOf(i)

\* A machine with no activity is 'ok' (docs/shared-schemas.md).
QuietMachineOk ==
    \A m \in Existing :
        Opened(m) = {} /\ OpenRequests(m) = {} /\ TodoOn(m) = {} => Health(m) = "ok"

==============================================================================

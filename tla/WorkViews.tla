------------------------------- MODULE WorkViews -------------------------------
(***************************************************************************)
(* The lists, the pages, the workspace of the technicians and the counts   *)
(* that the workflow endpoints answer with.  Each is a query of its own    *)
(* over the tables of Equipment, several on a connection of their own.     *)
(***************************************************************************)
EXTENDS Equipment

\* An empty list, and a parameter that is not given, filter nothing.
In(x, S) == S # {} => x \in S
Is(x, v) == v # Null => x = v

------------------------------------------------------------------------------
(* Interventions *)

\* The status, the machine and the priority asked for.
InterventionFilter == [machine : OrNone(Machines), status : SUBSET InterventionStatuses,
                       urgent : SUBSET BOOLEAN]

\* The WHERE clause that the list and its count build, each for itself.
Wanted(f, i) ==
    /\ Is(seat[i], f.machine)
    /\ In(db.intervention[i].status, f.status)
    /\ In(i \in urgent, f.urgent)

InterventionCount(f) == Cardinality({i \in Live : Wanted(f, i)})

\* The intervention and one of the requests linked to it.
InterventionRows(f) ==
    {l \in {i \in Live : Wanted(f, i)} \X OrNone(Requests) :
        l[2] \in Picks(RequestsLinkedTo(db, l[1])) \cup RequestsLinkedTo(db, l[1])}

AskedIn(i) == {p \in Purchases : asked[p] # Null /\ action[asked[p]].inter = i}

\* One row of the list.  The earliest due date is the one of any task, done or not.
ListedIntervention(i, r) == [
    request |-> r,
    machine |-> seat[i],
    health  |-> IF seat[i] = Null THEN Null ELSE Health(seat[i]),
    stats   |-> [actions   |-> Cardinality(ActionsOf(i)),
                 hours     |-> HoursOf(i),
                 purchases |-> Cardinality(AskedIn(i)),
                 tasks     |-> ProgressOf(TasksOf(db, i))],
    overdue |-> TasksOf(db, i) \cap late # {}]

------------------------------------------------------------------------------
(* Actions *)

\* The actions recorded on a task.
ActionsOn(t) == {k \in Actions : action[k] # Null /\ t \in action[k].tasks}

\* The actions of an intervention, of a task or of all, each with its purchases and
\* its tasks, which are read for the whole page at once.
ActionItem(k) == [action |-> k, purchases |-> AskedBy(k),
                  tasks |-> {t \in Tasks : k \in ActionsOn(t)}]
ActionItems(S) == {ActionItem(k) : k \in S}
ActionList(t) ==
    ActionItems({k \in Actions : action[k] # Null /\ (t # Null => k \in ActionsOn(t))})

\* The page of an action reads its purchases and its tasks for itself, and the hours
\* of its intervention from the joined rows.
ActionPage(k) == [item |-> ActionItem(k), hours |-> EmbeddedHours(action[k].inter)]

------------------------------------------------------------------------------
(* Tasks *)

TaskFilter == [intervention : OrNone(Interventions), machine : OrNone(Machines),
               status : SUBSET TaskStatuses, closed : BOOLEAN]

\* Done and skipped tasks are left out unless they are asked for.
TaskWanted(f, t) ==
    /\ db.task[t].status \in TaskStatuses
    /\ Is(db.task[t].intervention, f.intervention)
    /\ In(db.task[t].status, f.status)
    /\ f.closed \/ db.task[t].status \in PendingTask

TaskList(f) == {t \in Tasks : TaskWanted(f, t)}

\* The hours shown with a task, whatever shows it: the whole time of its actions.
TaskHours(t) == SumFunction([k \in ActionsOn(t) |-> action[k].hours])

\* The tasks of GET /tasks/workspace, grouped by intervention; a task that has none
\* is left out.
Workspace(f) ==
    LET shown == {t \in TaskList(f) :
                    /\ db.task[t].intervention # Null
                    /\ Is(seat[db.task[t].intervention], f.machine)}
    IN [i \in {db.task[t].intervention : t \in shown} |->
           {t \in shown : db.task[t].intervention = i}]

\* The counters above the workspace have no filter.
Counters == [s \in TaskStatuses |-> Cardinality({t \in Tasks : db.task[t].status = s})]

------------------------------------------------------------------------------
(* The page of an intervention *)

\* Its request is the first one of the join; its actions and its tasks are read on
\* connections of their own and counted from what was read.
InterventionPage(i, r) ==
    LET actions == ActionItems(ActionsOf(i)) IN [
    request   |-> r,
    actions   |-> actions,
    tasks     |-> TaskList([intervention |-> i, machine |-> Null, status |-> {},
                            closed |-> TRUE]),
    stats     |-> [actions   |-> Cardinality(actions),
                   hours     |-> SumFunction([a \in actions |-> action[a.action].hours]),
                   purchases |-> Cardinality(AskedIn(i)),
                   tasks     |-> ProgressOf(TasksOf(db, i))]]

Progression(tasks) == IF tasks = {} THEN Null ELSE ProgressOf(tasks)

------------------------------------------------------------------------------
(* Requests *)

RequestFilter == [statut : OrNone(Statuts), except : SUBSET Statuts, machine : OrNone(Machines)]

RequestWanted(f, r) ==
    /\ r \in Asking
    /\ Is(db.request[r].statut, f.statut)
    /\ db.request[r].statut \notin f.except
    /\ Is(seat[r], f.machine)

RequestList(f) == {r \in Requests : RequestWanted(f, r)}
RequestCount(f) == Cardinality(RequestList(f))

\* The intervention shown with a request: its figures come from the joined rows, and
\* it is never said to be late.
Embedded(r) ==
    LET i == db.request[r].intervention IN
    IF i = Null THEN Null
    ELSE [id |-> i, hours |-> EmbeddedHours(i), purchases |-> Cardinality(AskedIn(i)),
          overdue |-> FALSE]

\* The page of a request is its row in the list, with its log.
RequestPage(r) == [
    statut       |-> db.request[r].statut,
    health       |-> RequestHealth(seat[r]),
    intervention |-> Embedded(r),
    tasks        |-> TasksShown(r),
    logged       |-> db.request[r].logged]

------------------------------------------------------------------------------
(* Machines *)

\* The filters of the list: the classes selected, those excluded, and the mother.
MachineFilter == [select : SUBSET Classes, exclude : SUBSET Classes, mother : OrNone(Machines)]

MachineList(f) ==
    {m \in Excluded(f.exclude) : /\ In(ClassOf(m), f.select)
                                 /\ Is(machine[m].mother, f.mother)}

SubMachines(m) == {n \in Existing : machine[n].mother = m}

\* The occurrences in charge and those completed are not in the summary.
OccurrenceSummary(m) ==
    [s \in {"pending", "generated", "skipped"} |->
        Cardinality({o \in On(Occurrences, m) : db.occurrence[o].status = s})]

MachinePage(m) == [
    health        |-> Health(m),
    children      |-> Cardinality(SubMachines(m)),
    interventions |-> Cardinality(On(Live, m)),
    occurrences   |-> OccurrenceSummary(m),
    requests      |-> OpenRequests(m)]

\* GET /equipements/{id}/stats over the whole life of the machine
MachineStats(m) == [
    open      |-> Cardinality(Opened(m)),
    closed    |-> Cardinality(On(Live, m) \ Opened(m)),
    by_status |-> [s \in InterventionStatuses |->
                      Cardinality({i \in On(Live, m) : db.intervention[i].status = s})],
    urgent    |-> Cardinality(On(Live, m) \cap urgent)]

------------------------------------------------------------------------------
(* Properties *)

\* The lists of requests compute another health of the machine than its page does,
\* from its interventions alone; it is never worse than the page's.
HealthsAgree == \A m \in Existing : Ranks[RequestHealth(m)] <= Ranks[Health(m)]

\* What a filter takes and what it leaves are all the machines, the facets count
\* them, and the list of a mother's machines is the one her page counts.
FiltersPartition ==
    /\ \A C \in SUBSET Classes : Selected(C) \cup Excluded(C) = Existing
    /\ SumFunction(ClassFacets) = Cardinality(Existing)
    /\ \A m \in Existing :
           Cardinality(MachineList([select |-> {}, exclude |-> {}, mother |-> m]))
               = MachinePage(m).children

\* The list of interventions has as many rows as its count announces, though it is
\* joined with the requests and the count is not; and its rows show the figures of
\* the page, which counts what it read of the actions and of the tasks.
RowsMatchPages ==
    /\ \A m \in OrNone(Machines), s \in OrNone(InterventionStatuses) :
           LET f == [machine |-> m, status |-> {s} \ {Null}, urgent |-> {}]
           IN Cardinality(InterventionRows(f)) = InterventionCount(f)
    /\ \A i \in Live : \A r \in Picks(RequestsLinkedTo(db, i)) :
           LET row == ListedIntervention(i, r)
               page == InterventionPage(i, r)
           IN /\ page.stats = row.stats
              /\ Progression(page.tasks) \in {Null, row.stats.tasks}
              /\ UNION {a.tasks : a \in page.actions} \subseteq page.tasks
              /\ Cardinality(UNION {a.purchases : a \in page.actions}) = page.stats.purchases
              /\ r # Null => RequestPage(r).tasks = page.tasks

\* The hours shown under the tasks of an intervention are those of its actions, each as
\* many times as it has tasks: never less than those of the intervention, and more once
\* an action has two.  What is embedded elsewhere is the same for the request and the
\* action, and never less; and an action is listed alike with each of its tasks, with
\* its intervention and on its page.
HoursOnTasks ==
    /\ \A i \in Live :
           LET onTasks == SumFunction([t \in TasksOf(db, i) |-> TaskHours(t)])
           IN /\ onTasks = SumFunction([k \in ActionsOf(i) |->
                                Cardinality(action[k].tasks) * action[k].hours])
              /\ onTasks >= HoursOf(i)
    /\ \A k \in Actions : action[k] # Null =>
           LET i == action[k].inter
               page == ActionPage(k)
           IN /\ page.hours >= HoursOf(i)
              /\ \A r \in RequestsLinkedTo(db, i) :
                     /\ Embedded(r).hours = page.hours
                     /\ page.item \in InterventionPage(i, r).actions
              /\ \A t \in action[k].tasks \cup {Null} : page.item \in ActionList(t)

\* The workspace shows the tasks of a machine that its health counts; the menu counts
\* as well those that wait for their occurrence to be taken in charge, and no others.
WorkspaceAgrees ==
    LET open == [intervention |-> Null, machine |-> Null, status |-> {}, closed |-> FALSE]
        shown(f) == UNION {Workspace(f)[i] : i \in DOMAIN Workspace(f)}
    IN /\ \A m \in Machines : shown([open EXCEPT !.machine = m]) = TodoOn(m)
       /\ \A t \in TaskList(open) \ shown(open) :
              /\ db.task[t].occurrence # Null
              /\ db.occurrence[db.task[t].occurrence].intervention = Null
       /\ Badges.tasks = Counters["todo"] + Counters["in_progress"]

\* No task is shown with two requests, and those worked on are shown with one,
\* though some are found by their intervention and others by their occurrence.
TaskShownOnce ==
    \A t \in Tasks :
        LET shown == {r \in Asking : t \in TasksShown(r)}
        IN /\ Cardinality(shown) <= 1
           /\ db.task[t].status \in TaskStatuses /\ db.task[t].intervention # Null
                  => shown # {}

\* The facets, the counts by status and the badges of the menu add up to what the
\* lists hold, and an occurrence that was generated has its open request on the same
\* machine.
CountsAgree ==
    /\ \A m \in OrNone(Machines) :
           LET all == RequestCount([statut |-> Null, except |-> {}, machine |-> m])
           IN \A s \in Statuts :
                  RequestCount([statut |-> s, except |-> {}, machine |-> m])
                    + RequestCount([statut |-> Null, except |-> {s}, machine |-> m]) = all
    /\ \A s \in Statuts :
           StatutFacets[s] = RequestCount([statut |-> s, except |-> {}, machine |-> Null])
    /\ Badges.requests = StatutFacets["nouvelle"] + StatutFacets["en_attente"]
                            + StatutFacets["acceptee"]
    /\ \A m \in Existing :
           LET page == MachinePage(m)
               figures == MachineStats(m)
           IN /\ page.interventions = figures.open + figures.closed
              /\ figures.open = figures.by_status["ouvert"] + figures.by_status["in_progress"]
              /\ Metrics(m).urgent <= figures.urgent
              /\ page.occurrences["generated"] <= Cardinality(page.requests)
    /\ \A o \in Occurrences, i \in Live :
           db.occurrence[o].intervention = i
               => ProgressOf(GammeOf(o)) = ProgressOf(TasksOf(db, i) \cap PlanTasks)

\* The lists, their counts and the pages are computed by queries of their own, and
\* agree on what they show.
ListsAgree ==
    /\ FiltersPartition /\ CountsAgree /\ TaskShownOnce /\ HealthsAgree
    /\ RowsMatchPages /\ HoursOnTasks /\ WorkspaceAgrees

==============================================================================

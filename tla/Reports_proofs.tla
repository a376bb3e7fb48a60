----------------------------- MODULE Reports_proofs -----------------------------
(***************************************************************************)
(* Proofs for Reports, which adds machines, pages and statistics to the    *)
(* serial workflow: the invariant its endpoints keep, and what the lists,  *)
(* the pages and the statistics agree on, for any number of machines,      *)
(* requests, interventions, tasks and actions, and any catalogue, calendar *)
(* and thresholds.                                                         *)
(***************************************************************************)
EXTENDS Reports, MaintenanceWorkflow_proofs, FiniteSetTheorems, WellFoundedInduction

------------------------------------------------------------------------------
(* The columns of the pages change nothing of the workflow. *)

\* An action that names tasks is recorded on the intervention of these tasks; a PATCH
\* that names none leaves the workflow alone.
LEMMA ActionOrNot ==
    ASSUME NEW k \in Actions, NEW i \in Interventions, NEW T \in SUBSET TasksOf(db, i),
           NEW tags \in [T -> ActionModes], NEW h,
           ActionOn(k, i, tags, h) \/ PatchAction(k, tags, h)
    PROVE  AddAction(i, tags) \/ UNCHANGED db
<1>1. CASE ActionOn(k, i, tags, h)
  BY <1>1 DEF ActionOn
<1>2. CASE PatchAction(k, tags, h)
  <2>1. CASE T = {}
    BY <1>2, <2>1 DEF PatchAction
  <2>2. CASE T # {}
    <3>1. PICK t \in T : db.task[t].intervention = i
      BY <2>2 DEF TasksOf
    <3>2. AddAction(action[k].inter, tags)
      BY <1>2, <2>2 DEF PatchAction
    <3>3. action[k].inter = i
      BY <3>1, <3>2 DEF AddAction
    <3> QED BY <3>2, <3>3
  <2> QED BY <2>1, <2>2
<1> QED BY <1>1, <1>2

LEMMA WorkSteps ==
    ASSUME EquipmentNext
    PROVE  [Next]_db
<1>1. ASSUME WorkNext PROVE [Next]_db
  <2>1. ASSUME NEW r \in Requests, NEW m \in Machines, RequestOn(r, m) PROVE Next
    BY <2>1 DEF RequestOn, Next, RequestNext
  <2>2. ASSUME NEW r \in Requests, NEW m \in Machines, NEW o \in Occurrences, GenerateOn(o, r, m)
        PROVE  Next
    BY <2>2 DEF GenerateOn, Next, RequestNext
  <2>3. ASSUME NEW r \in Requests, NEW m \in Machines, NEW i \in Interventions,
               NEW b \in BOOLEAN, NEW past \in BOOLEAN, CreateOn(r, i, m, b, past)
        PROVE  Next
    BY <2>3 DEF CreateOn, Next, InterventionNext
  <2>4. ASSUME NEW i \in Interventions, NEW b \in BOOLEAN, NEW r \in Requests, AcceptOn(r, i, b)
        PROVE  Next
    BY <2>4 DEF AcceptOn, Next, RequestNext
  <2>5. ASSUME NEW i \in Interventions, DeleteOn(i) PROVE Next
    BY <2>5 DEF DeleteOn, Next, InterventionNext
  <2>6. ASSUME NEW t \in ManualTasks, NEW i \in Interventions, NEW optional \in BOOLEAN,
               NEW past \in BOOLEAN, TaskOn(t, i, optional, past)
        PROVE  Next
    BY <2>6 DEF TaskOn, Next, TaskNext
  <2>7. ASSUME NEW t \in Tasks, DeleteTaskOn(t) PROVE Next
    BY <2>7 DEF DeleteTaskOn, Next, TaskNext
  <2>8. ASSUME NEW k \in Actions, NEW i \in Interventions, NEW T \in SUBSET TasksOf(db, i),
               NEW tags \in [T -> ActionModes], NEW h \in HoursSpent,
               ActionOn(k, i, tags, h) \/ PatchAction(k, tags, h)
        PROVE  [Next]_db
    BY <2>8, ActionOrNot DEF Next, TaskNext
  <2>9. ASSUME Progress PROVE Next
    BY <2>9 DEF Progress, Next, RequestNext, InterventionNext, TaskNext
  <2>10. ASSUME \/ \E i \in Interventions, b \in BOOLEAN, m \in Machines : EditOn(i, m, b)
                \/ \E t \in Tasks, past \in BOOLEAN : ScheduleTask(t, past)
                \/ \E p \in Purchases, k \in Actions : Ask(p, k)
         PROVE  UNCHANGED db
    BY <2>10 DEF EditOn, ScheduleTask, Ask
  <2> QED BY <1>1, <2>1, <2>2, <2>3, <2>4, <2>5, <2>6, <2>7, <2>8, <2>9, <2>10 DEF WorkNext
<1>2. ASSUME MachineNext PROVE UNCHANGED db
  BY <1>2 DEF MachineNext, DeleteMachine, AddMachine, UpdateMachine, WriteMachine
<1> QED BY <1>1, <1>2 DEF EquipmentNext

LEMMA ReportSteps == [ReportsNext]_rvars => [Next]_db
BY WorkSteps DEF ReportsNext, rvars, evars

\* What the equipment pages add leaves the workflow as it is: every behaviour of the
\* reports is one of the endpoints of MaintenanceWorkflow, and what is proved of these
\* holds under the lists.
THEOREM WorkflowKept == ReportsSpec => Spec
<1>1. ReportsInit => Init
  BY DEF ReportsInit, EquipmentInit
<1> QED BY <1>1, ReportSteps, PTL DEF ReportsSpec, Spec

LEMMA PlanHolds == Spec => []PlanInv
<1>1. Spec => [](IInv /\ PlanInv)
  BY Invariance, InitPlan, NextPlan, PTL DEF Spec
<1> QED BY <1>1, PTL

----------------------------------------------------------------------------
(* What the endpoints do to the task rows *)

\* A task row is there exactly when it belongs to an occurrence or an intervention,
\* and a task of the gamme is worked on only once its occurrence made it.
TasksPlaced ==
    /\ \A t \in Tasks : db.task[t].status \in TaskStatuses
           <=> (db.task[t].occurrence # Null \/ db.task[t].intervention # Null)
    /\ \A t \in PlanTasks : db.task[t].intervention # Null => db.task[t].occurrence # Null

\* A row stays where it is, once it has an intervention, unless it is deleted, which
\* no action allows.
TaskStep(d, e) ==
    \A t \in Tasks :
        \/ /\ e.task[t].status \in TaskStatuses <=> d.task[t].status \in TaskStatuses
           /\ e.task[t].occurrence = d.task[t].occurrence
           /\ d.task[t].tagged => e.task[t].tagged
           /\ \/ e.task[t].intervention = d.task[t].intervention
              \/ /\ d.task[t].intervention = Null /\ e.task[t].intervention # Null
                 /\ d.task[t].occurrence # Null
        \/ ~d.task[t].tagged /\ e.task[t] = [NoTask EXCEPT !.status = "deleted"]
        \/ /\ d.task[t] = NoTask /\ t \in ManualTasks
           /\ e.task[t].status \in TaskStatuses /\ e.task[t].intervention # Null
        \/ /\ d.task[t].intervention = Null /\ t \in PlanTasks
           /\ e.task[t].status \in TaskStatuses
           /\ e.task[t].occurrence # Null /\ e.task[t].intervention = Null

LEMMA GenerateSteps ==
    ASSUME IInv, NEW o \in Occurrences, NEW r \in Requests, Generate(o, r)
    PROVE  TaskStep(db, db')
<1>0. db \in Database /\ db' = GenerateTx(db, o, r)
  BY DEF IInv, Consistent, Generate
<1>1. /\ InsertRequest(db, r) \in Database
      /\ InsertRequest(db, r).task = db.task
  BY <1>0, InsertRequestEffect
<1>2. db'.task = [t \in Tasks |->
            IF t \in {o} \X Steps
            THEN [NoTask EXCEPT !.status = "todo", !.occurrence = o,
                                !.optional = t[2] \in OptionalSteps]
            ELSE db.task[t]]
  BY <1>0, <1>1 DEF GenerateTx, Database
<1>3. ASSUME NEW t \in Tasks, t \in {o} \X Steps
      PROVE  /\ db.task[t].intervention = Null /\ t \in PlanTasks
             /\ db'.task[t].status \in TaskStatuses
             /\ db'.task[t].occurrence # Null /\ db'.task[t].intervention = Null
  <2>1. db'.task[t] = [NoTask EXCEPT !.status = "todo", !.occurrence = o,
                                     !.optional = t[2] \in OptionalSteps]
    BY <1>2, <1>3
  <2>2. db'.task[t].status = "todo" /\ db'.task[t].occurrence = o
        /\ db'.task[t].intervention = Null
    BY <2>1 DEF NoTask
  <2>3. db.task[t].intervention = Null
    BY <1>3 DEF IInv, FreshOccurrences, Generate, NoOccurrence
  <2>4. o # Null
    BY Rows
  <2> QED BY <1>3, <2>2, <2>3, <2>4 DEF PlanTasks, TaskStatuses, PendingTask
<1>4. ASSUME NEW t \in Tasks, t \notin {o} \X Steps PROVE db'.task[t] = db.task[t]
  BY <1>2, <1>4
<1> QED BY <1>3, <1>4 DEF TaskStep

LEMMA TakenSteps ==
    ASSUME IInv, NEW r \in Requests, NEW i \in Interventions,
           Accept(r, i) \/ CreateIntervention(r, i)
    PROVE  TaskStep(db, db')
<1>0. db \in Database
  BY DEF IInv, Consistent
<1>1. PICK o \in Occurrences \cup {Null}, planned \in BOOLEAN :
          db' = TakeInCharge(db, r, i, planned, o, {})
  BY DEF Accept, AcceptTx, CreateIntervention, LinkTx, Picks, OccurrencesOfRequest,
     UnattachedOccurrences
<1>2. Taken(db, db', r, i, planned, o, {})
  BY <1>0, <1>1, TakeInChargeRows
<1>3. CASE o = Null
  <2>1. db'.task = db.task
    BY <1>2, <1>3 DEF Taken
  <2> QED BY <2>1 DEF TaskStep
<1>4. CASE o # Null
  <2>1. ASSUME NEW t \in Tasks
        PROVE  /\ db'.task[t].status = db.task[t].status
               /\ db'.task[t].occurrence = db.task[t].occurrence
               /\ db'.task[t].tagged = db.task[t].tagged
               /\ \/ db'.task[t].intervention = db.task[t].intervention
                  \/ /\ db.task[t].intervention = Null /\ db'.task[t].intervention # Null
                     /\ db.task[t].occurrence # Null
    <3>1. /\ db'.task[t].status = db.task[t].status
          /\ db'.task[t].occurrence = db.task[t].occurrence
          /\ db'.task[t].tagged = db.task[t].tagged
          /\ db'.task[t].intervention =
                 IF db.task[t].occurrence = o /\ db.task[t].intervention = Null
                 THEN i ELSE db.task[t].intervention
      BY <1>2, <1>4 DEF Taken
    <3>2. i # Null
      BY Rows
    <3> QED BY <1>4, <3>1, <3>2
  <2> QED BY <2>1 DEF TaskStep
<1> QED BY <1>3, <1>4

LEMMA OneTaskStep ==
    ASSUME IInv, NEW t \in Tasks, NEW s, NEW i \in Interventions, NEW optional \in BOOLEAN,
           \/ t \in ManualTasks /\ CreateTask(t, i, optional)
           \/ s \in PatchStatuses /\ PatchTask(t, s)
           \/ DeleteTask(t)
    PROVE  TaskStep(db, db')
<1>0. db \in Database /\ db.task \in [Tasks -> TaskRow] /\ db.task[t] \in TaskRow
  BY DEF IInv, Consistent, Database
<1>1. \A u \in Tasks : u # t => db'.task[u] = db.task[u]
  BY <1>0, TaskRows DEF CreateTask, PatchTask, DeleteTask
<1>2. CASE t \in ManualTasks /\ CreateTask(t, i, optional)
  <2>1. /\ db.task[t] = NoTask
        /\ db'.task[t] = [NoTask EXCEPT !.status = "todo", !.optional = optional,
                                        !.intervention = i]
    BY <1>0, <1>2 DEF CreateTask, CreateTaskTx, Database
  <2>2. db'.task[t].status = "todo" /\ db'.task[t].intervention = i /\ i # Null
    BY <2>1, Rows DEF NoTask
  <2> QED BY <1>1, <1>2, <2>1, <2>2 DEF TaskStep, TaskStatuses, PendingTask
<1>3. CASE s \in PatchStatuses /\ PatchTask(t, s)
  <2>1. /\ db.task[t].status \in TaskStatuses
        /\ db' = PatchTaskTx(db, t, s)
    BY <1>3 DEF PatchTask, TaskEditable
  <2>2. db'.task[t] = [db.task[t] EXCEPT !.status = s]
    BY <1>0, <2>1 DEF PatchTaskTx, Database
  <2>3. /\ db'.task[t].status = s
        /\ db'.task[t].occurrence = db.task[t].occurrence
        /\ db'.task[t].intervention = db.task[t].intervention
        /\ db'.task[t].tagged = db.task[t].tagged
    BY <1>0, <2>2 DEF TaskRow
  <2>4. s \in TaskStatuses
    BY <1>3 DEF PatchStatuses, TaskStatuses, PendingTask
  <2> QED BY <1>1, <2>1, <2>3, <2>4 DEF TaskStep
<1>4. CASE DeleteTask(t)
  <2>1. /\ ~db.task[t].tagged
        /\ db'.task[t] = [NoTask EXCEPT !.status = "deleted"]
    BY <1>0, <1>4 DEF DeleteTask, DeleteTaskTx, Database
  <2> QED BY <1>1, <2>1 DEF TaskStep
<1> QED BY <1>2, <1>3, <1>4

LEMMA ActionTaskStep ==
    ASSUME IInv, NEW i \in Interventions, NEW T \in SUBSET TasksOf(db, i),
           NEW tags \in [T -> ActionModes], AddAction(i, tags)
    PROVE  TaskStep(db, db')
<1>0. db \in Database
  BY DEF IInv, Consistent
<1>1. /\ db' = TagTx(db, i, tags) /\ DOMAIN tags = T
      /\ \A t \in T : db.task[t].status \in TaskStatuses /\ tags[t] \in TaskStatuses
  BY ActedOn
<1>2. Acted(db, db', i, T)
  BY ActedOn
<1>3. ASSUME NEW t \in Tasks
      PROVE  /\ db'.task[t].occurrence = db.task[t].occurrence
             /\ db'.task[t].intervention = db.task[t].intervention
             /\ db.task[t].tagged => db'.task[t].tagged
  BY <1>2 DEF Acted
<1>4. ASSUME NEW t \in Tasks
      PROVE  db'.task[t].status \in TaskStatuses <=> db.task[t].status \in TaskStatuses
  <2>1. CASE t \in T
    <3>1. db'.task[t] = Tagged(db.task[t], tags[t])
      BY <1>0, <1>1, <2>1, TagParts
    <3>2. db.task[t] \in TaskRow
      BY <1>0 DEF Database
    <3>3. db'.task[t].status = TaskAfterAction(db.task[t].status, tags[t])
      BY <3>1, <3>2 DEF Tagged, TaskRow
    <3> QED BY <1>1, <2>1, <3>3 DEF TaskAfterAction
  <2>2. CASE t \notin T
    BY <1>2, <2>2 DEF Acted
  <2> QED BY <2>1, <2>2
<1> QED BY <1>3, <1>4 DEF TaskStep

LEMMA NextTaskStep ==
    ASSUME IInv, Next
    PROVE  TaskStep(db, db')
<1>0. db \in Database
  BY DEF IInv, Consistent
<1>1. CASE db'.task = db.task
  BY <1>1 DEF TaskStep
<1>2. ASSUME NEW r \in Requests, CreateRequest(r) \/ Hold(r) \/ Reject(r)
      PROVE  db'.task = db.task
  <2>1. CASE CreateRequest(r)
    BY <1>0, <2>1, InsertRequestEffect DEF CreateRequest
  <2>2. CASE Hold(r)
    BY <1>0, <2>2, LogRequestEffect DEF Hold, HoldTx, Statuts
  <2>3. CASE Reject(r)
    BY <1>0, <2>3, RejectRows DEF Reject
  <2> QED BY <1>2, <2>1, <2>2, <2>3
<1>3. ASSUME NEW r \in Requests, Close(r)
      PROVE  db'.task = db.task
  <2>1. /\ db' = CloseTx(db, r, db.request[r].intervention, {})
        /\ db.request[r].intervention \in Interventions \cup {Null}
    BY <1>3, Rows DEF Close
  <2> QED BY <1>0, <2>1, CloseTasks
<1>4. ASSUME NEW o \in Occurrences, Skip(o)
      PROVE  db'.task = db.task
  BY <1>0, <1>4 DEF Skip, SkipTx, Database
<1>5. ASSUME NEW i \in Interventions, NEW s \in InterventionStatuses,
             SetStatus(i, s) \/ LogStatus(i, s)
      PROVE  db'.task = db.task
  <2>1. db' = db \/ db' = SyncStatusLog(db, i, s, {})
    BY <1>5 DEF SetStatus, LogStatus, UpdateStatus
  <2> QED BY <1>0, <2>1, SyncStatusLogEffect
<1>6. ASSUME NEW i \in Interventions, DeleteIntervention(i)
      PROVE  db'.task = db.task
  BY <1>0, <1>6, DeleteRows DEF DeleteIntervention
<1>7. CASE RequestNext
  BY <1>1, <1>2, <1>3, <1>4, <1>7, GenerateSteps, TakenSteps DEF RequestNext
<1>8. CASE InterventionNext
  BY <1>1, <1>5, <1>6, <1>8, TakenSteps DEF InterventionNext
<1>9. CASE TaskNext
  <2>1. ASSUME NEW t \in ManualTasks, NEW i \in Interventions, NEW optional \in BOOLEAN,
               CreateTask(t, i, optional)
        PROVE  TaskStep(db, db')
    BY <2>1, OneTaskStep DEF Tasks
  <2>2. ASSUME NEW t \in Tasks, NEW s \in PatchStatuses, PatchTask(t, s) \/ DeleteTask(t)
        PROVE  TaskStep(db, db')
    <3>1. db.task[t].intervention \in Interventions
      BY <2>2, EditableTask DEF PatchTask, DeleteTask
    <3> QED BY <2>2, <3>1, OneTaskStep
  <2>3. "todo" \in PatchStatuses
    BY DEF PatchStatuses
  <2> QED BY <1>9, <2>1, <2>2, <2>3, ActionTaskStep DEF TaskNext
<1> QED BY <1>7, <1>8, <1>9 DEF Next

LEMMA NextPlaced ==
    ASSUME IInv, TasksPlaced, [Next]_db
    PROVE  TasksPlaced'
<1>0. CASE UNCHANGED db
  BY <1>0 DEF TasksPlaced
<1>1. CASE Next
  <2>1. TaskStep(db, db')
    BY <1>1, NextTaskStep
  <2>2. ASSUME NEW t \in Tasks
        PROVE  /\ db'.task[t].status \in TaskStatuses
                   <=> (db'.task[t].occurrence # Null \/ db'.task[t].intervention # Null)
               /\ t \in PlanTasks /\ db'.task[t].intervention # Null
                      => db'.task[t].occurrence # Null
    <3>1. /\ db.task[t].status \in TaskStatuses
                 <=> (db.task[t].occurrence # Null \/ db.task[t].intervention # Null)
          /\ t \in PlanTasks /\ db.task[t].intervention # Null => db.task[t].occurrence # Null
      BY DEF TasksPlaced
    <3>2. t \in ManualTasks => t \notin PlanTasks
      BY TablesAssumption DEF PlanTasks
    <3> QED BY <2>1, <3>1, <3>2 DEF TaskStep, NoTask, TaskStatuses, PendingTask
  <2> QED BY <2>2 DEF TasksPlaced, Tasks
<1> QED BY <1>0, <1>1

----------------------------------------------------------------------------
(* The columns of the pages *)

\* An action has tasks, all of its intervention and tagged.
PlacedOn(d, row) ==
    /\ row.tasks # {}
    /\ \A t \in row.tasks : d.task[t].tagged /\ d.task[t].intervention = row.inter

\* An action was recorded on tasks of its intervention, which it tags; a purchase
\* asks for the sake of a recorded action.
ActionsPlaced == \A k \in Actions : action[k] # Null => PlacedOn(db, action[k])
AskedPlaced == \A p \in Purchases : asked[p] # Null => action[asked[p]] # Null

\* An occurrence that waits for its request is on the machine of that request.
SameSeat ==
    \A o \in Occurrences : db.occurrence[o].status = "generated"
        => seat[db.occurrence[o].request] = seat[o]

PagesInv ==
    /\ IInv /\ PlanInv /\ TasksPlaced
    /\ EquipmentTypeOK /\ ActionsPlaced /\ AskedPlaced /\ SameSeat

\* Only the generation makes an occurrence 'generated'.
GeneratedKept ==
    \A o \in Occurrences : db'.occurrence[o].status = "generated"
        => /\ db.occurrence[o].status = "generated"
           /\ db'.occurrence[o].request = db.occurrence[o].request

LEMMA RequestsGenerated ==
    ASSUME IInv, NEW r \in Requests, CreateRequest(r) \/ Hold(r) \/ Reject(r) \/ Close(r)
    PROVE  GeneratedKept
<1>0. db \in Database
  BY DEF IInv, Consistent
<1>1. CASE CreateRequest(r)
  BY <1>0, <1>1, InsertRequestEffect DEF CreateRequest, GeneratedKept
<1>2. CASE Hold(r)
  BY <1>0, <1>2, LogRequestEffect DEF Hold, HoldTx, Statuts, GeneratedKept
<1>3. CASE Reject(r)
  BY <1>0, <1>3, RejectRows DEF Reject, GeneratedKept
<1>4. CASE Close(r)
  <2> DEFINE i == db.request[r].intervention
  <2>1. /\ db.request[r].statut = "acceptee"
        /\ db' = CloseTx(db, r, i, {})
    BY <1>4 DEF Close, TransitionValid, AllowedTransitions, Statuts
  <2>2. CASE i \in Interventions
    <3>1. LiveIntervention(db, i)
      BY <2>1, <2>2 DEF IInv, Consistent, AcceptedOpen, LiveIntervention, InterventionStatuses
    <3>2. StatusSet(db, db', i, "ferme")
      BY <2>1, <2>2, <3>1, CloseLinkedSet
    <3> HIDE DEF i
    <3> QED BY <3>2 DEF StatusSet, GeneratedKept
  <2>3. CASE i = Null
    <3> DEFINE completed == CompleteOccurrences(db, Null, r)
    <3>1. db' = LogRequest(completed, r, "cloturee", {}) /\ "cloturee" \in Statuts
      BY <2>1, <2>3 DEF CloseTx, CloseLinked, Statuts
    <3>2. completed \in Database
      BY <1>0, CompleteOccurrencesEffect
    <3>3. \A o \in Occurrences :
              /\ completed.occurrence[o].request = db.occurrence[o].request
              /\ completed.occurrence[o].status \in {"completed", db.occurrence[o].status}
      BY <1>0, CompleteRows
    <3> HIDE DEF completed
    <3>4. db'.occurrence = completed.occurrence
      BY <3>1, <3>2, LogRequestEffect
    <3> QED BY <3>3, <3>4 DEF GeneratedKept
  <2> QED BY <2>2, <2>3, Rows
<1> QED BY <1>1, <1>2, <1>3, <1>4

LEMMA InterventionsGenerated ==
    ASSUME IInv, NEW i \in Interventions,
           \/ \E r \in Requests : Accept(r, i) \/ CreateIntervention(r, i)
           \/ \E s \in InterventionStatuses : SetStatus(i, s) \/ LogStatus(i, s)
           \/ DeleteIntervention(i)
    PROVE  GeneratedKept
<1>0. db \in Database
  BY DEF IInv, Consistent
<1>1. ASSUME NEW r \in Requests, Accept(r, i) \/ CreateIntervention(r, i)
      PROVE  GeneratedKept
  <2>1. PICK o \in Occurrences \cup {Null}, planned \in BOOLEAN :
            db' = TakeInCharge(db, r, i, planned, o, {})
    BY <1>1 DEF Accept, AcceptTx, CreateIntervention, LinkTx, Picks, OccurrencesOfRequest,
       UnattachedOccurrences
  <2>2. Taken(db, db', r, i, planned, o, {})
    BY <1>0, <2>1, TakeInChargeRows
  <2> QED BY <2>2, Rows DEF Taken, GeneratedKept
<1>2. ASSUME NEW s \in InterventionStatuses, SetStatus(i, s) \/ LogStatus(i, s)
      PROVE  GeneratedKept
  <2>1. CASE db' = db
    BY <2>1 DEF GeneratedKept
  <2>2. CASE db' = SyncStatusLog(db, i, s, {})
    BY <2>2, SyncStatusSet DEF StatusSet, GeneratedKept
  <2> QED BY <1>2, <2>1, <2>2 DEF SetStatus, LogStatus, UpdateStatus
<1>3. CASE DeleteIntervention(i)
  BY <1>0, <1>3, DeleteRows DEF DeleteIntervention, GeneratedKept
<1> QED BY <1>1, <1>2, <1>3

LEMMA SkipGenerated ==
    ASSUME IInv, NEW o \in Occurrences, Skip(o)
    PROVE  GeneratedKept
<1>1. db \in Database
  BY DEF IInv, Consistent
<1> QED BY <1>1 DEF Skip, SkipTx, Database, OccurrenceRow, GeneratedKept

LEMMA TasksGenerated == ASSUME IInv, TaskNext PROVE GeneratedKept
BY TaskRequestsKept DEF GeneratedKept

LEMMA SeatsKept ==
    ASSUME PagesInv, GeneratedKept, \A x \in Requests \cup Occurrences : seat'[x] = seat[x]
    PROVE  SameSeat'
<1>1. ASSUME NEW o \in Occurrences, db'.occurrence[o].status = "generated"
      PROVE  seat'[db'.occurrence[o].request] = seat'[o]
  <2>1. /\ db.occurrence[o].status = "generated"
        /\ db'.occurrence[o].request = db.occurrence[o].request
    BY <1>1 DEF GeneratedKept
  <2>2. db.occurrence[o].request \in Requests
    BY <2>1, Rows DEF PagesInv, IInv, OccurrenceFollowsRequest
  <2> QED BY <2>1, <2>2 DEF PagesInv, SameSeat
<1> QED BY <1>1 DEF SameSeat

LEMMA StepPlaced ==
    ASSUME IInv, NEW d, NEW e, TaskStep(d, e), NEW row \in ActionRecord, PlacedOn(d, row)
    PROVE  PlacedOn(e, row)
<1>1. ASSUME NEW t \in row.tasks
      PROVE  e.task[t].tagged /\ e.task[t].intervention = row.inter
  <2>1. t \in Tasks /\ row.inter \in Interventions /\ row.inter # Null
    BY Rows DEF ActionRecord
  <2>2. d.task[t].tagged /\ d.task[t].intervention = row.inter
    BY DEF PlacedOn
  <2> QED BY <2>1, <2>2, SMTT(30) DEF TaskStep, NoTask
<1> QED BY <1>1 DEF PlacedOn

LEMMA ActionsKept ==
    ASSUME PagesInv, [Next]_db, UNCHANGED action
    PROVE  ActionsPlaced'
<1>1. CASE UNCHANGED db
  BY <1>1 DEF PagesInv, ActionsPlaced
<1>2. CASE Next
  <2>1. TaskStep(db, db')
    BY <1>2, NextTaskStep DEF PagesInv
  <2>2. ASSUME NEW k \in Actions, action[k] # Null
        PROVE  PlacedOn(db', action[k])
    BY <2>1, <2>2, StepPlaced DEF PagesInv, EquipmentTypeOK, OrNone, ActionsPlaced
  <2> QED BY <2>2 DEF ActionsPlaced
<1> QED BY <1>1, <1>2

\* What an endpoint leaves to the workflow
LEMMA WorkflowKeeps ==
    ASSUME PagesInv, EquipmentNext
    PROVE  (IInv /\ PlanInv /\ TasksPlaced)' /\ db' \in Database
<1>1. [Next]_db
  BY WorkSteps
<1> QED BY <1>1, NextInv, NextPlan, NextPlaced DEF PagesInv, IInv, Consistent

LEMMA InitPages == ReportsInit => PagesInv
<1> SUFFICES ASSUME ReportsInit PROVE PagesInv
  OBVIOUS
<1>0. EquipmentInit
  BY DEF ReportsInit
<1>1. IInv /\ PlanInv
  BY <1>0, InitInv, InitPlan DEF EquipmentInit
<1>2. \A o \in Occurrences : db.occurrence[o].status = "none"
  BY <1>0 DEF EquipmentInit, Init, EmptyDatabase, NoOccurrence
<1>3. \A t \in Tasks : db.task[t].status = "none" /\ db.task[t].occurrence = Null
                       /\ db.task[t].intervention = Null
  BY <1>0 DEF EquipmentInit, Init, EmptyDatabase, NoTask
<1>4. TasksPlaced
  BY <1>3 DEF TasksPlaced, TaskStatuses, PendingTask, Tasks
<1>5. EquipmentTypeOK
  BY <1>0, <1>1 DEF EquipmentInit, EquipmentTypeOK, OrNone, IInv, Consistent
<1>6. ActionsPlaced /\ AskedPlaced /\ SameSeat
  BY <1>0, <1>2 DEF EquipmentInit, ActionsPlaced, AskedPlaced, SameSeat
<1> QED BY <1>1, <1>4, <1>5, <1>6 DEF PagesInv

LEMMA MachinePages ==
    ASSUME PagesInv, MachineNext
    PROVE  PagesInv'
<1>1. PICK m \in Machines :
          \/ DeleteMachine(m)
          \/ \E row \in MachineRows, children \in SUBSET Machines : WriteMachine(m, row, children)
  BY DEF MachineNext, AddMachine, UpdateMachine, Existing
<1>2. /\ UNCHANGED <<db, urgent, late, action, asked>>
      /\ IInv' /\ PlanInv' /\ TasksPlaced' /\ ActionsPlaced' /\ AskedPlaced'
  <2>1. UNCHANGED <<db, urgent, late, action, asked>>
    BY <1>1 DEF DeleteMachine, WriteMachine, columns
  <2>2. EquipmentNext
    BY DEF EquipmentNext
  <2> QED BY <2>1, <2>2, WorkflowKeeps, ActionsKept DEF PagesInv, AskedPlaced
<1>3. CASE DeleteMachine(m)
  <2>1. /\ machine' = [machine EXCEPT ![m] = Null]
        /\ seat' = [x \in Seats |-> IF seat[x] = m THEN Null ELSE seat[x]]
        /\ \A x \in Requests \cup Occurrences : seat[x] # m
    BY <1>3 DEF DeleteMachine
  <2>2. EquipmentTypeOK'
    BY <1>2, <2>1 DEF PagesInv, EquipmentTypeOK, OrNone
  <2>3. \A x \in Requests \cup Occurrences : seat'[x] = seat[x]
    BY <2>1 DEF Seats
  <2>4. GeneratedKept
    BY <1>2 DEF GeneratedKept
  <2> QED BY <1>2, <2>2, <2>3, <2>4, SeatsKept DEF PagesInv
<1>4. ASSUME NEW row \in MachineRows, NEW children \in SUBSET Machines,
             WriteMachine(m, row, children)
      PROVE  PagesInv'
  <2>1. machine' = Written(m, row, children) /\ UNCHANGED seat
    BY <1>4 DEF WriteMachine, columns
  <2>2. ASSUME NEW n \in Machines PROVE Written(m, row, children)[n] \in OrNone(MachineRow)
    <3> DEFINE old == IF n = m THEN row ELSE machine[n]
    <3>1. old \in OrNone(MachineRow)
      BY EquipmentAssumption DEF PagesInv, EquipmentTypeOK, OrNone
    <3>2. Written(m, row, children)[n] =
              IF n \in children /\ old # Null THEN [old EXCEPT !.mother = m] ELSE old
      BY DEF Written
    <3> HIDE DEF old
    <3>3. old # Null => [old EXCEPT !.mother = m] \in MachineRow
      BY <3>1 DEF OrNone, MachineRow
    <3> QED BY <3>1, <3>2, <3>3 DEF OrNone
  <2>3. EquipmentTypeOK'
    BY <1>2, <2>1, <2>2 DEF PagesInv, EquipmentTypeOK, Written
  <2>4. GeneratedKept
    BY <1>2 DEF GeneratedKept
  <2> QED BY <1>2, <2>1, <2>3, <2>4, SeatsKept DEF PagesInv
<1> QED BY <1>1, <1>3, <1>4

\* The endpoints that change nothing but the seat of interventions and the marks
LEMMA PlainPages ==
    ASSUME PagesInv, EquipmentNext, UNCHANGED <<machine, action>>,
           GeneratedKept, \A x \in Requests \cup Occurrences : seat'[x] = seat[x],
           seat' \in [Seats -> OrNone(Machines)],
           urgent' \subseteq Interventions, late' \subseteq Tasks,
           asked' \in [Purchases -> OrNone(Actions)], AskedPlaced'
    PROVE  PagesInv'
<1>1. (IInv /\ PlanInv /\ TasksPlaced)' /\ db' \in Database
  BY WorkflowKeeps
<1>2. ActionsPlaced'
  BY WorkSteps, ActionsKept
<1>3. SameSeat'
  BY SeatsKept
<1>4. EquipmentTypeOK'
  BY <1>1 DEF PagesInv, EquipmentTypeOK
<1> QED BY <1>1, <1>2, <1>3, <1>4 DEF PagesInv

LEMMA RequestPages ==
    ASSUME PagesInv, EquipmentNext, NEW r \in Requests, NEW m \in Machines,
           RequestOn(r, m) \/ \E o \in Occurrences : GenerateOn(o, r, m)
    PROVE  PagesInv'
<1>1. /\ (IInv /\ PlanInv /\ TasksPlaced)' /\ db' \in Database
      /\ UNCHANGED <<machine, urgent, late, action, asked>>
  BY WorkflowKeeps DEF RequestOn, GenerateOn
<1>2. ActionsPlaced' /\ AskedPlaced'
  BY <1>1, WorkSteps, ActionsKept DEF PagesInv, AskedPlaced
<1>3. seat' \in [Seats -> OrNone(Machines)]
  BY DEF RequestOn, GenerateOn, PagesInv, EquipmentTypeOK, OrNone
<1>4. EquipmentTypeOK'
  BY <1>1, <1>3 DEF PagesInv, EquipmentTypeOK
<1>5. CASE RequestOn(r, m)
  <2>1. CreateRequest(r) /\ seat' = [seat EXCEPT ![r] = m]
    BY <1>5 DEF RequestOn
  <2>2. GeneratedKept
    BY <2>1, RequestsGenerated DEF PagesInv
  <2>3. ASSUME NEW o \in Occurrences, db'.occurrence[o].status = "generated"
        PROVE  seat'[db'.occurrence[o].request] = seat'[o]
    <3>1. /\ db.occurrence[o].status = "generated"
          /\ db'.occurrence[o].request = db.occurrence[o].request
      BY <2>2, <2>3 DEF GeneratedKept
    <3>2. /\ db.occurrence[o].request \in Requests
          /\ db.request[db.occurrence[o].request].statut \in {"nouvelle", "en_attente"}
      BY <3>1, Rows DEF PagesInv, IInv, OccurrenceFollowsRequest
    <3>3. db.occurrence[o].request # r
      BY <2>1, <3>2 DEF CreateRequest, NoRequest
    <3>4. o # r
      BY IdsAssumption
    <3>5. seat[db.occurrence[o].request] = seat[o]
      BY <3>1 DEF PagesInv, SameSeat
    <3> QED BY <2>1, <3>1, <3>2, <3>3, <3>4, <3>5 DEF PagesInv, EquipmentTypeOK, Seats
  <2>4. SameSeat'
    BY <2>3 DEF SameSeat
  <2> QED BY <1>1, <1>2, <1>4, <2>4 DEF PagesInv
<1>6. ASSUME NEW o \in Occurrences, GenerateOn(o, r, m)
      PROVE  PagesInv'
  <2>1. /\ Generate(o, r)
        /\ seat' = [seat EXCEPT ![o] = m, ![r] = m]
    BY <1>6 DEF GenerateOn
  <2>2. /\ \A p \in Occurrences : p # o => db'.occurrence[p].status # "generated"
        /\ db'.occurrence[o].request = r
    BY <2>1, GenerateRows DEF Generate, PagesInv, IInv, Consistent, ActiveOccurrence
  <2>3. seat'[r] = m /\ seat'[o] = m
    BY <2>1 DEF PagesInv, EquipmentTypeOK, Seats
  <2>4. SameSeat'
    BY <2>2, <2>3 DEF SameSeat
  <2> QED BY <1>1, <1>2, <1>4, <2>4 DEF PagesInv
<1> QED BY <1>5, <1>6

LEMMA InterventionPages ==
    ASSUME PagesInv, EquipmentNext, NEW i \in Interventions,
           \/ \E r \in Requests, m \in Machines, b, past \in BOOLEAN : CreateOn(r, i, m, b, past)
           \/ \E r \in Requests, b \in BOOLEAN : AcceptOn(r, i, b)
           \/ \E m \in Machines, b \in BOOLEAN : EditOn(i, m, b)
           \/ DeleteOn(i)
    PROVE  PagesInv'
<1>0. \A v \in OrNone(Machines) :
          LET s == [seat EXCEPT ![i] = v]
          IN /\ s \in [Seats -> OrNone(Machines)]
             /\ \A x \in Requests \cup Occurrences : s[x] = seat[x]
  BY IdsAssumption DEF PagesInv, EquipmentTypeOK, Seats
<1>1. ASSUME UNCHANGED <<machine, action, asked>>, GeneratedKept,
             NEW v \in OrNone(Machines), seat' = [seat EXCEPT ![i] = v],
             urgent' \subseteq Interventions, late' \subseteq Tasks
      PROVE  PagesInv'
  <2>1. /\ seat' \in [Seats -> OrNone(Machines)]
        /\ \A x \in Requests \cup Occurrences : seat'[x] = seat[x]
    BY <1>0, <1>1
  <2>2. asked' \in [Purchases -> OrNone(Actions)] /\ AskedPlaced'
    BY <1>1 DEF PagesInv, EquipmentTypeOK, AskedPlaced
  <2> QED BY <1>1, <2>1, <2>2, PlainPages
<1>2. \A b : UrgentIs(i, b) => urgent' \subseteq Interventions
  BY DEF UrgentIs, PagesInv, EquipmentTypeOK
<1>3. late \subseteq Tasks /\ urgent \subseteq Interventions /\ TasksOf(db', i) \subseteq Tasks
  BY DEF PagesInv, EquipmentTypeOK, TasksOf
<1>4. ASSUME NEW r \in Requests, NEW m \in Machines, NEW b \in BOOLEAN, NEW past \in BOOLEAN,
             CreateOn(r, i, m, b, past)
      PROVE  PagesInv'
  <2>1. GeneratedKept
    BY <1>4, InterventionsGenerated DEF CreateOn, PagesInv
  <2>2. late' \subseteq Tasks
    BY <1>3, <1>4 DEF CreateOn
  <2>3. /\ UNCHANGED <<machine, action, asked>> /\ seat' = [seat EXCEPT ![i] = m]
        /\ UrgentIs(i, b) /\ m \in OrNone(Machines)
    BY <1>4 DEF CreateOn, OrNone
  <2> QED BY <1>1, <1>2, <2>1, <2>2, <2>3
<1>5. ASSUME NEW r \in Requests, NEW b \in BOOLEAN, AcceptOn(r, i, b)
      PROVE  PagesInv'
  <2>1. GeneratedKept
    BY <1>5, InterventionsGenerated DEF AcceptOn, PagesInv
  <2>2. /\ UNCHANGED <<machine, late, action, asked>> /\ seat' = [seat EXCEPT ![i] = seat[r]]
        /\ UrgentIs(i, b)
    BY <1>5 DEF AcceptOn
  <2>3. seat[r] \in OrNone(Machines)
    BY DEF PagesInv, EquipmentTypeOK, Seats
  <2> QED BY <1>1, <1>2, <1>3, <2>1, <2>2, <2>3
<1>6. ASSUME NEW m \in Machines, NEW b \in BOOLEAN, EditOn(i, m, b)
      PROVE  PagesInv'
  <2>1. /\ UNCHANGED <<db, machine, late, action, asked>> /\ seat' = [seat EXCEPT ![i] = m]
        /\ UrgentIs(i, b) /\ m \in OrNone(Machines)
    BY <1>6 DEF EditOn, OrNone
  <2>2. GeneratedKept
    BY <2>1 DEF GeneratedKept
  <2> QED BY <1>1, <1>2, <1>3, <2>1, <2>2
<1>7. CASE DeleteOn(i)
  <2>1. GeneratedKept
    BY <1>7, InterventionsGenerated DEF DeleteOn, PagesInv
  <2>2. /\ UNCHANGED <<machine, late, action, asked>> /\ seat' = [seat EXCEPT ![i] = Null]
        /\ urgent' = urgent \ {i} /\ Null \in OrNone(Machines)
    BY <1>7 DEF DeleteOn, OrNone
  <2> QED BY <1>1, <1>3, <2>1, <2>2
<1> QED BY <1>4, <1>5, <1>6, <1>7

LEMMA TaskPages ==
    ASSUME PagesInv, EquipmentNext,
           \/ \E t \in ManualTasks, i \in Interventions, optional, past \in BOOLEAN :
                  TaskOn(t, i, optional, past)
           \/ \E t \in Tasks : DeleteTaskOn(t) \/ \E past \in BOOLEAN : ScheduleTask(t, past)
           \/ \E k \in Actions, p \in Purchases : Ask(p, k)
           \/ Progress
    PROVE  PagesInv'
<1>0. /\ seat \in [Seats -> OrNone(Machines)] /\ urgent \subseteq Interventions
      /\ late \subseteq Tasks /\ asked \in [Purchases -> OrNone(Actions)] /\ IInv
      /\ ManualTasks \subseteq Tasks
  BY DEF PagesInv, EquipmentTypeOK, Tasks
<1>1. ASSUME UNCHANGED <<machine, seat, urgent, action, asked>>, GeneratedKept,
             late' \subseteq Tasks
      PROVE  PagesInv'
  BY <1>0, <1>1, PlainPages DEF PagesInv, AskedPlaced
<1>2. ASSUME NEW t \in ManualTasks, NEW i \in Interventions, NEW optional \in BOOLEAN,
             NEW past \in BOOLEAN, TaskOn(t, i, optional, past)
      PROVE  PagesInv'
  <2>1. TaskNext
    BY <1>2 DEF TaskOn, TaskNext
  <2> QED BY <1>0, <1>1, <1>2, <2>1, TasksGenerated DEF TaskOn
<1>3. ASSUME NEW t \in Tasks, DeleteTaskOn(t) PROVE PagesInv'
  <2>1. TaskNext
    BY <1>3 DEF DeleteTaskOn, TaskNext
  <2> QED BY <1>0, <1>1, <1>3, <2>1, TasksGenerated DEF DeleteTaskOn
<1>4. ASSUME NEW t \in Tasks, NEW past \in BOOLEAN, ScheduleTask(t, past) PROVE PagesInv'
  <2>1. UNCHANGED <<db, machine, seat, urgent, action, asked>> /\ late' \subseteq Tasks
    BY <1>0, <1>4 DEF ScheduleTask
  <2>2. GeneratedKept
    BY <2>1 DEF GeneratedKept
  <2> QED BY <1>1, <2>1, <2>2
<1>5. ASSUME NEW k \in Actions, NEW p \in Purchases, Ask(p, k) PROVE PagesInv'
  <2>1. /\ UNCHANGED <<db, machine, columns, action>> /\ action[k] # Null
        /\ asked' = [asked EXCEPT ![p] = k]
    BY <1>5 DEF Ask
  <2>2. asked' \in [Purchases -> OrNone(Actions)] /\ AskedPlaced'
    BY <1>0, <2>1 DEF PagesInv, AskedPlaced, OrNone
  <2>3. GeneratedKept
    BY <2>1 DEF GeneratedKept
  <2> QED BY <1>0, <2>1, <2>2, <2>3, PlainPages DEF columns
<1>6. CASE Progress
  <2>1. UNCHANGED <<machine, seat, urgent, late, action, asked>>
    BY <1>6 DEF Progress, columns
  <2>2. GeneratedKept
    <3>1. ASSUME NEW t \in Tasks, NEW s \in PatchStatuses, PatchTask(t, s) PROVE GeneratedKept
      BY <1>0, <3>1, TasksGenerated DEF TaskNext
    <3> QED BY <1>0, <1>6, <3>1, RequestsGenerated, SkipGenerated, InterventionsGenerated
         DEF Progress
  <2> QED BY <1>0, <1>1, <2>1, <2>2
<1> QED BY <1>2, <1>3, <1>4, <1>5, <1>6

LEMMA ActionPages ==
    ASSUME PagesInv, EquipmentNext, NEW k \in Actions, NEW i \in Interventions,
           NEW T \in SUBSET TasksOf(db, i), NEW tags \in [T -> ActionModes],
           NEW h \in HoursSpent, ActionOn(k, i, tags, h) \/ PatchAction(k, tags, h)
    PROVE  PagesInv'
<1>1. /\ (IInv /\ PlanInv /\ TasksPlaced)' /\ db' \in Database
      /\ UNCHANGED <<machine, seat, urgent, late, asked>>
  BY WorkflowKeeps DEF ActionOn, PatchAction, columns
<1>2. AddAction(i, tags) \/ UNCHANGED db
  BY ActionOrNot
<1>3. TaskStep(db, db')
  <2>1. CASE AddAction(i, tags)
    BY <2>1, ActionTaskStep DEF PagesInv
  <2>2. CASE UNCHANGED db
    BY <2>2 DEF TaskStep
  <2> QED BY <1>2, <2>1, <2>2
<1>4. GeneratedKept
  <2>1. CASE AddAction(i, tags)
    <3>1. TaskNext
      BY <2>1 DEF TaskNext
    <3> QED BY <3>1, TasksGenerated DEF PagesInv
  <2>2. CASE UNCHANGED db
    BY <2>2 DEF GeneratedKept
  <2> QED BY <1>2, <2>1, <2>2
<1>5. action \in [Actions -> OrNone(ActionRecord)] /\ T \subseteq Tasks /\ DOMAIN tags = T
  BY DEF PagesInv, EquipmentTypeOK, TasksOf
<1>6. ASSUME T # {}, AddAction(i, tags)
      PROVE  \A t \in T : db'.task[t].tagged /\ db'.task[t].intervention = i
  <2>1. /\ Acted(db, db', i, T)
        /\ \A t \in T : db.task[t].intervention = i
    BY <1>6, ActedOn DEF PagesInv
  <2> QED BY <1>5, <2>1 DEF Acted
<1>7. PICK row \in ActionRecord :
          /\ action' = [action EXCEPT ![k] = row]
          /\ PlacedOn(db', row)
  <2>1. CASE ActionOn(k, i, tags, h)
    <3> DEFINE row == [inter |-> i, tasks |-> T, hours |-> h]
    <3>1. row \in ActionRecord /\ action' = [action EXCEPT ![k] = row]
      BY <1>5, <2>1 DEF ActionOn, ActionRecord
    <3>2. AddAction(i, tags) /\ T # {}
      BY <1>5, <2>1 DEF ActionOn, AddAction
    <3>3. row.inter = i /\ row.tasks = T
      OBVIOUS
    <3> HIDE DEF row
    <3>4. PlacedOn(db', row)
      BY <1>6, <3>2, <3>3 DEF PlacedOn
    <3> QED BY <3>1, <3>4
  <2>2. CASE PatchAction(k, tags, h)
    <3> DEFINE row == [action[k] EXCEPT !.tasks = @ \cup T, !.hours = h]
    <3>1. /\ action[k] \in ActionRecord /\ PlacedOn(db, action[k])
          /\ action' = [action EXCEPT ![k] = row]
          /\ T # {} => AddAction(action[k].inter, tags)
      BY <1>5, <2>2 DEF PatchAction, OrNone, PagesInv, ActionsPlaced
    <3>2. row \in ActionRecord
      BY <1>5, <3>1 DEF ActionRecord
    <3>3. /\ row.inter = action[k].inter /\ row.tasks = action[k].tasks \cup T
      BY <3>1 DEF ActionRecord
    <3>4. PlacedOn(db', action[k])
      BY <1>3, <3>1, StepPlaced DEF PagesInv
    <3>5. T # {} => action[k].inter = i
      <4>1. ASSUME NEW t \in T PROVE db.task[t].intervention = i
        BY DEF TasksOf
      <4> QED BY <1>5, <3>1, <4>1 DEF AddAction
    <3> HIDE DEF row
    <3>6. PlacedOn(db', row)
      BY <1>6, <3>1, <3>3, <3>4, <3>5 DEF PlacedOn
    <3> QED BY <3>1, <3>2, <3>6
  <2> QED BY <2>1, <2>2
<1>8. ActionsPlaced'
  <2>1. ASSUME NEW j \in Actions, action'[j] # Null
        PROVE  PlacedOn(db', action'[j])
    <3>1. CASE j = k
      BY <1>5, <1>7, <3>1
    <3>2. CASE j # k
      <4>1. action'[j] = action[j] /\ action[j] \in ActionRecord
        BY <1>5, <1>7, <2>1, <3>2 DEF OrNone
      <4>2. PlacedOn(db, action[j])
        BY <2>1, <4>1 DEF PagesInv, ActionsPlaced
      <4> QED BY <1>3, <4>1, <4>2, StepPlaced DEF PagesInv
    <3> QED BY <3>1, <3>2
  <2> QED BY <2>1 DEF ActionsPlaced
<1>9. EquipmentTypeOK'
  BY <1>1, <1>5, <1>7 DEF PagesInv, EquipmentTypeOK, OrNone
<1>10. SameSeat'
  BY <1>1, <1>4, SeatsKept
<1>11. AskedPlaced'
  <2>1. ASSUME NEW p \in Purchases, asked[p] # Null PROVE action'[asked[p]] # Null
    <3>1. asked[p] \in Actions /\ action[asked[p]] # Null
      BY <2>1 DEF PagesInv, EquipmentTypeOK, OrNone, AskedPlaced
    <3>2. Null \notin ActionRecord
      BY EquipmentAssumption
    <3> QED BY <1>5, <1>7, <3>1, <3>2
  <2> QED BY <1>1, <2>1 DEF AskedPlaced
<1> QED BY <1>1, <1>8, <1>9, <1>10, <1>11 DEF PagesInv

LEMMA NextPages == PagesInv /\ [ReportsNext]_rvars => PagesInv'
<1> SUFFICES ASSUME PagesInv, [ReportsNext]_rvars PROVE PagesInv'
  OBVIOUS
<1>1. CASE UNCHANGED evars
  <2>1. UNCHANGED <<db, machine, seat, urgent, late, action, asked>>
    BY <1>1 DEF evars
  <2>2. IInv' /\ PlanInv'
    BY <2>1, IInvStutters, NextPlan DEF PagesInv
  <2>3. TasksPlaced'
    BY <2>1 DEF PagesInv, TasksPlaced
  <2>4. EquipmentTypeOK' /\ ActionsPlaced' /\ AskedPlaced' /\ SameSeat'
    BY <2>1 DEF PagesInv, EquipmentTypeOK, ActionsPlaced, AskedPlaced, SameSeat
  <2> QED BY <2>2, <2>3, <2>4 DEF PagesInv
<1>2. CASE EquipmentNext
  <2>1. CASE WorkNext
    <3>1. \/ \E r \in Requests, m \in Machines :
                 RequestOn(r, m) \/ \E o \in Occurrences : GenerateOn(o, r, m)
          \/ \E i \in Interventions :
                 \/ \E r \in Requests, m \in Machines, b, past \in BOOLEAN :
                        CreateOn(r, i, m, b, past)
                 \/ \E r \in Requests, b \in BOOLEAN : AcceptOn(r, i, b)
                 \/ \E m \in Machines, b \in BOOLEAN : EditOn(i, m, b)
                 \/ DeleteOn(i)
          \/ \E t \in ManualTasks, i \in Interventions, optional, past \in BOOLEAN :
                 TaskOn(t, i, optional, past)
          \/ \E t \in Tasks : DeleteTaskOn(t) \/ \E past \in BOOLEAN : ScheduleTask(t, past)
          \/ \E k \in Actions, p \in Purchases : Ask(p, k)
          \/ Progress
          \/ \E k \in Actions, i \in Interventions : \E T \in SUBSET TasksOf(db, i) :
                 \E tags \in [T -> ActionModes], h \in HoursSpent :
                     ActionOn(k, i, tags, h) \/ PatchAction(k, tags, h)
      BY <2>1 DEF WorkNext
    <3> QED BY <1>2, <3>1, RequestPages, InterventionPages, TaskPages, ActionPages
  <2> QED BY <1>2, <2>1, MachinePages DEF EquipmentNext
<1> QED BY <1>1, <1>2 DEF ReportsNext, rvars

LEMMA PagesHold == ReportsSpec => []PagesInv
BY InitPages, NextPages, PTL DEF ReportsSpec

\* Every column of the pages has the values its endpoints write: a machine's row, a
\* seat that is a machine or none, actions on tasks and purchases for actions.
THEOREM ColumnsTyped == ReportsSpec => []EquipmentTypeOK
<1>1. PagesInv => EquipmentTypeOK
  BY DEF PagesInv
<1> QED BY <1>1, PagesHold, PTL

----------------------------------------------------------------------------
(* Health *)

LEMMA FiniteTables ==
    /\ \A S \in {Requests, Interventions, Occurrences, Machines, Classes, Actions, Purchases,
                 Tasks, PlanTasks} : IsFiniteSet(S)
    /\ \A S : (\/ S \subseteq Requests \/ S \subseteq Interventions \/ S \subseteq Occurrences
               \/ S \subseteq Machines \/ S \subseteq Actions \/ S \subseteq Purchases
               \/ S \subseteq Tasks)
                  => IsFiniteSet(S) /\ Cardinality(S) \in Nat
<1>1. IsFiniteSet(PlanTasks)
  BY IdsAssumption, FS_Product DEF PlanTasks
<1>2. IsFiniteSet(Tasks)
  BY <1>1, IdsAssumption, FS_Union DEF Tasks
<1>3. \A S \in {Requests, Interventions, Occurrences, Machines, Classes, Actions, Purchases,
                Tasks, PlanTasks} : IsFiniteSet(S)
  BY <1>1, <1>2, IdsAssumption
<1> QED BY <1>3, FS_Subset, FS_CardinalityType

Figures == [opened : Nat, urgent : Nat, requests : Nat, tasks : Nat, late : Nat, purchases : Nat]

LEMMA MetricsType == \A m : Metrics(m) \in Figures
<1> SUFFICES ASSUME NEW m PROVE Metrics(m) \in Figures
  OBVIOUS
<1>1. /\ Opened(m) \subseteq Interventions /\ OpenRequests(m) \subseteq Requests
      /\ TodoOn(m) \subseteq Tasks /\ AskedOn(m) \subseteq Purchases
  BY DEF Opened, On, Live, OpenRequests, Asking, TodoOn, AskedOn
<1>2. /\ Opened(m) \cap urgent \subseteq Interventions
      /\ TodoOn(m) \cap late \subseteq Tasks
  BY <1>1
<1>3. /\ Cardinality(Opened(m)) \in Nat /\ Cardinality(Opened(m) \cap urgent) \in Nat
      /\ Cardinality(OpenRequests(m)) \in Nat /\ Cardinality(TodoOn(m)) \in Nat
      /\ Cardinality(TodoOn(m) \cap late) \in Nat /\ Cardinality(AskedOn(m)) \in Nat
  BY <1>1, <1>2, FiniteTables
<1> QED BY <1>3 DEF Metrics, Figures

LEMMA MetricsTypeAfter == \A m : Metrics(m)' \in Figures
<1> SUFFICES ASSUME NEW m PROVE Metrics(m)' \in Figures
  OBVIOUS
<1>1. /\ Opened(m)' \subseteq Interventions /\ OpenRequests(m)' \subseteq Requests
      /\ TodoOn(m)' \subseteq Tasks /\ AskedOn(m)' \subseteq Purchases
  BY DEF Opened, On, Live, OpenRequests, Asking, TodoOn, AskedOn
<1>2. /\ Opened(m)' \cap urgent' \subseteq Interventions
      /\ TodoOn(m)' \cap late' \subseteq Tasks
  BY <1>1
<1>3. /\ Cardinality(Opened(m)') \in Nat /\ Cardinality(Opened(m)' \cap urgent') \in Nat
      /\ Cardinality(OpenRequests(m)') \in Nat /\ Cardinality(TodoOn(m)') \in Nat
      /\ Cardinality(TodoOn(m)' \cap late') \in Nat /\ Cardinality(AskedOn(m)') \in Nat
  BY <1>1, <1>2, FiniteTables
<1> QED BY <1>3 DEF Metrics, Figures

\* No rule hides a worse one.
LEMMA LevelRises ==
    ASSUME NEW a \in Figures, NEW b \in Figures, \A f \in DOMAIN a : a[f] <= b[f],
           NEW p \in BOOLEAN, NEW q \in BOOLEAN, q => p
    PROVE  Ranks[Level(a, p)] <= Ranks[Level(b, q)]
<1>0. OpenLimit \in Nat /\ LateLimit \in Nat \ {0}
  BY EquipmentAssumption
<1>1. /\ a.opened \in Nat /\ a.urgent \in Nat /\ a.requests \in Nat /\ a.tasks \in Nat
      /\ a.late \in Nat /\ a.purchases \in Nat
      /\ b.opened \in Nat /\ b.urgent \in Nat /\ b.requests \in Nat /\ b.tasks \in Nat
      /\ b.late \in Nat /\ b.purchases \in Nat
  BY DEF Figures
<1>2. /\ a.opened <= b.opened /\ a.urgent <= b.urgent /\ a.requests <= b.requests
      /\ a.tasks <= b.tasks /\ a.late <= b.late /\ a.purchases <= b.purchases
  <2>1. DOMAIN a = {"opened", "urgent", "requests", "tasks", "late", "purchases"}
    BY DEF Figures
  <2> QED BY <2>1
<1>3. /\ Ranks["ok"] = 0 /\ Ranks["maintenance"] = 1 /\ Ranks["warning"] = 2
      /\ Ranks["critical"] = 3
  BY DEF Ranks
<1> DEFINE Rank(n, posted) ==
        LET work == n.opened + n.requests + n.tasks + n.purchases > 0
        IN IF n.urgent >= 1 \/ n.late >= LateLimit THEN 3
           ELSE IF n.late > 0 \/ n.opened > OpenLimit \/ (work /\ ~posted) THEN 2
           ELSE IF work THEN 1 ELSE 0
<1>4. \A n \in {a, b}, posted \in BOOLEAN : Ranks[Level(n, posted)] = Rank(n, posted)
  BY <1>0, <1>1, <1>3 DEF Level, First
<1>5. Rank(a, p) <= Rank(b, q)
  BY <1>0, <1>1, <1>2
<1> QED BY <1>4, <1>5

LEMMA PostedType ==
    ASSUME EquipmentTypeOK, NEW m \in Existing
    PROVE  machine[m] \in MachineRow /\ machine[m].posted \in BOOLEAN /\ m \in Machines
BY DEF EquipmentTypeOK, Existing, OrNone, MachineRow

LEMMA NeverImproves ==
    ASSUME EquipmentTypeOK, EquipmentTypeOK',
           NEW m \in Existing \cap Existing',
           \A f \in DOMAIN Metrics(m) : Metrics(m)[f] <= Metrics(m)'[f],
           machine'[m].posted => machine[m].posted
    PROVE  Ranks[Level(Metrics(m), machine[m].posted)]
               <= Ranks[Level(Metrics(m)', machine'[m].posted)]
<1>1. Metrics(m) \in Figures /\ Metrics(m)' \in Figures
  BY MetricsType, MetricsTypeAfter
<1>2. machine[m].posted \in BOOLEAN
  BY PostedType
<1>3. machine'[m].posted \in BOOLEAN
  BY DEF EquipmentTypeOK, Existing, OrNone, MachineRow
<1> QED BY <1>1, <1>2, <1>3, LevelRises

\* A step that only adds work to a machine, or takes its affectation away, never
\* improves its health, whatever the limits: no rule of _calculate_health hides a
\* worse one.
THEOREM HealthNeverImproves == ReportsSpec => WorkNeverImproves
<1>1. ASSUME PagesInv, PagesInv'
      PROVE  \A m \in Existing \cap Existing' :
                \A before \in {Metrics(m)}, after \in {Metrics(m)'} :
                   (/\ \A f \in DOMAIN before : before[f] <= after[f]
                    /\ machine'[m].posted => machine[m].posted)
                       => Ranks[Level(before, machine[m].posted)]
                              <= Ranks[Level(after, machine'[m].posted)]
  BY <1>1, NeverImproves DEF PagesInv
<1>2. PagesInv /\ [ReportsNext]_rvars => PagesInv'
  BY NextPages
<1>3. [ReportsNext]_rvars => ReportsNext \/ UNCHANGED rvars
  OBVIOUS
<1> QED BY <1>1, PagesHold, PTL DEF WorkNeverImproves

\* The health of the lists of requests is one of the rules of the page's.
LEMMA HealthsHold == PagesInv => HealthsAgree
<1> SUFFICES ASSUME PagesInv, NEW m \in Existing
             PROVE  Ranks[RequestHealth(m)] <= Ranks[Health(m)]
  BY DEF HealthsAgree
<1> DEFINE n == Metrics(m)
           S == Opened(m)
<1>0. OpenLimit \in Nat /\ LateLimit \in Nat \ {0} /\ machine[m].posted \in BOOLEAN
  BY EquipmentAssumption, PostedType DEF PagesInv
<1>1. n \in Figures
  BY MetricsType
<1>2. /\ n.opened \in Nat /\ n.urgent \in Nat /\ n.requests \in Nat /\ n.tasks \in Nat
      /\ n.late \in Nat /\ n.purchases \in Nat
  BY <1>1 DEF Figures
<1>3. /\ n.opened = Cardinality(S) /\ n.urgent = Cardinality(S \cap urgent)
  BY DEF Metrics
<1>4. S \subseteq Interventions /\ S \cap urgent \subseteq Interventions
  BY DEF Opened, On, Live
<1>5. IsFiniteSet(S) /\ IsFiniteSet(S \cap urgent)
  BY <1>4, FiniteTables
<1>6. (S # {} <=> n.opened > 0) /\ (S \cap urgent # {} <=> n.urgent >= 1)
  BY <1>2, <1>3, <1>5, FS_EmptySet
<1>7. /\ Ranks["ok"] = 0 /\ Ranks["maintenance"] = 1 /\ Ranks["warning"] = 2
      /\ Ranks["critical"] = 3
  BY DEF Ranks
<1>8. RequestHealth(m) = IF n.urgent >= 1 THEN "critical"
                         ELSE IF n.opened > OpenLimit THEN "warning"
                         ELSE IF n.opened > 0 THEN "maintenance" ELSE "ok"
  BY <1>3, <1>6 DEF RequestHealth, RequestLevel
<1>9. Health(m) = Level(n, machine[m].posted)
  BY DEF Health
<1> HIDE DEF n, S
<1> QED BY <1>0, <1>2, <1>7, <1>8, <1>9 DEF Level, First

LEMMA Least ==
    ASSUME NEW B \in SUBSET Nat, B # {}
    PROVE  \E n \in B : \A m \in B : n <= m
<1> DEFINE R == {ss \in Nat \X Nat : ss[1] < ss[2]}
<1>1. IsWellFoundedOn(R, Nat)
  BY NatLessThanWellFounded DEF OpToRel
<1> HIDE DEF R
<1>2. PICK n \in B : \A m \in B : <<m, n>> \notin R
  BY <1>1, WFMin
<1>3. ASSUME NEW m \in B PROVE n <= m
  <2>1. <<m, n>> \in Nat \X Nat /\ <<m, n>>[1] = m /\ <<m, n>>[2] = n
    OBVIOUS
  <2> QED BY <1>2, <2>1 DEF R
<1> QED BY <1>3

LEMMA Counting ==
    ASSUME NEW P \in SUBSET Nat, 0 \in P, \A n \in P : n + 1 \in P
    PROVE  P = Nat
<1>1. ASSUME Nat \ P # {} PROVE FALSE
  <2>1. PICK n \in Nat \ P : \A m \in Nat \ P : n <= m
    BY <1>1, Least
  <2>2. n - 1 \in Nat /\ n - 1 + 1 = n /\ ~ (n <= n - 1)
    <3>1. n # 0
      OBVIOUS
    <3> QED BY <3>1
  <2> QED BY <2>1, <2>2
<1> QED BY <1>1

\* Whatever holds of a subset as soon as it holds of it without any one element
LEMMA SubsetsOf ==
    ASSUME NEW S, IsFiniteSet(S), NEW Good \in SUBSET SUBSET S,
           \A t \in SUBSET S : (\A x \in t : t \ {x} \in Good) => t \in Good
    PROVE  Good = SUBSET S
<1> DEFINE P == {n \in Nat : \A t \in SUBSET S : Cardinality(t) <= n => t \in Good}
<1>0. \A t \in SUBSET S : /\ IsFiniteSet(t) /\ Cardinality(t) \in Nat
                          /\ \A x \in t : Cardinality(t \ {x}) = Cardinality(t) - 1
  BY FS_Subset, FS_CardinalityType, FS_RemoveElement
<1>1. 0 \in P
  <2>1. ASSUME NEW t \in SUBSET S, Cardinality(t) <= 0 PROVE t \in Good
    <3>1. t = {}
      BY <1>0, <2>1, FS_EmptySet
    <3> QED BY <3>1
  <2> QED BY <2>1
<1>2. ASSUME NEW n \in P PROVE n + 1 \in P
  <2>1. ASSUME NEW t \in SUBSET S, Cardinality(t) <= n + 1 PROVE t \in Good
    <3>1. ASSUME NEW x \in t PROVE t \ {x} \in Good
      BY <1>0, <2>1
    <3> QED BY <3>1
  <2> QED BY <2>1
<1> HIDE DEF P
<1>3. P = Nat
  <2>1. P \in SUBSET Nat
    BY DEF P
  <2> QED BY <1>1, <1>2, <2>1, Counting
<1>4. ASSUME NEW t \in SUBSET S PROVE t \in Good
  BY <1>0, <1>3 DEF P
<1> QED BY <1>4

AnyOf(s) == CHOOSE x \in s : TRUE

\* The function by which the sum is defined
Adds(f, S, g) ==
    g = [s \in SUBSET S |-> IF s = {} THEN 0 ELSE f[AnyOf(s)] + g[s \ {AnyOf(s)}]]

LEMMA SumIs ==
    ASSUME NEW f, NEW S
    PROVE  SumFunctionOnSet(f, S) = (CHOOSE g : Adds(f, S, g))[S]
BY DEF SumFunctionOnSet, FoldFunctionOnSet, MapThenFoldSet, Adds, AnyOf

Numbers(f, S) == \A x \in S : f[x] \in Nat

\* It exists: right for the sets of n elements at most, n by n.
LEMMA SumExists ==
    ASSUME NEW f, NEW S, IsFiniteSet(S), Numbers(f, S)
    PROVE  \E g : Adds(f, S, g)
<1> DEFINE Step(g, s) == IF s = {} THEN 0 ELSE f[AnyOf(s)] + g[s \ {AnyOf(s)}]
           Upto(g, n) == \A s \in SUBSET S : Cardinality(s) <= n => g[s] = Step(g, s)
           P == {n \in Nat : \E g \in [SUBSET S -> Nat] : Upto(g, n)}
<1>0. \A s \in SUBSET S : /\ IsFiniteSet(s) /\ Cardinality(s) \in Nat
                          /\ s # {} => /\ AnyOf(s) \in s
                                       /\ Cardinality(s \ {AnyOf(s)}) = Cardinality(s) - 1
                          /\ Cardinality(s) = 0 => s = {}
  <2>1. \A s \in SUBSET S : s # {} => AnyOf(s) \in s
    BY DEF AnyOf
  <2> QED BY <2>1, FS_Subset, FS_CardinalityType, FS_RemoveElement, FS_EmptySet
<1>1. 0 \in P
  <2> DEFINE g == [s \in SUBSET S |-> 0]
  <2>1. g \in [SUBSET S -> Nat]
    OBVIOUS
  <2>2. ASSUME NEW s \in SUBSET S, Cardinality(s) <= 0 PROVE g[s] = Step(g, s)
    <3>1. Cardinality(s) \in Nat /\ (Cardinality(s) = 0 => s = {})
      BY <1>0
    <3> HIDE DEF g
    <3>2. s = {}
      BY <2>2, <3>1
    <3> USE DEF g
    <3> QED BY <3>2
  <2> QED BY <2>1, <2>2
<1>2. ASSUME NEW n \in P PROVE n + 1 \in P
  <2>1. PICK g \in [SUBSET S -> Nat] : Upto(g, n)
    OBVIOUS
  <2> DEFINE h == [s \in SUBSET S |-> IF Cardinality(s) <= n THEN g[s] ELSE Step(g, s)]
  <2>2. h \in [SUBSET S -> Nat]
    <3>1. ASSUME NEW s \in SUBSET S PROVE Step(g, s) \in Nat
      <4>1. CASE s = {}
        BY <4>1
      <4>2. CASE s # {}
        <5>1. AnyOf(s) \in S
          BY <1>0, <4>2
        <5>2. f[AnyOf(s)] \in Nat /\ g[s \ {AnyOf(s)}] \in Nat
          BY <5>1 DEF Numbers
        <5> QED BY <4>2, <5>2
      <4> QED BY <4>1, <4>2
    <3> HIDE DEF Step
    <3> QED BY <3>1
  <2>3. ASSUME NEW s \in SUBSET S, Cardinality(s) <= n + 1 PROVE h[s] = Step(h, s)
    <3>1. h[s] = Step(g, s)
      BY <2>1
    <3>2. s # {} => h[s \ {AnyOf(s)}] = g[s \ {AnyOf(s)}]
      BY <1>0, <2>3
    <3> HIDE DEF h
    <3> QED BY <3>1, <3>2
  <2> HIDE DEF h
  <2>4. Upto(h, n + 1)
    BY <2>3
  <2>5. n + 1 \in Nat
    OBVIOUS
  <2> HIDE DEF Upto, Step
  <2> QED BY <2>2, <2>4, <2>5
<1>3. P = Nat
  <2>1. P \in SUBSET Nat
    OBVIOUS
  <2> HIDE DEF P
  <2> QED BY <1>1, <1>2, <2>1, Counting
<1>4. Cardinality(S) \in P
  BY <1>3, FS_CardinalityType
<1>5. PICK g \in [SUBSET S -> Nat] : Upto(g, Cardinality(S))
  BY <1>4
<1>6. ASSUME NEW s \in SUBSET S PROVE g[s] = Step(g, s)
  BY <1>5, FS_Subset
<1>7. g = [s \in SUBSET S |-> Step(g, s)]
  BY <1>6
<1> QED BY <1>7 DEF Adds

\* It is the only one, on the subsets on which the functions agree.
LEMMA SumUnique ==
    ASSUME NEW f, NEW S, IsFiniteSet(S), NEW g, Adds(f, S, g), Numbers(f, S),
           NEW e, NEW T \in SUBSET S, NEW h, Adds(e, T, h), \A x \in T : e[x] = f[x]
    PROVE  \A t \in SUBSET T : g[t] = h[t] /\ g[t] \in Nat
<1> DEFINE Good == {t \in SUBSET T : g[t] = h[t] /\ g[t] \in Nat}
<1>1. ASSUME NEW t \in SUBSET T, \A x \in t : t \ {x} \in Good PROVE t \in Good
  <2>1. /\ g[t] = IF t = {} THEN 0 ELSE f[AnyOf(t)] + g[t \ {AnyOf(t)}]
        /\ h[t] = IF t = {} THEN 0 ELSE e[AnyOf(t)] + h[t \ {AnyOf(t)}]
    BY DEF Adds
  <2>2. CASE t = {}
    BY <2>1, <2>2
  <2>3. CASE t # {}
    <3>1. AnyOf(t) \in t
      BY <2>3 DEF AnyOf
    <3>2. t \ {AnyOf(t)} \in Good
      BY <1>1, <3>1
    <3> QED BY <2>1, <2>3, <3>1, <3>2 DEF Numbers
  <2> QED BY <2>2, <2>3
<1>2. Good \in SUBSET SUBSET T /\ IsFiniteSet(T)
  BY FS_Subset
<1> HIDE DEF Good
<1>3. Good = SUBSET T
  BY <1>1, <1>2, SubsetsOf
<1> QED BY <1>3 DEF Good

\* The sum over S, as that function gives it for any of its subsets
LEMMA SumOn ==
    ASSUME NEW f, NEW S, IsFiniteSet(S), Numbers(f, S)
    PROVE  \E g : /\ Adds(f, S, g)
                  /\ \A t \in SUBSET S : SumFunctionOnSet(f, t) = g[t] /\ g[t] \in Nat
<1>1. PICK g : Adds(f, S, g)
  BY SumExists
<1>2. ASSUME NEW t \in SUBSET S PROVE SumFunctionOnSet(f, t) = g[t] /\ g[t] \in Nat
  <2>1. IsFiniteSet(t) /\ Numbers(f, t)
    BY FS_Subset DEF Numbers
  <2> DEFINE h == CHOOSE h : Adds(f, t, h)
  <2>2. Adds(f, t, h)
    BY <2>1, SumExists
  <2>3. SumFunctionOnSet(f, t) = h[t]
    BY SumIs
  <2> HIDE DEF h
  <2> QED BY <1>1, <2>2, <2>3, SumUnique
<1> QED BY <1>1, <1>2

LEMMA SumType ==
    ASSUME NEW f, NEW S, IsFiniteSet(S), Numbers(f, S)
    PROVE  SumFunctionOnSet(f, S) \in Nat
BY SumOn

\* Any element may be taken out, not only the one the definition takes.
LEMMA SumTakeOut ==
    ASSUME NEW f, NEW S, IsFiniteSet(S), Numbers(f, S), NEW y \in S
    PROVE  /\ SumFunctionOnSet(f, S) = f[y] + SumFunctionOnSet(f, S \ {y})
           /\ SumFunctionOnSet(f, S \ {y}) \in Nat
<1>1. PICK g : /\ Adds(f, S, g)
               /\ \A t \in SUBSET S : SumFunctionOnSet(f, t) = g[t] /\ g[t] \in Nat
  BY SumOn
<1> DEFINE Good == {t \in SUBSET S : \A x \in t : g[t] = f[x] + g[t \ {x}]}
<1>2. ASSUME NEW t \in SUBSET S, \A x \in t : t \ {x} \in Good PROVE t \in Good
  <2> SUFFICES ASSUME NEW x \in t PROVE g[t] = f[x] + g[t \ {x}]
    OBVIOUS
  <2> DEFINE z == AnyOf(t)
  <2>1. z \in t
    BY DEF AnyOf
  <2>2. g[t] = f[z] + g[t \ {z}]
    BY <1>1 DEF Adds
  <2> HIDE DEF z
  <2>3. CASE x = z
    BY <2>2, <2>3
  <2>4. CASE x # z
    <3>1. g[t \ {z}] = f[x] + g[(t \ {z}) \ {x}]
      BY <1>2, <2>1, <2>4
    <3>2. g[t \ {x}] = f[z] + g[(t \ {x}) \ {z}]
      BY <1>2, <2>1, <2>4
    <3>3. (t \ {z}) \ {x} = (t \ {x}) \ {z}
      OBVIOUS
    <3>4. f[x] \in Nat /\ f[z] \in Nat /\ g[(t \ {x}) \ {z}] \in Nat
      BY <1>1, <2>1 DEF Numbers
    <3> HIDE DEF Good
    <3> DEFINE a == f[x]
               b == f[z]
               c == g[(t \ {x}) \ {z}]
    <3>5. a \in Nat /\ b \in Nat /\ c \in Nat
      BY <3>4
    <3>6. g[t] = b + (a + c) /\ g[t \ {x}] = b + c
      BY <2>2, <3>1, <3>2, <3>3
    <3> HIDE DEF a, b, c
    <3>7. g[t] = a + g[t \ {x}]
      BY <3>5, <3>6
    <3> QED BY <3>7 DEF a
  <2> QED BY <2>3, <2>4
<1>3. Good \in SUBSET SUBSET S
  OBVIOUS
<1> HIDE DEF Good
<1>4. Good = SUBSET S
  BY <1>2, <1>3, SubsetsOf
<1>5. g[S] = f[y] + g[S \ {y}]
  BY <1>4 DEF Good
<1> QED BY <1>1, <1>5

LEMMA SumSame ==
    ASSUME NEW f, NEW S, IsFiniteSet(S), Numbers(f, S), NEW e, \A x \in S : e[x] = f[x]
    PROVE  SumFunctionOnSet(e, S) = SumFunctionOnSet(f, S)
<1>1. PICK g : Adds(f, S, g) /\ \A t \in SUBSET S : SumFunctionOnSet(f, t) = g[t]
  BY SumOn
<1>2. PICK h : Adds(e, S, h) /\ \A t \in SUBSET S : SumFunctionOnSet(e, t) = h[t]
  BY SumOn DEF Numbers
<1>3. g[S] = h[S]
  BY <1>1, <1>2, SumUnique
<1> QED BY <1>1, <1>2, <1>3

LEMMA SumNone ==
    ASSUME NEW f
    PROVE  SumFunctionOnSet(f, {}) = 0
<1>1. IsFiniteSet({}) /\ Numbers(f, {})
  BY FS_EmptySet DEF Numbers
<1>2. PICK g : Adds(f, {}, g) /\ \A t \in SUBSET {} : SumFunctionOnSet(f, t) = g[t]
  BY <1>1, SumOn
<1>3. g[{}] = 0
  BY <1>2 DEF Adds
<1> QED BY <1>2, <1>3

\* The sums of disjoint sets add up.
LEMMA SumSplit ==
    ASSUME NEW f, NEW A, NEW B, IsFiniteSet(A), IsFiniteSet(B), A \cap B = {},
           Numbers(f, A), Numbers(f, B)
    PROVE  SumFunctionOnSet(f, A \cup B) = SumFunctionOnSet(f, A) + SumFunctionOnSet(f, B)
<1> DEFINE Good == {t \in SUBSET A : SumFunctionOnSet(f, t \cup B)
                                         = SumFunctionOnSet(f, t) + SumFunctionOnSet(f, B)}
<1>0. SumFunctionOnSet(f, B) \in Nat
  BY SumType
<1>1. ASSUME NEW t \in SUBSET A, \A x \in t : t \ {x} \in Good PROVE t \in Good
  <2>0. /\ IsFiniteSet(t) /\ Numbers(f, t)
        /\ IsFiniteSet(t \cup B) /\ Numbers(f, t \cup B)
    BY FS_Subset, FS_Union DEF Numbers
  <2>1. CASE t = {}
    <3>1. SumFunctionOnSet(f, t) = 0
      BY <2>0, <2>1, SumNone
    <3>2. SumFunctionOnSet(f, t \cup B) = SumFunctionOnSet(f, B)
      <4>1. t \cup B = B
        BY <2>1
      <4> QED BY <4>1
    <3>3. SumFunctionOnSet(f, t \cup B) = SumFunctionOnSet(f, t) + SumFunctionOnSet(f, B)
      BY <1>0, <3>1, <3>2
    <3> QED BY <3>3
  <2>2. CASE t # {}
    <3>1. PICK x \in t : TRUE
      BY <2>2
    <3>2. /\ SumFunctionOnSet(f, t) = f[x] + SumFunctionOnSet(f, t \ {x})
          /\ SumFunctionOnSet(f, t \ {x}) \in Nat
      BY <2>0, <3>1, SumTakeOut
    <3>3. SumFunctionOnSet(f, t \cup B) = f[x] + SumFunctionOnSet(f, (t \cup B) \ {x})
      BY <2>0, <3>1, SumTakeOut
    <3>4. (t \cup B) \ {x} = (t \ {x}) \cup B
      BY <3>1
    <3>5. SumFunctionOnSet(f, (t \ {x}) \cup B)
              = SumFunctionOnSet(f, t \ {x}) + SumFunctionOnSet(f, B)
      BY <1>1, <3>1
    <3>6. f[x] \in Nat
      BY <2>0, <3>1 DEF Numbers
    <3>7. SumFunctionOnSet(f, t \cup B) = f[x] + SumFunctionOnSet(f, (t \ {x}) \cup B)
      BY <3>3, <3>4
    <3>8. SumFunctionOnSet(f, t \cup B) = SumFunctionOnSet(f, t) + SumFunctionOnSet(f, B)
      BY <1>0, <3>2, <3>5, <3>6, <3>7
    <3> QED BY <3>8
  <2> QED BY <2>1, <2>2
<1>2. Good \in SUBSET SUBSET A
  OBVIOUS
<1> HIDE DEF Good
<1>3. Good = SUBSET A
  BY <1>1, <1>2, SubsetsOf
<1> QED BY <1>3 DEF Good

\* A part counts no more than the whole.
LEMMA SumPart ==
    ASSUME NEW f, NEW S, IsFiniteSet(S), Numbers(f, S), NEW A \in SUBSET S
    PROVE  /\ SumFunctionOnSet(f, A) \in Nat
           /\ SumFunctionOnSet(f, S \ A) \in Nat
           /\ SumFunctionOnSet(f, S) = SumFunctionOnSet(f, A) + SumFunctionOnSet(f, S \ A)
<1>1. /\ IsFiniteSet(A) /\ IsFiniteSet(S \ A)
      /\ Numbers(f, A) /\ Numbers(f, S \ A) /\ A \cap (S \ A) = {} /\ A \cup (S \ A) = S
  BY FS_Subset DEF Numbers
<1> QED BY <1>1, SumSplit, SumType, ZenonT(60)

\* Terms counted one by one, under other names
LEMMA SumRenamed ==
    ASSUME NEW S, IsFiniteSet(S), NEW T, NEW h \in [S -> T],
           \A x, y \in S : h[x] = h[y] => x = y,
           \A y \in T : \E x \in S : h[x] = y,
           NEW f, Numbers(f, T), NEW e, \A x \in S : e[x] = f[h[x]]
    PROVE  SumFunctionOnSet(e, S) = SumFunctionOnSet(f, T)
<1> DEFINE Image(t) == {h[x] : x \in t}
           Good == {t \in SUBSET S : SumFunctionOnSet(e, t) = SumFunctionOnSet(f, Image(t))}
<1>0. IsFiniteSet(T)
  <2>1. h \in Surjection(S, T)
    BY DEF Surjection
  <2> QED BY <2>1, FS_Surjection
<1>1. ASSUME NEW t \in SUBSET S, \A x \in t : t \ {x} \in Good PROVE t \in Good
  <2>0. /\ IsFiniteSet(t) /\ Numbers(e, t)
        /\ IsFiniteSet(Image(t)) /\ Numbers(f, Image(t))
    <3>1. Image(t) \in SUBSET T
      OBVIOUS
    <3> HIDE DEF Image
    <3> QED BY <1>0, <3>1, FS_Subset DEF Numbers
  <2>1. CASE t = {}
    <3>1. Image(t) = {}
      BY <2>1
    <3> HIDE DEF Image
    <3> QED BY <2>0, <2>1, <3>1, SumNone
  <2>2. CASE t # {}
    <3>1. PICK x \in t : TRUE
      BY <2>2
    <3>2. h[x] \in Image(t) /\ Image(t) \ {h[x]} = Image(t \ {x})
      BY <3>1
    <3>3. SumFunctionOnSet(e, t \ {x}) = SumFunctionOnSet(f, Image(t \ {x}))
      BY <1>1, <3>1
    <3>4. e[x] = f[h[x]]
      BY <3>1
    <3> HIDE DEF Image
    <3>5. SumFunctionOnSet(e, t) = e[x] + SumFunctionOnSet(e, t \ {x})
      BY <2>0, <3>1, SumTakeOut
    <3>6. SumFunctionOnSet(f, Image(t)) = f[h[x]] + SumFunctionOnSet(f, Image(t) \ {h[x]})
      BY <2>0, <3>2, SumTakeOut
    <3> QED BY <3>2, <3>3, <3>4, <3>5, <3>6
  <2> QED BY <2>1, <2>2
<1>2. Good \in SUBSET SUBSET S
  OBVIOUS
<1> HIDE DEF Good
<1>3. Good = SUBSET S
  BY <1>1, <1>2, SubsetsOf
<1>4. Image(S) = T
  OBVIOUS
<1> QED BY <1>3, <1>4 DEF Good

Alike(S, g, y) == {x \in S : g[x] = y}

\* The sum of the sums, class by class
LEMMA SumClasses ==
    ASSUME NEW f, NEW S, IsFiniteSet(S), Numbers(f, S), NEW T, IsFiniteSet(T), NEW g,
           \A x \in S : g[x] \in T,
           NEW e, \A y \in T : e[y] = SumFunctionOnSet(f, Alike(S, g, y))
    PROVE  SumFunctionOnSet(e, T) = SumFunctionOnSet(f, S)
<1> DEFINE Of(u) == {x \in S : g[x] \in u}
           Good == {u \in SUBSET T : SumFunctionOnSet(e, u) = SumFunctionOnSet(f, Of(u))}
<1>0. \A A \in SUBSET S : IsFiniteSet(A) /\ Numbers(f, A) /\ SumFunctionOnSet(f, A) \in Nat
  BY FS_Subset, SumType DEF Numbers
<1>a. \A u : Of(u) \in SUBSET S
  OBVIOUS
<1>b. \A y \in T : Alike(S, g, y) \in SUBSET S /\ e[y] \in Nat
  BY <1>0 DEF Alike
<1>1. ASSUME NEW u \in SUBSET T, \A y \in u : u \ {y} \in Good PROVE u \in Good
  <2>0. IsFiniteSet(u) /\ Numbers(e, u)
    BY <1>b, FS_Subset DEF Numbers
  <2>1. CASE u = {}
    <3>1. Of(u) = {}
      BY <2>1
    <3>2. SumFunctionOnSet(f, Of(u)) = 0
      BY <1>0, <3>1, SumNone
    <3> HIDE DEF Of
    <3> QED BY <2>0, <2>1, <3>2, SumNone
  <2>2. CASE u # {}
    <3>1. PICK y \in u : TRUE
      BY <2>2
    <3> DEFINE A == Alike(S, g, y)
    <3>2. /\ A \in SUBSET S /\ A \cap Of(u \ {y}) = {}
          /\ A \cup Of(u \ {y}) = Of(u)
      BY <3>1 DEF Alike
    <3>3. e[y] = SumFunctionOnSet(f, A)
      BY <3>1
    <3>4. SumFunctionOnSet(e, u \ {y}) = SumFunctionOnSet(f, Of(u \ {y}))
      BY <1>1, <3>1
    <3> HIDE DEF Of, A
    <3>5. SumFunctionOnSet(f, Of(u)) = SumFunctionOnSet(f, A) + SumFunctionOnSet(f, Of(u \ {y}))
      <4>1. /\ IsFiniteSet(A) /\ Numbers(f, A)
            /\ IsFiniteSet(Of(u \ {y})) /\ Numbers(f, Of(u \ {y}))
        BY <1>0, <1>a, <3>2
      <4>2. SumFunctionOnSet(f, A \cup Of(u \ {y}))
                = SumFunctionOnSet(f, A) + SumFunctionOnSet(f, Of(u \ {y}))
        BY <3>2, <4>1, SumSplit
      <4> QED BY <3>2, <4>2
    <3>6. SumFunctionOnSet(e, u) = e[y] + SumFunctionOnSet(e, u \ {y})
      BY <2>0, <3>1, SumTakeOut
    <3> QED BY <3>3, <3>4, <3>5, <3>6
  <2> QED BY <2>1, <2>2
<1>2. Good \in SUBSET SUBSET T
  OBVIOUS
<1>4. Of(T) = S
  OBVIOUS
<1> HIDE DEF Good
<1>3. Good = SUBSET T
  BY <1>1, <1>2, SubsetsOf
<1> QED BY <1>3, <1>4 DEF Good

\* Every element counted once
LEMMA SumOfOnes ==
    ASSUME NEW f, NEW S, IsFiniteSet(S), \A x \in S : f[x] = 1
    PROVE  SumFunctionOnSet(f, S) = Cardinality(S)
<1> DEFINE Good == {t \in SUBSET S : SumFunctionOnSet(f, t) = Cardinality(t)}
<1>1. ASSUME NEW t \in SUBSET S, \A x \in t : t \ {x} \in Good PROVE t \in Good
  <2>0. IsFiniteSet(t) /\ Numbers(f, t) /\ Cardinality(t) \in Nat
    BY FS_Subset, FS_CardinalityType DEF Numbers
  <2>1. CASE t = {}
    BY <2>0, <2>1, SumNone, FS_EmptySet
  <2>2. CASE t # {}
    <3>1. PICK x \in t : TRUE
      BY <2>2
    <3>2. SumFunctionOnSet(f, t) = f[x] + SumFunctionOnSet(f, t \ {x})
      BY <2>0, <3>1, SumTakeOut
    <3>3. Cardinality(t \ {x}) = Cardinality(t) - 1
      BY <2>0, <3>1, FS_RemoveElement
    <3>4. SumFunctionOnSet(f, t \ {x}) = Cardinality(t \ {x}) /\ f[x] = 1
      BY <1>1, <3>1
    <3> QED BY <2>0, <3>2, <3>3, <3>4
  <2> QED BY <2>1, <2>2
<1>2. Good \in SUBSET SUBSET S
  OBVIOUS
<1> HIDE DEF Good
<1>3. Good = SUBSET S
  BY <1>1, <1>2, SubsetsOf
<1> QED BY <1>3 DEF Good

\* Every element counted for the same
LEMMA SumAlike ==
    ASSUME NEW c \in Nat, NEW f, NEW S, IsFiniteSet(S), \A x \in S : f[x] = c
    PROVE  SumFunctionOnSet(f, S) = Cardinality(S) * c
<1> DEFINE Good == {t \in SUBSET S : SumFunctionOnSet(f, t) = Cardinality(t) * c}
<1>1. ASSUME NEW t \in SUBSET S, \A x \in t : t \ {x} \in Good PROVE t \in Good
  <2>0. IsFiniteSet(t) /\ Numbers(f, t) /\ Cardinality(t) \in Nat
    BY FS_Subset, FS_CardinalityType DEF Numbers
  <2>1. CASE t = {}
    BY <2>0, <2>1, SumNone, FS_EmptySet
  <2>2. CASE t # {}
    <3>1. PICK x \in t : TRUE
      BY <2>2
    <3>2. SumFunctionOnSet(f, t) = f[x] + SumFunctionOnSet(f, t \ {x})
      BY <2>0, <3>1, SumTakeOut
    <3>3. Cardinality(t \ {x}) = Cardinality(t) - 1
      BY <2>0, <3>1, FS_RemoveElement
    <3>4. SumFunctionOnSet(f, t \ {x}) = Cardinality(t \ {x}) * c /\ f[x] = c
      BY <1>1, <3>1
    <3>5. \A n \in Nat : (n - 1) * c + c = n * c
      OBVIOUS
    <3>6. SumFunctionOnSet(f, t) = Cardinality(t) * c
      <4> DEFINE n == Cardinality(t)
      <4>1. SumFunctionOnSet(f, t) = c + (n - 1) * c /\ n \in Nat
        BY <2>0, <3>2, <3>3, <3>4
      <4> HIDE DEF n
      <4>2. SumFunctionOnSet(f, t) = n * c
        BY <3>5, <4>1
      <4> QED BY <4>2 DEF n
    <3> QED BY <3>6
  <2> QED BY <2>1, <2>2
<1>2. Good \in SUBSET SUBSET S
  OBVIOUS
<1> HIDE DEF Good
<1>3. Good = SUBSET S
  BY <1>1, <1>2, SubsetsOf
<1> QED BY <1>3 DEF Good

\* Terms that are no greater add up to no more.
LEMMA SumOrdered ==
    ASSUME NEW S, IsFiniteSet(S), NEW f, NEW e, Numbers(f, S), Numbers(e, S),
           \A x \in S : f[x] <= e[x]
    PROVE  SumFunctionOnSet(f, S) <= SumFunctionOnSet(e, S)
<1> DEFINE Good == {t \in SUBSET S : SumFunctionOnSet(f, t) <= SumFunctionOnSet(e, t)}
<1>1. ASSUME NEW t \in SUBSET S, \A x \in t : t \ {x} \in Good PROVE t \in Good
  <2>0. IsFiniteSet(t) /\ Numbers(f, t) /\ Numbers(e, t)
    BY FS_Subset DEF Numbers
  <2>1. CASE t = {}
    BY <2>0, <2>1, SumNone
  <2>2. CASE t # {}
    <3>1. PICK x \in t : TRUE
      BY <2>2
    <3>2. /\ SumFunctionOnSet(f, t) = f[x] + SumFunctionOnSet(f, t \ {x})
          /\ SumFunctionOnSet(f, t \ {x}) \in Nat
      BY <2>0, <3>1, SumTakeOut
    <3>3. /\ SumFunctionOnSet(e, t) = e[x] + SumFunctionOnSet(e, t \ {x})
          /\ SumFunctionOnSet(e, t \ {x}) \in Nat
      BY <2>0, <3>1, SumTakeOut
    <3>4. /\ SumFunctionOnSet(f, t \ {x}) <= SumFunctionOnSet(e, t \ {x})
          /\ f[x] <= e[x] /\ f[x] \in Nat /\ e[x] \in Nat
      BY <1>1, <2>0, <3>1 DEF Numbers
    <3> QED BY <3>2, <3>3, <3>4
  <2> QED BY <2>1, <2>2
<1>2. Good \in SUBSET SUBSET S
  OBVIOUS
<1> HIDE DEF Good
<1>3. Good = SUBSET S
  BY <1>1, <1>2, SubsetsOf
<1> QED BY <1>3 DEF Good

LEMMA CardinalitySplit ==
    ASSUME NEW A, NEW B, IsFiniteSet(A), IsFiniteSet(B), A \cap B = {}
    PROVE  Cardinality(A \cup B) = Cardinality(A) + Cardinality(B)
<1>1. Cardinality(A \cap B) = 0 /\ Cardinality(A) \in Nat /\ Cardinality(B) \in Nat
  BY FS_EmptySet, FS_CardinalityType
<1>2. Cardinality(A \cup B) = Cardinality(A) + Cardinality(B) - Cardinality(A \cap B)
  BY FS_Union
<1> QED BY <1>1, <1>2

----------------------------------------------------------------------------
(* Which rows belong together *)

\* The one request of an existing intervention
LEMMA RequestOfIntervention ==
    ASSUME IInv, NEW i \in Interventions,
           LiveIntervention(db, i) \/ RequestsLinkedTo(db, i) # {}
             \/ (\E t \in Tasks : db.task[t].intervention = i)
    PROVE  /\ LiveIntervention(db, i)
           /\ \E r \in Requests : /\ RequestsLinkedTo(db, i) = {r}
                                  /\ db.request[r].statut \in {"acceptee", "cloturee"}
<1>1. LiveIntervention(db, i)
  BY DEF IInv, Consistent, ReferencesLive
<1>2. PICK r \in Requests : RequestsLinkedTo(db, i) = {r}
  BY <1>1 DEF IInv, OneRequestPerIntervention
<1>3. db.request[r].intervention = i
  BY <1>2 DEF RequestsLinkedTo
<1>4. db.request[r].statut \in {"acceptee", "cloturee"}
  BY <1>3, Rows DEF IInv, LinkedOnlyOnceAccepted
<1> QED BY <1>1, <1>2, <1>4

\* An occurrence that has an intervention has the request of that intervention.
LEMMA OccurrenceWorked ==
    ASSUME IInv, NEW o \in Occurrences, db.occurrence[o].intervention # Null
    PROVE  /\ db.occurrence[o].intervention \in Interventions
           /\ db.occurrence[o].request \in Requests
           /\ db.request[db.occurrence[o].request].intervention = db.occurrence[o].intervention
<1>1. db.occurrence[o].status \in {"in_progress", "completed"}
  BY Rows DEF IInv, OccurrenceFollowsRequest, FreshOccurrences, OccurrenceStatuses,
     ActiveOccurrence
<1> QED BY <1>1, Rows DEF IInv, OccurrenceFollowsRequest

\* A task found by its occurrence's request, and not by the intervention of that
\* request, has no intervention.
LEMMA TaskOfOccurrence ==
    ASSUME IInv, NEW t \in Tasks, NEW r \in Requests, db.task[t].occurrence # Null,
           db.occurrence[db.task[t].occurrence].request = r
    PROVE  \/ db.task[t].intervention = Null /\ db.request[r].intervention = Null
           \/ /\ db.task[t].intervention = db.request[r].intervention
<1> DEFINE o == db.task[t].occurrence
<1>1. o \in Occurrences
  BY Rows
<1>2. db.task[t].intervention = db.occurrence[o].intervention
  BY <1>1 DEF IInv, GammeFollowsOccurrence
<1> HIDE DEF o
<1>3. db.occurrence[o].request = r
  BY DEF o
<1>4. CASE db.occurrence[o].status = "generated"
  <2>1. db.occurrence[o].intervention = Null
    BY <1>1, <1>4 DEF IInv, OccurrenceFollowsRequest
  <2>2. db.request[r].statut \in {"nouvelle", "en_attente"}
    BY <1>1, <1>3, <1>4, RequestOfOccurrence
  <2>3. db.request[r].intervention = Null
    BY <2>2 DEF IInv, LinkedOnlyOnceAccepted
  <2> QED BY <1>2, <2>1, <2>3
<1>5. CASE db.request[r].intervention = db.occurrence[o].intervention
  BY <1>2, <1>5
<1> QED BY <1>1, <1>3, <1>4, <1>5, RequestOfOccurrence

LEMMA TaskOnceHolds == PagesInv => TaskShownOnce
<1> SUFFICES ASSUME PagesInv, NEW t \in Tasks
             PROVE  LET shown == {r \in Asking : t \in TasksShown(r)}
                    IN /\ Cardinality(shown) <= 1
                       /\ db.task[t].status \in TaskStatuses /\ db.task[t].intervention # Null
                              => shown # {}
  BY DEF TaskShownOnce
<1> DEFINE shown == {r \in Asking : t \in TasksShown(r)}
           i == db.task[t].intervention
<1>0. IInv /\ i \in Interventions \cup {Null}
  BY Rows DEF PagesInv
<1>1. \A r \in shown :
          /\ r \in Requests /\ db.request[r].statut \in Statuts
          /\ \/ db.request[r].intervention = i
             \/ /\ db.task[t].occurrence # Null
                /\ db.occurrence[db.task[t].occurrence].request = r
  BY DEF TasksShown, Asking
<1>2. \A r \in shown : db.request[r].intervention = i
  BY <1>0, <1>1, TaskOfOccurrence
<1>3. ASSUME NEW q \in shown, NEW r \in shown PROVE q = r
  <2>1. CASE i = Null
    <3>1. \A x \in shown : /\ db.task[t].occurrence # Null
                           /\ db.occurrence[db.task[t].occurrence].request = x
      BY <2>1, <1>2 DEF TasksShown
    <3> QED BY <3>1
  <2>2. CASE i \in Interventions
    <3>1. PICK x \in Requests : RequestsLinkedTo(db, i) = {x}
      BY <1>0, <2>2, RequestOfIntervention
    <3>2. q \in RequestsLinkedTo(db, i) /\ r \in RequestsLinkedTo(db, i)
      BY <1>1, <1>2 DEF RequestsLinkedTo
    <3> QED BY <3>1, <3>2
  <2> QED BY <1>0, <2>1, <2>2
<1>4. Cardinality(shown) <= 1
  <2>1. CASE shown = {}
    BY <2>1, FS_EmptySet
  <2>2. CASE shown # {}
    <3>1. PICK r \in shown : TRUE
      BY <2>2
    <3>2. shown = {r}
      BY <1>3, <3>1
    <3> QED BY <3>2, FS_Singleton
  <2> QED BY <2>1, <2>2
<1>5. ASSUME db.task[t].status \in TaskStatuses, i # Null PROVE shown # {}
  <2>1. PICK r \in Requests : /\ RequestsLinkedTo(db, i) = {r}
                              /\ db.request[r].statut \in {"acceptee", "cloturee"}
    BY <1>0, <1>5, RequestOfIntervention
  <2>2. db.request[r].intervention = i
    BY <2>1 DEF RequestsLinkedTo
  <2>3. r \in Asking
    BY <2>1 DEF Asking, Statuts
  <2>4. t \in TasksShown(r)
    BY <1>5, <2>2 DEF TasksShown
  <2> QED BY <2>3, <2>4
<1> QED BY <1>4, <1>5

\* The tasks of an intervention are those shown with its request.
LEMMA TasksOfRequest ==
    ASSUME PagesInv, NEW i \in Live, NEW r \in RequestsLinkedTo(db, i)
    PROVE  TasksShown(r) = TasksOf(db, i)
<1>1. /\ IInv /\ i \in Interventions /\ i # Null /\ r \in Requests
      /\ db.request[r].intervention = i
  BY Rows DEF PagesInv, Live, RequestsLinkedTo
<1>2. ASSUME NEW t \in Tasks, db.task[t].intervention = i PROVE t \in TasksShown(r)
  <2>1. db.task[t].status \in TaskStatuses
    BY <1>1, <1>2 DEF PagesInv, TasksPlaced
  <2> QED BY <1>1, <1>2, <2>1 DEF TasksShown
<1>3. ASSUME NEW t \in TasksShown(r) PROVE t \in Tasks /\ db.task[t].intervention = i
  BY <1>1, TaskOfOccurrence DEF TasksShown
<1> QED BY <1>2, <1>3 DEF TasksOf

LEMMA FiltersHold == PagesInv => FiltersPartition
<1> SUFFICES ASSUME PagesInv PROVE FiltersPartition
  OBVIOUS
<1>1. \A C \in SUBSET Classes : Selected(C) \cup Excluded(C) = Existing
  BY DEF Selected, Excluded
<1>2. SumFunction(ClassFacets) = Cardinality(Existing)
  <2> DEFINE S == Existing
             T == OrNone(Classes)
             f == [m \in S |-> 1]
             g == [m \in S |-> ClassOf(m)]
  <2>1. IsFiniteSet(S) /\ \A A \in SUBSET S : IsFiniteSet(A)
    BY FiniteTables DEF Existing
  <2>2. IsFiniteSet(T)
    BY FiniteTables, FS_AddElement DEF OrNone
  <2>3. Numbers(f, S) /\ \A A \in SUBSET S : SumFunctionOnSet(f, A) = Cardinality(A)
    BY <2>1, SumOfOnes DEF Numbers
  <2>4. \A m \in S : g[m] \in T
    <3>1. ASSUME NEW m \in Existing PROVE machine[m].class \in OrNone(Classes)
      BY PostedType DEF PagesInv, MachineRow
    <3> QED BY <3>1 DEF ClassOf
  <2>5. \A c \in T : ClassFacets[c] = SumFunctionOnSet(f, Alike(S, g, c))
    <3> TAKE c \in T
    <3>1. Alike(S, g, c) = {m \in Existing : ClassOf(m) = c}
      BY DEF Alike
    <3>2. SumFunctionOnSet(f, Alike(S, g, c)) = Cardinality(Alike(S, g, c))
      BY <2>3 DEF Alike
    <3>3. ClassFacets[c] = Cardinality({m \in Existing : ClassOf(m) = c})
      BY DEF ClassFacets
    <3> HIDE DEF S, g, f
    <3> QED BY <3>1, <3>2, <3>3
  <2>6. SumFunctionOnSet(f, S) = Cardinality(S)
    BY <2>3
  <2>7. DOMAIN ClassFacets = T
    BY DEF ClassFacets
  <2> HIDE DEF S, T, f, g
  <2>8. SumFunctionOnSet(ClassFacets, T) = SumFunctionOnSet(f, S)
    BY <2>1, <2>2, <2>3, <2>4, <2>5, SumClasses
  <2>9. SumFunction(ClassFacets) = SumFunctionOnSet(ClassFacets, T)
    BY <2>7 DEF SumFunction
  <2> QED BY <2>6, <2>8, <2>9 DEF S
<1>3. ASSUME NEW m \in Existing
      PROVE  Cardinality(MachineList([select |-> {}, exclude |-> {}, mother |-> m]))
                 = MachinePage(m).children
  <2>1. m # Null
    BY EquipmentAssumption DEF Existing
  <2>2. MachineList([select |-> {}, exclude |-> {}, mother |-> m]) = SubMachines(m)
    BY <2>1 DEF MachineList, SubMachines, Excluded, In, Is
  <2>3. MachinePage(m).children = Cardinality(SubMachines(m))
    BY DEF MachinePage
  <2> QED BY <2>2, <2>3
<1> QED BY <1>1, <1>2, <1>3 DEF FiltersPartition

LEMMA WorkspaceHolds == PagesInv => WorkspaceAgrees
<1> SUFFICES ASSUME PagesInv PROVE WorkspaceAgrees
  OBVIOUS
<1> DEFINE open == [intervention |-> Null, machine |-> Null, status |-> {}, closed |-> FALSE]
           shown(f) == UNION {Workspace(f)[i] : i \in DOMAIN Workspace(f)}
           Of(f) == {t \in TaskList(f) : /\ db.task[t].intervention # Null
                                         /\ Is(seat[db.task[t].intervention], f.machine)}
<1>0. IInv
  BY DEF PagesInv
<1>1. ASSUME NEW f PROVE shown(f) = Of(f)
  <2> DEFINE D == {db.task[t].intervention : t \in Of(f)}
             W == [i \in D |-> {t \in Of(f) : db.task[t].intervention = i}]
  <2>1. Workspace(f) = W
    BY DEF Workspace
  <2>2. DOMAIN W = D /\ \A i \in D : W[i] = {t \in Of(f) : db.task[t].intervention = i}
    OBVIOUS
  <2> HIDE DEF Of, W
  <2>3. UNION {W[i] : i \in DOMAIN W} = Of(f)
    <3>1. ASSUME NEW t \in Of(f) PROVE t \in UNION {W[i] : i \in DOMAIN W}
      <4>1. db.task[t].intervention \in D
        OBVIOUS
      <4>2. t \in W[db.task[t].intervention]
        BY <2>2, <4>1
      <4> QED BY <2>2, <4>1, <4>2
    <3>2. ASSUME NEW t \in UNION {W[i] : i \in DOMAIN W} PROVE t \in Of(f)
      BY <2>2
    <3> QED BY <3>1, <3>2
  <2> QED BY <2>1, <2>3
<1>2. \A t \in TaskList(open) : /\ t \in Tasks /\ db.task[t].status \in TaskStatuses
                                /\ db.task[t].status \in PendingTask
  BY DEF TaskList, TaskWanted
<1>3. ASSUME NEW m \in Machines PROVE shown([open EXCEPT !.machine = m]) = TodoOn(m)
  <2> DEFINE f == [open EXCEPT !.machine = m]
  <2>1. /\ f.intervention = Null /\ f.machine = m /\ f.status = {} /\ f.closed = FALSE
        /\ m # Null
    BY EquipmentAssumption
  <2> HIDE DEF f
  <2>2. Of(f) = TodoOn(m)
    BY <2>1 DEF TaskList, TaskWanted, Is, In, TodoOn, TaskStatuses
  <2>3. shown(f) = TodoOn(m)
    BY <1>1, <2>2
  <2> HIDE DEF shown
  <2> QED BY <2>3 DEF f
<1>4. ASSUME NEW t \in TaskList(open) \ shown(open)
      PROVE  /\ db.task[t].occurrence # Null
             /\ db.occurrence[db.task[t].occurrence].intervention = Null
  <2>1. t \in Tasks /\ db.task[t].status \in TaskStatuses /\ t \notin Of(open)
    BY <1>1, <1>2
  <2>2. db.task[t].intervention = Null
    BY <2>1 DEF Is
  <2>3. db.task[t].occurrence # Null
    BY <2>1, <2>2 DEF PagesInv, TasksPlaced
  <2> QED BY <1>0, <2>1, <2>2, <2>3 DEF IInv, GammeFollowsOccurrence
<1>5. Badges.tasks = Counters["todo"] + Counters["in_progress"]
  <2> DEFINE A == {t \in Tasks : db.task[t].status = "todo"}
             B == {t \in Tasks : db.task[t].status = "in_progress"}
             C == {t \in Tasks : db.task[t].status \in PendingTask}
  <2>1. Counters["todo"] = Cardinality(A) /\ Counters["in_progress"] = Cardinality(B)
    BY DEF Counters, TaskStatuses, PendingTask
  <2>2. Badges.tasks = Cardinality(C)
    BY DEF Badges
  <2>3. IsFiniteSet(A) /\ IsFiniteSet(B) /\ A \cap B = {} /\ A \cup B = C
    BY FiniteTables DEF PendingTask
  <2> HIDE DEF A, B, C
  <2>4. Cardinality(A \cup B) = Cardinality(A) + Cardinality(B)
    BY <2>3, CardinalitySplit
  <2> QED BY <2>1, <2>2, <2>3, <2>4
<1> QED BY <1>3, <1>4, <1>5 DEF WorkspaceAgrees

LEMMA GammeHolds ==
    ASSUME PagesInv, NEW o \in Occurrences, NEW i \in Live, db.occurrence[o].intervention = i
    PROVE  GammeOf(o) = TasksOf(db, i) \cap PlanTasks
<1>0. IInv /\ i \in Interventions /\ i # Null
  BY Rows DEF PagesInv, Live
<1>1. ASSUME NEW t \in GammeOf(o) PROVE t \in TasksOf(db, i) \cap PlanTasks
  <2>1. t \in Tasks /\ db.task[t].occurrence = o /\ o # Null
    BY <1>0, Rows DEF GammeOf
  <2>2. t \in PlanTasks
    BY <2>1 DEF PagesInv, PlanInv, GammeRows
  <2>3. db.task[t].intervention = i
    BY <1>0, <2>1 DEF IInv, GammeFollowsOccurrence
  <2> QED BY <2>1, <2>2, <2>3 DEF TasksOf
<1>2. ASSUME NEW t \in TasksOf(db, i) \cap PlanTasks PROVE t \in GammeOf(o)
  <2> DEFINE p == db.task[t].occurrence
  <2>1. t \in Tasks /\ t \in PlanTasks /\ db.task[t].intervention = i
    BY DEF TasksOf
  <2>2. p # Null
    BY <1>0, <2>1 DEF PagesInv, TasksPlaced
  <2>3. p \in Occurrences
    BY <1>0, <2>1, <2>2, Rows
  <2>4. db.occurrence[p].intervention = i
    BY <1>0, <2>1, <2>2 DEF IInv, GammeFollowsOccurrence
  <2> HIDE DEF p
  <2>5. /\ db.occurrence[p].request \in RequestsLinkedTo(db, i)
        /\ db.occurrence[o].request \in RequestsLinkedTo(db, i)
    BY <1>0, <2>3, <2>4, OccurrenceWorked DEF RequestsLinkedTo
  <2>6. db.occurrence[p].request = db.occurrence[o].request
    BY <1>0, <2>5, RequestOfIntervention
  <2>7. db.occurrence[p].request # Null
    BY <1>0, <2>5, Rows DEF RequestsLinkedTo
  <2>8. p = o
    BY <1>0, <2>3, <2>6, <2>7 DEF IInv, OneOccurrencePerRequest
  <2> QED BY <2>1, <2>8 DEF GammeOf, p
<1> QED BY <1>1, <1>2

LEMMA CountsHold == PagesInv => CountsAgree
<1> SUFFICES ASSUME PagesInv PROVE CountsAgree
  OBVIOUS
<1>0. /\ IInv
      /\ \A S : (S \subseteq Requests \/ S \subseteq Interventions \/ S \subseteq Occurrences)
                    => IsFiniteSet(S) /\ Cardinality(S) \in Nat
  BY FiniteTables DEF PagesInv
<1>1. ASSUME NEW m \in OrNone(Machines), NEW s \in Statuts
      PROVE  RequestCount([statut |-> s, except |-> {}, machine |-> m])
               + RequestCount([statut |-> Null, except |-> {s}, machine |-> m])
                 = RequestCount([statut |-> Null, except |-> {}, machine |-> m])
  <2> DEFINE A == RequestList([statut |-> s, except |-> {}, machine |-> m])
             B == RequestList([statut |-> Null, except |-> {s}, machine |-> m])
             C == RequestList([statut |-> Null, except |-> {}, machine |-> m])
  <2>1. s # Null
    BY EquipmentAssumption
  <2>2. /\ A \cap B = {} /\ A \cup B = C
        /\ A \subseteq Requests /\ B \subseteq Requests
    BY <2>1 DEF RequestList, RequestWanted, Is
  <2> HIDE DEF A, B, C
  <2>3. Cardinality(C) = Cardinality(A) + Cardinality(B)
    BY <1>0, <2>2, CardinalitySplit
  <2> QED BY <2>3 DEF RequestCount, A, B, C
<1>2. ASSUME NEW s \in Statuts
      PROVE  StatutFacets[s] = RequestCount([statut |-> s, except |-> {}, machine |-> Null])
  <2>1. s # Null
    BY EquipmentAssumption
  <2>2. RequestList([statut |-> s, except |-> {}, machine |-> Null])
            = {r \in Asking : db.request[r].statut = s}
    BY <2>1 DEF RequestList, RequestWanted, Is, Asking
  <2> QED BY <2>2 DEF RequestCount, StatutFacets
<1>3. Badges.requests = StatutFacets["nouvelle"] + StatutFacets["en_attente"]
                           + StatutFacets["acceptee"]
  <2> DEFINE With(s) == {r \in Asking : db.request[r].statut = s}
             A == With("nouvelle")
             B == With("en_attente")
             C == With("acceptee")
             D == {r \in Asking : db.request[r].statut \in {"nouvelle", "en_attente", "acceptee"}}
  <2>1. /\ StatutFacets["nouvelle"] = Cardinality(A)
        /\ StatutFacets["en_attente"] = Cardinality(B)
        /\ StatutFacets["acceptee"] = Cardinality(C)
    BY DEF StatutFacets, Statuts
  <2>2. Badges.requests = Cardinality(D)
    BY DEF Badges
  <2>3. /\ A \cap B = {} /\ (A \cup B) \cap C = {} /\ (A \cup B) \cup C = D
        /\ A \subseteq Requests /\ B \subseteq Requests /\ C \subseteq Requests
        /\ A \cup B \subseteq Requests
    BY DEF Asking
  <2> HIDE DEF A, B, C, D
  <2>4. Cardinality(A \cup B) = Cardinality(A) + Cardinality(B)
    BY <1>0, <2>3, CardinalitySplit
  <2>5. Cardinality((A \cup B) \cup C) = Cardinality(A \cup B) + Cardinality(C)
    BY <1>0, <2>3, CardinalitySplit
  <2> QED BY <2>1, <2>2, <2>3, <2>4, <2>5
<1>4. ASSUME NEW m \in Existing
      PROVE  LET page == MachinePage(m)
                 figures == MachineStats(m)
             IN /\ page.interventions = figures.open + figures.closed
                /\ figures.open = figures.by_status["ouvert"] + figures.by_status["in_progress"]
                /\ Metrics(m).urgent <= figures.urgent
                /\ page.occurrences["generated"] <= Cardinality(page.requests)
  <2> DEFINE L == On(Live, m)
             O == Opened(m)
             With(s) == {i \in L : db.intervention[i].status = s}
             A == With("ouvert")
             B == With("in_progress")
             G == {o \in On(Occurrences, m) : db.occurrence[o].status = "generated"}
             R == OpenRequests(m)
  <2>1. /\ MachinePage(m).interventions = Cardinality(L)
        /\ MachinePage(m).occurrences["generated"] = Cardinality(G)
        /\ MachinePage(m).requests = R
    BY DEF MachinePage, OccurrenceSummary
  <2>2. /\ MachineStats(m).open = Cardinality(O)
        /\ MachineStats(m).closed = Cardinality(L \ O)
        /\ MachineStats(m).by_status["ouvert"] = Cardinality(A)
        /\ MachineStats(m).by_status["in_progress"] = Cardinality(B)
        /\ MachineStats(m).urgent = Cardinality(L \cap urgent)
    BY DEF MachineStats, InterventionStatuses, OpenStatuses
  <2>3. Metrics(m).urgent = Cardinality(O \cap urgent)
    BY DEF Metrics
  <2>4. /\ L \subseteq Interventions /\ O \subseteq L /\ A \cap B = {} /\ A \cup B = O
        /\ A \subseteq Interventions /\ B \subseteq Interventions
    BY DEF On, Live, Opened, LiveIntervention, InterventionStatuses, OpenStatuses
  <2>5. G \subseteq Occurrences /\ R \subseteq Requests
    BY DEF On, OpenRequests, Asking
  <2>6. Cardinality(G) <= Cardinality(R)
    <3> DEFINE h == [o \in G |-> db.occurrence[o].request]
    <3>1. ASSUME NEW o \in G
          PROVE  db.occurrence[o].request \in R /\ db.occurrence[o].request # Null
      <4>1. o \in Occurrences /\ seat[o] = m /\ db.occurrence[o].status = "generated"
        BY DEF On
      <4>2. /\ db.occurrence[o].request # Null
            /\ db.request[db.occurrence[o].request].statut \in {"nouvelle", "en_attente"}
        BY <1>0, <4>1 DEF IInv, OccurrenceFollowsRequest
      <4>3. db.occurrence[o].request \in Requests
        BY <1>0, <4>1, <4>2, Rows
      <4>4. seat[db.occurrence[o].request] = m
        BY <4>1 DEF PagesInv, SameSeat
      <4> QED BY <4>2, <4>3, <4>4 DEF OpenRequests, On, Asking, Statuts
    <3>2. ASSUME NEW o \in G, NEW p \in G, h[o] = h[p] PROVE o = p
      BY <1>0, <2>5, <3>1, <3>2 DEF IInv, OneOccurrencePerRequest
    <3>3. h \in [G -> R]
      BY <3>1
    <3> HIDE DEF h, G, R
    <3>4. h \in Injection(G, R)
      BY <3>2, <3>3 DEF Injection, IsInjective
    <3> QED BY <1>0, <2>5, <3>4, FS_Injection
  <2> HIDE DEF L, O, A, B, G, R
  <2>7. Cardinality(L) = Cardinality(O) + Cardinality(L \ O)
    <3>1. /\ O \cap (L \ O) = {} /\ O \cup (L \ O) = L
          /\ O \subseteq Interventions /\ (L \ O) \subseteq Interventions
      BY <2>4
    <3>2. IsFiniteSet(O) /\ IsFiniteSet(L \ O)
      BY <1>0, <3>1
    <3> QED BY <3>1, <3>2, CardinalitySplit
  <2>8. Cardinality(O) = Cardinality(A) + Cardinality(B)
    BY <1>0, <2>4, CardinalitySplit
  <2>9. Cardinality(O \cap urgent) <= Cardinality(L \cap urgent)
    <3>1. O \cap urgent \subseteq L \cap urgent /\ L \cap urgent \subseteq Interventions
      BY <2>4
    <3> QED BY <1>0, <3>1, FS_Subset
  <2> QED BY <2>1, <2>2, <2>3, <2>6, <2>7, <2>8, <2>9
<1>5. ASSUME NEW o \in Occurrences, NEW i \in Live, db.occurrence[o].intervention = i
      PROVE  ProgressOf(GammeOf(o)) = ProgressOf(TasksOf(db, i) \cap PlanTasks)
  BY <1>5, GammeHolds
<1> QED BY <1>1, <1>2, <1>3, <1>4, <1>5 DEF CountsAgree

\* The item of an action names it, so that no two actions have the same item.
LEMMA ItemsOf ==
    ASSUME NEW S, S \subseteq Actions
    PROVE  /\ \A k \in S : ActionItem(k) \in ActionItems(S) /\ ActionItem(k).action = k
           /\ \A a \in ActionItems(S) : a.action \in S /\ a = ActionItem(a.action)
<1>1. \A k : ActionItem(k).action = k
  BY DEF ActionItem
<1>2. ActionItems(S) = {ActionItem(k) : k \in S}
  BY DEF ActionItems
<1> QED BY <1>1, <1>2

\* Nothing is counted twice by what is read of the actions.
LEMMA PageStats ==
    ASSUME PagesInv, NEW i \in Interventions
    PROVE  /\ Cardinality(ActionItems(ActionsOf(i))) = Cardinality(ActionsOf(i))
           /\ SumFunction([a \in ActionItems(ActionsOf(i)) |-> action[a.action].hours])
                  = HoursOf(i)
<1> DEFINE S == ActionsOf(i)
           T == ActionItems(S)
           h == [a \in T |-> a.action]
           f == [k \in S |-> action[k].hours]
           e == [a \in T |-> action[a.action].hours]
<1>1. S \subseteq Actions /\ IsFiniteSet(S)
  BY FiniteTables DEF ActionsOf
<1>2. \A k \in S : action[k].hours \in Nat
  BY EquipmentAssumption DEF ActionsOf, PagesInv, EquipmentTypeOK, OrNone, ActionRecord
<1>3. /\ \A k \in S : ActionItem(k) \in T /\ ActionItem(k).action = k
      /\ \A a \in T : a.action \in S /\ a = ActionItem(a.action)
  BY <1>1, ItemsOf
<1> HIDE DEF S, T
<1>4. h \in [T -> S] /\ (\A a, b \in T : h[a] = h[b] => a = b)
      /\ \A k \in S : \E a \in T : h[a] = k
  <2>1. h \in [T -> S]
    BY <1>3
  <2>2. ASSUME NEW a \in T, NEW b \in T, h[a] = h[b] PROVE a = b
    <3>1. a.action = b.action
      BY <2>2
    <3> QED BY <1>3, <3>1
  <2>3. ASSUME NEW k \in S PROVE \E a \in T : h[a] = k
    <3>1. ActionItem(k) \in T /\ h[ActionItem(k)] = k
      BY <1>3
    <3> QED BY <3>1
  <2> QED BY <2>1, <2>2, <2>3
<1>5. IsFiniteSet(T) /\ Cardinality(T) = Cardinality(S)
  <2> DEFINE g == [k \in S |-> ActionItem(k)]
  <2>1. g \in [S -> T] /\ (\A k, l \in S : g[k] = g[l] => k = l)
        /\ \A a \in T : \E k \in S : g[k] = a
    <3>1. g \in [S -> T]
      BY <1>3
    <3>2. ASSUME NEW k \in S, NEW l \in S, g[k] = g[l] PROVE k = l
      <4>1. ActionItem(k) = ActionItem(l)
        BY <3>2
      <4>2. ActionItem(k).action = k /\ ActionItem(l).action = l
        BY <1>3
      <4> QED BY <4>1, <4>2
    <3>3. ASSUME NEW a \in T PROVE \E k \in S : g[k] = a
      <4>1. a.action \in S /\ g[a.action] = a
        BY <1>3
      <4> QED BY <4>1
    <3> QED BY <3>1, <3>2, <3>3
  <2> HIDE DEF g
  <2>2. g \in Bijection(S, T)
    BY <2>1 DEF Bijection, Injection, IsInjective, Surjection
  <2>3. ExistsBijection(S, T)
    BY <2>2 DEF ExistsBijection
  <2> QED BY <1>1, <2>3, FS_Bijection
<1>6. Numbers(f, S) /\ \A a \in T : e[a] = f[h[a]]
  BY <1>2, <1>3 DEF Numbers
<1>7. DOMAIN f = S /\ DOMAIN e = T
  OBVIOUS
<1> HIDE DEF f, e, h
<1>8. SumFunctionOnSet(e, T) = SumFunctionOnSet(f, S)
  BY <1>4, <1>5, <1>6, SumRenamed
<1>9. SumFunction(e) = SumFunction(f)
  BY <1>7, <1>8 DEF SumFunction
<1> QED BY <1>5, <1>9 DEF S, T, e, f, HoursOf

LEMMA PageTasks ==
    ASSUME PagesInv, NEW i \in Interventions
    PROVE  TaskList([intervention |-> i, machine |-> Null, status |-> {}, closed |-> TRUE])
               = TasksOf(db, i)
<1>1. i # Null
  BY Rows DEF PagesInv
<1>2. \A t \in Tasks : db.task[t].intervention = i => db.task[t].status \in TaskStatuses
  BY <1>1 DEF PagesInv, TasksPlaced
<1> QED BY <1>1, <1>2 DEF TaskList, TaskWanted, Is, In, TasksOf

\* An action is found by its intervention and by any of its tasks alike.
LEMMA TasksOfAction ==
    ASSUME PagesInv, NEW k \in Actions, action[k] # Null
    PROVE  /\ action[k].tasks \subseteq TasksOf(db, action[k].inter) /\ action[k].tasks # {}
           /\ action[k].inter \in Interventions /\ action[k].hours \in Nat
<1>1. action[k] \in ActionRecord
  BY DEF PagesInv, EquipmentTypeOK, OrNone
<1> QED BY <1>1, EquipmentAssumption
     DEF PagesInv, ActionsPlaced, PlacedOn, TasksOf, ActionRecord

LEMMA PagePurchases ==
    ASSUME PagesInv, NEW i \in Interventions
    PROVE  UNION {a.purchases : a \in ActionItems(ActionsOf(i))} = AskedIn(i)
<1> DEFINE U == UNION {a.purchases : a \in ActionItems(ActionsOf(i))}
<1>1. ASSUME NEW p \in U PROVE p \in AskedIn(i)
  <2>1. PICK k \in ActionsOf(i) : p \in AskedBy(k)
    BY DEF ActionItems, ActionItem
  <2>2. k \in Actions /\ k # Null /\ action[k].inter = i
    BY EquipmentAssumption DEF ActionsOf
  <2> QED BY <2>1, <2>2 DEF AskedBy, AskedIn
<1>2. ASSUME NEW p \in AskedIn(i) PROVE p \in U
  <2> DEFINE k == asked[p]
  <2>1. p \in Purchases /\ k # Null /\ action[k].inter = i
    BY DEF AskedIn
  <2>2. k \in Actions /\ action[k] # Null
    BY <2>1 DEF PagesInv, EquipmentTypeOK, OrNone, AskedPlaced
  <2>3. k \in ActionsOf(i) /\ p \in AskedBy(k)
    BY <2>1, <2>2 DEF ActionsOf, AskedBy
  <2>4. ActionItem(k) \in ActionItems(ActionsOf(i)) /\ ActionItem(k).purchases = AskedBy(k)
    BY <2>3 DEF ActionItems, ActionItem
  <2> QED BY <2>3, <2>4
<1> QED BY <1>1, <1>2

\* The join with the requests repeats no intervention, and loses none.
LEMMA OneRowEach ==
    ASSUME PagesInv, NEW f
    PROVE  Cardinality(InterventionRows(f)) = InterventionCount(f)
<1> DEFINE W == {i \in Live : Wanted(f, i)}
           R == InterventionRows(f)
           Of(i) == CHOOSE r \in Requests : RequestsLinkedTo(db, i) = {r}
           g == [i \in W |-> <<i, Of(i)>>]
<1>0. IInv
  BY DEF PagesInv
<1>1. W \subseteq Interventions /\ IsFiniteSet(W)
  BY FiniteTables DEF Live
<1>2. ASSUME NEW i \in W PROVE Of(i) \in Requests /\ RequestsLinkedTo(db, i) = {Of(i)}
  <2>1. \E r \in Requests : RequestsLinkedTo(db, i) = {r}
    BY <1>0, RequestOfIntervention DEF Live
  <2> QED BY <2>1
<1> HIDE DEF Of
<1>3. ASSUME NEW l \in R PROVE l[1] \in W /\ l = <<l[1], Of(l[1])>>
  <2>1. /\ l \in W \X OrNone(Requests)
        /\ l[2] \in Picks(RequestsLinkedTo(db, l[1])) \cup RequestsLinkedTo(db, l[1])
    BY DEF InterventionRows
  <2>2. l[1] \in W /\ l = <<l[1], l[2]>>
    BY <2>1
  <2>3. l[2] = Of(l[1])
    BY <1>2, <2>1, <2>2 DEF Picks
  <2> QED BY <2>2, <2>3
<1>4. ASSUME NEW i \in W PROVE <<i, Of(i)>> \in R
  <2>1. Of(i) \in OrNone(Requests)
        /\ Of(i) \in Picks(RequestsLinkedTo(db, i)) \cup RequestsLinkedTo(db, i)
    BY <1>2 DEF OrNone, Picks
  <2> QED BY <2>1 DEF InterventionRows
<1> HIDE DEF W, R
<1>5. g \in [W -> R] /\ (\A i, j \in W : g[i] = g[j] => i = j)
      /\ \A l \in R : \E i \in W : g[i] = l
  <2>1. g \in [W -> R]
    BY <1>4
  <2>2. ASSUME NEW i \in W, NEW j \in W, g[i] = g[j] PROVE i = j
    BY <2>2
  <2>3. ASSUME NEW l \in R PROVE \E i \in W : g[i] = l
    <3>1. l[1] \in W /\ g[l[1]] = l
      BY <1>3
    <3> QED BY <3>1
  <2> QED BY <2>1, <2>2, <2>3
<1> HIDE DEF g
<1>6. g \in Bijection(W, R)
  BY <1>5 DEF Bijection, Injection, IsInjective, Surjection
<1>7. ExistsBijection(W, R)
  BY <1>6 DEF ExistsBijection
<1>8. Cardinality(R) = Cardinality(W)
  BY <1>1, <1>7, FS_Bijection
<1> QED BY <1>8 DEF R, W, InterventionCount

LEMMA RowsHold == PagesInv => RowsMatchPages
<1> SUFFICES ASSUME PagesInv PROVE RowsMatchPages
  OBVIOUS
<1>1. ASSUME NEW i \in Live, NEW r \in Picks(RequestsLinkedTo(db, i))
      PROVE  LET row == ListedIntervention(i, r)
                 page == InterventionPage(i, r)
             IN /\ page.stats = row.stats
                /\ Progression(page.tasks) \in {Null, row.stats.tasks}
                /\ UNION {a.tasks : a \in page.actions} \subseteq page.tasks
                /\ Cardinality(UNION {a.purchases : a \in page.actions}) = page.stats.purchases
                /\ r # Null => RequestPage(r).tasks = page.tasks
  <2> DEFINE row == ListedIntervention(i, r)
             page == InterventionPage(i, r)
             A == ActionItems(ActionsOf(i))
             figures == [actions   |-> Cardinality(ActionsOf(i)), hours |-> HoursOf(i),
                         purchases |-> Cardinality(AskedIn(i)),
                         tasks     |-> ProgressOf(TasksOf(db, i))]
  <2>0. i \in Interventions
    BY DEF Live
  <2>1. page.actions = A /\ row.stats = figures
    BY DEF InterventionPage, ListedIntervention
  <2>2. page.tasks = TasksOf(db, i)
    BY <2>0, PageTasks DEF InterventionPage
  <2>3. page.stats = figures
    <3>1. page.stats = [actions   |-> Cardinality(A),
                        hours     |-> SumFunction([a \in A |-> action[a.action].hours]),
                        purchases |-> Cardinality(AskedIn(i)),
                        tasks     |-> ProgressOf(TasksOf(db, i))]
      BY DEF InterventionPage
    <3> QED BY <2>0, <3>1, PageStats
  <2>4. Progression(page.tasks) \in {Null, row.stats.tasks}
    BY <2>1, <2>2 DEF Progression
  <2>5. UNION {a.tasks : a \in A} \subseteq TasksOf(db, i)
    <3>1. ASSUME NEW k \in ActionsOf(i), NEW t \in Tasks, k \in ActionsOn(t)
          PROVE  t \in TasksOf(db, i)
      BY <3>1, TasksOfAction DEF ActionsOf, ActionsOn
    <3> QED BY <3>1 DEF ActionItems, ActionItem
  <2>6. Cardinality(UNION {a.purchases : a \in A}) = page.stats.purchases
    <3>1. UNION {a.purchases : a \in A} = AskedIn(i)
      BY <2>0, PagePurchases
    <3>2. page.stats.purchases = Cardinality(AskedIn(i))
      BY <2>3
    <3> HIDE DEF A, page, figures
    <3> QED BY <3>1, <3>2
  <2>7. r # Null => RequestPage(r).tasks = TasksOf(db, i)
    <3>1. r # Null => r \in RequestsLinkedTo(db, i)
      BY DEF Picks
    <3>2. RequestPage(r).tasks = TasksShown(r)
      BY DEF RequestPage
    <3> QED BY <3>1, <3>2, TasksOfRequest
  <2> HIDE DEF row, page, A, figures
  <2>8. /\ page.stats = row.stats
        /\ Progression(page.tasks) \in {Null, row.stats.tasks}
        /\ UNION {a.tasks : a \in page.actions} \subseteq page.tasks
        /\ Cardinality(UNION {a.purchases : a \in page.actions}) = page.stats.purchases
        /\ r # Null => RequestPage(r).tasks = page.tasks
    BY <2>1, <2>2, <2>3, <2>4, <2>5, <2>6, <2>7
  <2> QED BY <2>8 DEF row, page
<1> QED BY <1>1, OneRowEach DEF RowsMatchPages

\* What the tasks of an intervention show is the time of its actions, once for each
\* task an action is on.
LEMMA HoursByTask ==
    ASSUME PagesInv, NEW i \in Interventions
    PROVE  /\ SumFunction([t \in TasksOf(db, i) |-> TaskHours(t)])
                  = SumFunction([k \in ActionsOf(i) |->
                        Cardinality(action[k].tasks) * action[k].hours])
           /\ SumFunction([k \in ActionsOf(i) |->
                        Cardinality(action[k].tasks) * action[k].hours]) >= HoursOf(i)
<1> DEFINE S == ActionsOf(i)
           T == TasksOf(db, i)
           L == {l \in S \X T : l[2] \in action[l[1]].tasks}
           first == [l \in L |-> l[1]]
           second == [l \in L |-> l[2]]
           f == [l \in L |-> action[l[1]].hours]
           e == [t \in T |-> TaskHours(t)]
           w == [k \in S |-> Cardinality(action[k].tasks) * action[k].hours]
           h == [k \in S |-> action[k].hours]
<1>1. S \subseteq Actions /\ T \subseteq Tasks /\ IsFiniteSet(S) /\ IsFiniteSet(T)
  BY FiniteTables DEF ActionsOf, TasksOf
<1>2. \A k \in S : /\ action[k].hours \in Nat
                  /\ action[k].tasks \subseteq T /\ action[k].tasks # {}
  BY TasksOfAction DEF ActionsOf
<1>3. /\ L \subseteq S \X T /\ IsFiniteSet(L)
      /\ \A k, t : <<k, t>> \in L <=> k \in S /\ t \in action[k].tasks
      /\ \A l \in L : /\ l[1] \in S /\ l[2] \in T /\ l = <<l[1], l[2]>>
                     /\ l[2] \in action[l[1]].tasks
  <2>1. L \subseteq S \X T /\ IsFiniteSet(S \X T)
    BY <1>1, FS_Product
  <2>2. IsFiniteSet(L)
    BY <2>1, FS_Subset
  <2> QED BY <1>2, <2>1, <2>2
<1>4. /\ \A l \in L : f[l] = action[l[1]].hours /\ first[l] = l[1] /\ second[l] = l[2]
      /\ Numbers(f, L)
  BY <1>2, <1>3 DEF Numbers
<1>5. /\ DOMAIN e = T /\ DOMAIN w = S /\ DOMAIN h = S
      /\ \A k \in S : /\ w[k] = Cardinality(action[k].tasks) * action[k].hours
                     /\ h[k] = action[k].hours
      /\ \A t \in T : e[t] = TaskHours(t)
      /\ HoursOf(i) = SumFunction(h)
  BY DEF HoursOf
<1>6. \A t, k : k \in ActionsOn(t) /\ t \in T <=> k \in S /\ t \in action[k].tasks
  <2>1. ASSUME NEW t \in T, NEW k \in ActionsOn(t) PROVE k \in S /\ t \in action[k].tasks
    <3>1. k \in Actions /\ action[k] # Null /\ t \in action[k].tasks
      BY <2>1 DEF ActionsOn
    <3>2. db.task[t].intervention = i /\ db.task[t].intervention = action[k].inter
      BY <2>1, <3>1, TasksOfAction DEF TasksOf
    <3> QED BY <3>1, <3>2 DEF ActionsOf
  <2>2. ASSUME NEW k \in S, NEW t \in action[k].tasks PROVE k \in ActionsOn(t) /\ t \in T
    BY <1>2, <2>2 DEF ActionsOn, ActionsOf
  <2> QED BY <2>1, <2>2
<1>7. ASSUME NEW t \in T PROVE TaskHours(t) = SumFunctionOnSet(f, Alike(L, second, t))
  <2> DEFINE A == ActionsOn(t)
             P == Alike(L, second, t)
             q == [k \in A |-> action[k].hours]
             r == [k \in A |-> <<k, t>>]
  <2>1. TaskHours(t) = SumFunction(q) /\ DOMAIN q = A
    BY DEF TaskHours
  <2>2. A \subseteq S /\ IsFiniteSet(A)
    <3>1. A \subseteq S
      BY <1>6
    <3> QED BY <1>1, <3>1, FS_Subset
  <2>3. \A k \in A : <<k, t>> \in P
    BY <1>3, <1>4, <1>6 DEF Alike
  <2>4. \A l \in P : l \in L /\ l[1] \in A /\ l = <<l[1], t>>
    BY <1>3, <1>4, <1>6 DEF Alike
  <2> HIDE DEF A, P, L, S, T, f, first, second
  <2>5. /\ r \in [A -> P]
        /\ \A k, j \in A : r[k] = r[j] => k = j
    BY <2>3
  <2>6. ASSUME NEW l \in P PROVE \E k \in A : r[k] = l
    <3>1. l[1] \in A /\ r[l[1]] = l
      BY <2>4
    <3> QED BY <3>1
  <2>7. Numbers(f, P) /\ \A k \in A : q[k] = f[r[k]]
    BY <1>4, <2>3, <2>4 DEF Numbers
  <2> HIDE DEF q, r
  <2>8. SumFunctionOnSet(q, A) = SumFunctionOnSet(f, P)
    BY <2>2, <2>5, <2>6, <2>7, SumRenamed
  <2> QED BY <2>1, <2>8 DEF SumFunction, P
<1>8. ASSUME NEW k \in S PROVE w[k] = SumFunctionOnSet(f, Alike(L, first, k))
  <2> DEFINE A == action[k].tasks
             c == action[k].hours
             P == Alike(L, first, k)
             q == [t \in A |-> c]
             r == [t \in A |-> <<k, t>>]
  <2>1. IsFiniteSet(A) /\ c \in Nat
    BY <1>1, <1>2, FS_Subset
  <2>2. \A t \in A : <<k, t>> \in P
    BY <1>3, <1>4 DEF Alike
  <2>3. \A l \in P : l \in L /\ l[2] \in A /\ l = <<k, l[2]>>
    BY <1>3, <1>4 DEF Alike
  <2>4. w[k] = Cardinality(A) * c
    BY <1>5
  <2>5. \A t \in A : q[t] = c
    OBVIOUS
  <2> HIDE DEF P, L, S, T, f, w, first, second
  <2>6. /\ r \in [A -> P]
        /\ \A t, u \in A : r[t] = r[u] => t = u
    BY <2>2
  <2>7. ASSUME NEW l \in P PROVE \E t \in A : r[t] = l
    <3>1. l[2] \in A /\ r[l[2]] = l
      BY <2>3
    <3> QED BY <3>1
  <2>8. Numbers(f, P) /\ \A t \in A : q[t] = f[r[t]]
    BY <1>4, <2>2, <2>3 DEF Numbers
  <2> HIDE DEF A, c, q, r
  <2>9. SumFunctionOnSet(q, A) = Cardinality(A) * c
    BY <2>1, <2>5, SumAlike
  <2>10. SumFunctionOnSet(q, A) = SumFunctionOnSet(f, P)
    BY <2>1, <2>6, <2>7, <2>8, SumRenamed
  <2> QED BY <2>4, <2>9, <2>10 DEF P
<1>9. Numbers(w, S) /\ Numbers(h, S) /\ \A k \in S : h[k] <= w[k]
  <2>1. ASSUME NEW k \in S PROVE w[k] \in Nat /\ h[k] \in Nat /\ h[k] <= w[k]
    <3> DEFINE n == Cardinality(action[k].tasks)
               c == action[k].hours
    <3>1. c \in Nat /\ IsFiniteSet(action[k].tasks) /\ action[k].tasks # {}
      BY <1>1, <1>2, FS_Subset
    <3>2. n \in Nat /\ n # 0
      BY <3>1, FS_CardinalityType, FS_EmptySet
    <3>3. w[k] = n * c /\ h[k] = c
      BY <1>5
    <3> HIDE DEF n, c, w, h
    <3>4. n * c = (n - 1) * c + c /\ (n - 1) * c \in Nat
      BY <3>1, <3>2
    <3>5. \A x \in Nat, y \in Nat : x + y >= y /\ x + y \in Nat
      OBVIOUS
    <3>6. n * c >= c /\ n * c \in Nat
      BY <3>1, <3>4, <3>5
    <3> QED BY <3>1, <3>3, <3>6
  <2> HIDE DEF w, h, S
  <2> QED BY <2>1 DEF Numbers
<1> HIDE DEF S, T, L, f, first, second, e, w, h
<1>10. SumFunctionOnSet(e, T) = SumFunctionOnSet(f, L)
  <2>1. \A l \in L : second[l] \in T
    BY <1>3, <1>4
  <2>2. \A t \in T : e[t] = SumFunctionOnSet(f, Alike(L, second, t))
    BY <1>5, <1>7
  <2> QED BY <1>1, <1>3, <1>4, <2>1, <2>2, SumClasses
<1>11. SumFunctionOnSet(w, S) = SumFunctionOnSet(f, L)
  <2>1. \A l \in L : first[l] \in S
    BY <1>3, <1>4
  <2> QED BY <1>1, <1>3, <1>4, <1>8, <2>1, SumClasses
<1>12. /\ SumFunctionOnSet(h, S) \in Nat /\ SumFunctionOnSet(w, S) \in Nat
       /\ SumFunctionOnSet(h, S) <= SumFunctionOnSet(w, S)
  BY <1>1, <1>9, SumOrdered, SumType
<1>13. SumFunction(e) = SumFunction(w) /\ SumFunction(w) >= HoursOf(i)
  <2>1. /\ SumFunction(e) = SumFunctionOnSet(e, T) /\ SumFunction(w) = SumFunctionOnSet(w, S)
        /\ SumFunction(h) = SumFunctionOnSet(h, S)
    BY <1>5 DEF SumFunction
  <2> QED BY <1>5, <1>10, <1>11, <1>12, <2>1
<1> QED BY <1>13 DEF e, w, S, T

LEMMA EmbeddedCountsMore ==
    ASSUME PagesInv, NEW i \in Interventions
    PROVE  EmbeddedHours(i) >= HoursOf(i)
<1> DEFINE S == ActionsOf(i)
           L == ActionLinks(i)
           Of(k) == CHOOSE p : p \in Picks(AskedBy(k))
           h == [k \in S |-> <<k, Of(k)>>]
           I == {<<k, Of(k)>> : k \in S}
           f == [k \in S |-> action[k].hours]
           e == [l \in L |-> action[l[1]].hours]
<1>1. IsFiniteSet(S) /\ IsFiniteSet(L)
  <2>1. IsFiniteSet(S)
    BY FiniteTables DEF ActionsOf
  <2>2. IsFiniteSet(OrNone(Purchases))
    BY FiniteTables, FS_AddElement DEF OrNone
  <2>3. IsFiniteSet(S \X OrNone(Purchases))
    BY <2>1, <2>2, FS_Product
  <2> QED BY <2>1, <2>3, FS_Subset DEF ActionLinks
<1>2. \A k \in S : Of(k) \in Picks(AskedBy(k)) /\ Of(k) \in OrNone(Purchases)
  BY DEF Picks, AskedBy, OrNone
<1>3. \A k \in S : action[k].hours \in Nat
  BY TasksOfAction DEF ActionsOf
<1> HIDE DEF Of
<1>4. \A k \in S : <<k, Of(k)>> \in L
  BY <1>2 DEF ActionLinks
<1>5. \A l \in L : l[1] \in S
  BY DEF ActionLinks
<1>6. DOMAIN f = S /\ DOMAIN e = L /\ HoursOf(i) = SumFunction(f)
      /\ EmbeddedHours(i) = SumFunction(e)
  BY DEF HoursOf, EmbeddedHours
<1> HIDE DEF S, L
<1>7. Numbers(e, L) /\ Numbers(e, I) /\ I \in SUBSET L
  BY <1>3, <1>4, <1>5 DEF Numbers
<1>8. /\ h \in [S -> I]
      /\ \A k, l \in S : h[k] = h[l] => k = l
      /\ \A y \in I : \E k \in S : h[k] = y
      /\ \A k \in S : f[k] = e[h[k]]
  BY <1>4
<1> HIDE DEF f, e, h, I
<1>9. SumFunctionOnSet(f, S) = SumFunctionOnSet(e, I)
  BY <1>1, <1>7, <1>8, SumRenamed
<1>10. /\ SumFunctionOnSet(e, I) \in Nat /\ SumFunctionOnSet(e, L \ I) \in Nat
       /\ SumFunctionOnSet(e, L) = SumFunctionOnSet(e, I) + SumFunctionOnSet(e, L \ I)
  BY <1>1, <1>7, SumPart
<1> QED BY <1>6, <1>9, <1>10 DEF SumFunction

LEMMA HoursHold == PagesInv => HoursOnTasks
<1> SUFFICES ASSUME PagesInv PROVE HoursOnTasks
  OBVIOUS
<1>1. ASSUME NEW i \in Live
      PROVE  LET onTasks == SumFunction([t \in TasksOf(db, i) |-> TaskHours(t)])
             IN /\ onTasks = SumFunction([k \in ActionsOf(i) |->
                                 Cardinality(action[k].tasks) * action[k].hours])
                /\ onTasks >= HoursOf(i)
  BY HoursByTask DEF Live
<1>2. ASSUME NEW k \in Actions, action[k] # Null
      PROVE  LET i == action[k].inter
                 page == ActionPage(k)
             IN /\ page.hours >= HoursOf(i)
                /\ \A r \in RequestsLinkedTo(db, i) :
                       /\ Embedded(r).hours = page.hours
                       /\ page.item \in InterventionPage(i, r).actions
                /\ \A t \in action[k].tasks \cup {Null} : page.item \in ActionList(t)
  <2> DEFINE i == action[k].inter
             page == ActionPage(k)
  <2>1. i \in Interventions /\ i # Null
    BY <1>2, TasksOfAction, Rows DEF PagesInv, TasksOf
  <2>2. page.hours = EmbeddedHours(i) /\ page.item = ActionItem(k)
    BY DEF ActionPage
  <2>3. ASSUME NEW r \in RequestsLinkedTo(db, i)
        PROVE  /\ Embedded(r).hours = EmbeddedHours(i)
               /\ ActionItem(k) \in InterventionPage(i, r).actions
    <3>1. db.request[r].intervention = i
      BY DEF RequestsLinkedTo
    <3>2. Embedded(r).hours = EmbeddedHours(i)
      BY <2>1, <3>1 DEF Embedded
    <3>3. InterventionPage(i, r).actions = ActionItems(ActionsOf(i))
      BY DEF InterventionPage
    <3>4. k \in ActionsOf(i)
      BY <1>2 DEF ActionsOf
    <3> QED BY <3>2, <3>3, <3>4 DEF ActionItems
  <2>4. \A t \in action[k].tasks \cup {Null} : ActionItem(k) \in ActionList(t)
    BY <1>2 DEF ActionList, ActionItems, ActionsOn
  <2>5. EmbeddedHours(i) >= HoursOf(i)
    BY <2>1, EmbeddedCountsMore
  <2> HIDE DEF i, page
  <2>6. /\ page.hours >= HoursOf(i)
        /\ \A r \in RequestsLinkedTo(db, i) :
               /\ Embedded(r).hours = page.hours
               /\ page.item \in InterventionPage(i, r).actions
        /\ \A t \in action[k].tasks \cup {Null} : page.item \in ActionList(t)
    BY <2>2, <2>3, <2>4, <2>5
  <2> QED BY <2>6 DEF i, page
<1> QED BY <1>1, <1>2 DEF HoursOnTasks

\* Whatever is on the pages, the lists, their counts and the pages agree: the filters
\* and the counts of the menu add up, a task is shown with one request, the lists'
\* health never exceeds the page's, no join repeats a row, and the hours shown under the
\* tasks of an intervention are those of its actions, counted in full under each task
\* an action is on: never fewer than the hours of the intervention.
THEOREM ListsHold == ReportsSpec => []ListsAgree
<1>1. PagesInv => ListsAgree
  BY FiltersHold, CountsHold, TaskOnceHolds, HealthsHold, RowsHold, HoursHold, WorkspaceHolds
  DEF ListsAgree
<1> QED BY <1>1, PagesHold, PTL

\* The operators of the library, as Stats names them
LEMMA SumMeans ==
    ASSUME NEW f
    PROVE  Stats!SumFunction(f) = SumFunctionOnSet(f, DOMAIN f)
BY DEF Stats!SumFunction, Stats!SumFunctionOnSet, Stats!FoldFunctionOnSet,
       Stats!MapThenFoldSet, SumFunctionOnSet, FoldFunctionOnSet, MapThenFoldSet

LEMMA FiniteMeans ==
    ASSUME NEW S
    PROVE  Stats!IsFiniteSet(S) <=> IsFiniteSet(S)
BY DEF Stats!IsFiniteSet, IsFiniteSet

LEMMA CountMeans ==
    ASSUME NEW S
    PROVE  Stats!Cardinality(S) = Cardinality(S)
BY DEF Stats!Cardinality, Cardinality

Quarters == [k \in Slots |-> Stats!Time(k)]
RowsFit == acts \in [Slots -> Stats!OrNull(Stats!Row)]

LEMMA StatsConstants ==
    /\ MaxDay \in Nat
    /\ IsFiniteSet(Slots) /\ IsFiniteSet(DOMAIN Inters) /\ IsFiniteSet(Factors)
    /\ Null \notin Nat /\ Null \notin Factors /\ Null \notin DOMAIN Subs
    /\ Null \notin Stats!Row
    /\ Payloads \cup LegacyRows \in SUBSET Stats!Row
BY ReportsAssumption, FiniteMeans DEF Stats!ConstantsFit

LEMMA RowsRead ==
    ASSUME RowsFit
    PROVE  /\ Stats!Recorded \in SUBSET Slots
           /\ \A k \in Stats!Recorded : /\ acts[k] \in Stats!Row
                                        /\ Stats!Time(k) \in Nat
<1>1. Stats!Recorded \in SUBSET Slots
  BY DEF Stats!Recorded
<1>2. ASSUME NEW k \in Stats!Recorded PROVE acts[k] \in Stats!Row
  BY <1>2 DEF Stats!Recorded, RowsFit, Stats!OrNull
<1>3. ASSUME NEW k \in Stats!Recorded PROVE Stats!Time(k) \in Nat
  <2>1. acts[k].time \in Nat \cup {Null}
    BY <1>2 DEF Stats!Row, Stats!OrNull
  <2> QED BY <2>1 DEF Stats!Time
<1> QED BY <1>1, <1>2, <1>3

\* Hours is the sum of one function over the rows.
LEMMA HoursIs ==
    ASSUME RowsFit, NEW S \in SUBSET Stats!Recorded
    PROVE  /\ Stats!Hours(S) = SumFunctionOnSet(Quarters, S)
           /\ Stats!Hours(S) \in Nat
           /\ IsFiniteSet(S) /\ Numbers(Quarters, S)
<1>1. IsFiniteSet(S) /\ Numbers(Quarters, S) /\ S \in SUBSET Slots
  <2>1. S \in SUBSET Slots
    BY RowsRead
  <2>2. IsFiniteSet(S)
    BY <2>1, StatsConstants, FS_Subset
  <2>3. ASSUME NEW k \in S PROVE Quarters[k] \in Nat
    <3>1. Stats!Time(k) \in Nat /\ k \in Slots
      BY RowsRead, <2>1
    <3> QED BY <3>1 DEF Quarters
  <2> QED BY <2>1, <2>2, <2>3 DEF Numbers
<1> DEFINE e == [k \in S |-> Stats!Time(k)]
<1>2. Stats!Hours(S) = SumFunctionOnSet(e, S)
  BY SumMeans DEF Stats!Hours
<1>3. \A k \in S : e[k] = Quarters[k]
  BY <1>1 DEF Quarters
<1> HIDE DEF e
<1>4. SumFunctionOnSet(e, S) = SumFunctionOnSet(Quarters, S)
  BY <1>1, <1>3, SumSame
<1> QED BY <1>1, <1>2, <1>4, SumType

LEMMA HoursOfPart ==
    ASSUME RowsFit, NEW S \in SUBSET Stats!Recorded, NEW A \in SUBSET S
    PROVE  /\ Stats!Hours(A) \in Nat /\ Stats!Hours(S \ A) \in Nat
           /\ Stats!Hours(S) = Stats!Hours(A) + Stats!Hours(S \ A)
<1>1. /\ Stats!Hours(S) = SumFunctionOnSet(Quarters, S)
      /\ IsFiniteSet(S) /\ Numbers(Quarters, S)
  BY HoursIs
<1>2. A \in SUBSET Stats!Recorded /\ S \ A \in SUBSET Stats!Recorded
  OBVIOUS
<1>3. /\ Stats!Hours(A) = SumFunctionOnSet(Quarters, A)
      /\ Stats!Hours(S \ A) = SumFunctionOnSet(Quarters, S \ A)
  BY <1>2, HoursIs
<1>4. /\ SumFunctionOnSet(Quarters, A) \in Nat
      /\ SumFunctionOnSet(Quarters, S \ A) \in Nat
      /\ SumFunctionOnSet(Quarters, S)
             = SumFunctionOnSet(Quarters, A) + SumFunctionOnSet(Quarters, S \ A)
  BY <1>1, SumPart
<1> QED BY <1>1, <1>3, <1>4

LEMMA HoursOfNone == ASSUME RowsFit PROVE Stats!Hours({}) = 0
BY HoursIs, SumNone

\* The hours of rows that are classified: those of each class, added up
LEMMA HoursByClass ==
    ASSUME RowsFit, NEW S \in SUBSET Stats!Recorded,
           NEW e, IsFiniteSet(DOMAIN e), NEW g, \A k \in S : g[k] \in DOMAIN e,
           \A y \in DOMAIN e : e[y] = Stats!Hours(Alike(S, g, y))
    PROVE  /\ Stats!SumFunction(e) = Stats!Hours(S)
           /\ Numbers(e, DOMAIN e)
<1>1. /\ Stats!Hours(S) = SumFunctionOnSet(Quarters, S)
      /\ IsFiniteSet(S) /\ Numbers(Quarters, S)
  BY HoursIs
<1>2. \A y \in DOMAIN e : Alike(S, g, y) \in SUBSET Stats!Recorded
  BY DEF Alike
<1>3. \A y \in DOMAIN e : /\ e[y] = SumFunctionOnSet(Quarters, Alike(S, g, y))
                          /\ e[y] \in Nat
  BY <1>2, HoursIs
<1> DEFINE T == DOMAIN e
<1>4. /\ IsFiniteSet(T) /\ \A k \in S : g[k] \in T
      /\ \A y \in T : e[y] = SumFunctionOnSet(Quarters, Alike(S, g, y))
  BY <1>3
<1>5. Stats!SumFunction(e) = SumFunctionOnSet(e, T)
  BY SumMeans
<1>6. Numbers(e, DOMAIN e)
  BY <1>3 DEF Numbers
<1> HIDE DEF T
<1>7. SumFunctionOnSet(e, T) = SumFunctionOnSet(Quarters, S)
  BY <1>1, <1>4, SumClasses
<1> QED BY <1>1, <1>5, <1>6, <1>7

LEMMA InReport ==
    ASSUME NEW q \in Stats!Queries
    PROVE  /\ Stats!Between(q[1], q[2]) \in SUBSET Stats!Recorded
           /\ Stats!Failures(q[1], q[2]) \in SUBSET Stats!Between(q[1], q[2])
           /\ Stats!Explained(q[1], q[2]) \in SUBSET Stats!Failures(q[1], q[2])
           /\ Stats!Systemic(q[1], q[2]) \in SUBSET Stats!Failures(q[1], q[2])
           /\ Stats!Avoidable(q[1], q[2]) \in SUBSET Stats!Failures(q[1], q[2])
           /\ Stats!Explained(q[1], q[2]) \in SUBSET Stats!Avoidable(q[1], q[2])
BY DEF Stats!Between, Stats!Failures, Stats!Explained, Stats!Systemic, Stats!Avoidable

LEMMA KindOfTime ==
    ASSUME NEW k
    PROVE  /\ Stats!TimeType(k) \in {"PROD", "DEP", "PILOT", "FRAG"}
           /\ Stats!TimeType(k) = "DEP" <=> Stats!Cat(k) = "DEP"
<1> DEFINE c == Stats!Cat(k)
           s == Stats!Short(k)
<1>1. s => c # "DEP"
  BY DEF Stats!Short
<1>2. Stats!TimeType(k) = IF s THEN "FRAG" ELSE IF c \in {"DEP", "PILOT"} THEN c ELSE "PROD"
  BY DEF Stats!TimeType
<1> HIDE DEF c, s
<1>3. CASE s
  BY <1>1, <1>2, <1>3 DEF c
<1>4. CASE ~s
  BY <1>1, <1>2, <1>4 DEF c
<1> QED BY <1>3, <1>4

LEMMA KindsAdd ==
    ASSUME RowsFit, NEW q \in Stats!Queries
    PROVE  /\ Stats!SumFunction(Stats!Breakdown(q[1], q[2]))
                  = Stats!Hours(Stats!Between(q[1], q[2]))
           /\ Stats!Breakdown(q[1], q[2]).DEP = Stats!Hours(Stats!Failures(q[1], q[2]))
           /\ Stats!Breakdown(q[1], q[2]).FRAG = Stats!Hours(Stats!Fragments(q[1], q[2]))
<1> DEFINE S == Stats!Between(q[1], q[2])
           Kinds == {"PROD", "DEP", "PILOT", "FRAG"}
           e == Stats!Breakdown(q[1], q[2])
           g == [k \in S |-> Stats!TimeType(k)]
<1>1. S \in SUBSET Stats!Recorded
  BY InReport
<1>2. IsFiniteSet(Kinds)
  <2>1. /\ IsFiniteSet({"PROD"}) /\ IsFiniteSet({"DEP"})
        /\ IsFiniteSet({"PILOT"}) /\ IsFiniteSet({"FRAG"})
    BY FS_Singleton
  <2>2. IsFiniteSet({"PROD"} \cup {"DEP"}) /\ IsFiniteSet({"PILOT"} \cup {"FRAG"})
    BY <2>1, FS_Union
  <2>3. IsFiniteSet(({"PROD"} \cup {"DEP"}) \cup ({"PILOT"} \cup {"FRAG"}))
    BY <2>2, FS_Union
  <2>4. ({"PROD"} \cup {"DEP"}) \cup ({"PILOT"} \cup {"FRAG"}) = Kinds
    OBVIOUS
  <2> QED BY <2>3, <2>4
<1>3. DOMAIN e = Kinds /\ \A t \in Kinds : e[t] = Stats!Hours({k \in S : Stats!TimeType(k) = t})
  BY DEF Stats!Breakdown
<1>4. \A t : {k \in S : Stats!TimeType(k) = t} = Alike(S, g, t)
  BY DEF Alike
<1>5. \A k \in S : g[k] \in Kinds
  BY KindOfTime
<1>6. e.DEP = Stats!Hours(Stats!Failures(q[1], q[2]))
  <2>1. {k \in S : Stats!TimeType(k) = "DEP"} = Stats!Failures(q[1], q[2])
    BY KindOfTime DEF Stats!Failures
  <2> QED BY <1>3, <2>1
<1>7. e.FRAG = Stats!Hours(Stats!Fragments(q[1], q[2]))
  <2>1. {k \in S : Stats!TimeType(k) = "FRAG"} = Stats!Fragments(q[1], q[2])
    BY DEF Stats!Fragments
  <2> QED BY <1>3, <2>1
<1>8. /\ IsFiniteSet(DOMAIN e) /\ \A k \in S : g[k] \in DOMAIN e
      /\ \A y \in DOMAIN e : e[y] = Stats!Hours(Alike(S, g, y))
  BY <1>2, <1>3, <1>4, <1>5
<1> HIDE DEF e, g, S, Kinds
<1>9. Stats!SumFunction(e) = Stats!Hours(S)
  BY <1>1, <1>8, HoursByClass
<1> QED BY <1>6, <1>7, <1>9 DEF e, S

\* A set of values of a function on a finite set
LEMMA FiniteImage ==
    ASSUME NEW S, IsFiniteSet(S), NEW h
    PROVE  IsFiniteSet({h[x] : x \in S})
<1> DEFINE T == {h[x] : x \in S}
           g == [x \in S |-> h[x]]
<1>1. g \in Surjection(S, T)
  BY DEF Surjection
<1> QED BY <1>1, FS_Surjection

LEMMA SiteSets ==
    /\ IsFiniteSet(Stats!Sites)
    /\ IsFiniteSet(Stats!ClassesSeen \cup {Null})
<1>1. IsFiniteSet(Stats!Sites)
  <2> DEFINE h == [i \in DOMAIN Inters |-> Inters[i].site]
  <2>1. {h[i] : i \in DOMAIN Inters} = Stats!Sites
    BY DEF Stats!Sites
  <2> HIDE DEF h
  <2> QED BY <2>1, StatsConstants, FiniteImage
<1>2. IsFiniteSet(Stats!ClassesSeen \cup {Null})
  <2> DEFINE h == [i \in DOMAIN Inters |-> Inters[i].class]
             C == {h[i] : i \in DOMAIN Inters}
  <2>1. IsFiniteSet(C)
    <3> HIDE DEF h
    <3> QED BY StatsConstants, FiniteImage
  <2>2. Stats!ClassesSeen \cup {Null} = C \cup {Null}
    BY DEF Stats!ClassesSeen
  <2> HIDE DEF C
  <2> QED BY <2>1, <2>2, FS_AddElement
<1> QED BY <1>1, <1>2

LEMMA SitesAdd ==
    ASSUME RowsFit, NEW S \in SUBSET Stats!Recorded,
           NEW e, DOMAIN e = Stats!Sites,
           \A s \in Stats!Sites : e[s] = Stats!Hours(Stats!OnSite(S, s))
    PROVE  Stats!SumFunction(e) = Stats!Hours(S)
<1> DEFINE g == [k \in S |-> Inters[acts[k].inter].site]
<1>1. \A s : Stats!OnSite(S, s) = Alike(S, g, s)
  BY DEF Stats!OnSite, Alike
<1>2. ASSUME NEW k \in S PROVE g[k] \in DOMAIN e
  <2>1. acts[k].inter \in DOMAIN Inters
    BY RowsRead DEF Stats!Row
  <2> QED BY <2>1 DEF Stats!Sites
<1> HIDE DEF g
<1>3. /\ IsFiniteSet(DOMAIN e) /\ \A k \in S : g[k] \in DOMAIN e
      /\ \A y \in DOMAIN e : e[y] = Stats!Hours(Alike(S, g, y))
  BY <1>1, <1>2, SiteSets
<1> QED BY <1>3, HoursByClass

\* The causes of a set of rows that have a factor
LEMMA CausesAdd ==
    ASSUME RowsFit, NEW S \in SUBSET Stats!Recorded,
           \A k \in S : acts[k].factor # Null,
           NEW e, DOMAIN e = {acts[k].factor : k \in S},
           \A f \in DOMAIN e : e[f] = Stats!Hours(Stats!Named(S, f))
    PROVE  Stats!SumFunction(e) = Stats!Hours(S)
<1> DEFINE g == [k \in S |-> acts[k].factor]
<1>1. \A f : Stats!Named(S, f) = Alike(S, g, f)
  BY DEF Stats!Named, Alike
<1>2. \A k \in S : g[k] \in DOMAIN e
  OBVIOUS
<1>3. IsFiniteSet(DOMAIN e)
  <2>1. IsFiniteSet(S)
    BY HoursIs
  <2>2. DOMAIN e = {g[k] : k \in S}
    OBVIOUS
  <2> HIDE DEF g
  <2> QED BY <2>1, <2>2, FiniteImage
<1> HIDE DEF g
<1>4. /\ IsFiniteSet(DOMAIN e) /\ \A k \in S : g[k] \in DOMAIN e
      /\ \A y \in DOMAIN e : e[y] = Stats!Hours(Alike(S, g, y))
  BY <1>1, <1>2, <1>3
<1> QED BY <1>4, HoursByClass

\* What a class is advised when nothing explains its failures
LEMMA AnnotateMeansSystemic ==
    ASSUME RowsFit, NEW q \in Stats!Queries, NEW c, NEW load,
           load = Stats!ClassLoad(q[1], q[2], c), Stats!Advice(load) = "annotate"
    PROVE  Stats!ExplanationParts(load) = {"systemic"}
<1> DEFINE E == Stats!OfClass(Stats!Explained(q[1], q[2]), c)
           Y == Stats!OfClass(Stats!Systemic(q[1], q[2]), c)
           A == Stats!OfClass(Stats!Avoidable(q[1], q[2]), c)
           D == Stats!OfClass(Stats!Failures(q[1], q[2]), c)
<1>1. /\ load.avoidable = Stats!Hours(A) /\ load.factor = Stats!Hours(E)
      /\ load.systemic = Stats!Hours(Y) /\ load.both = Stats!Hours(E \cap Y)
      /\ load.dep = Stats!Hours(D)
      /\ DOMAIN load.causes = {acts[k].factor : k \in E}
  BY DEF Stats!ClassLoad
<1>2. /\ DOMAIN load.causes = {}
      /\ Stats!RateShade(load.avoidable, load.dep) # "green"
  BY DEF Stats!Advice
<1>3. A = E \cup Y
  BY DEF Stats!OfClass, Stats!Avoidable
<1>4. A \in SUBSET Stats!Recorded /\ Y \in SUBSET Stats!Recorded /\ D \in SUBSET Stats!Recorded
  BY InReport DEF Stats!OfClass
<1> HIDE DEF E, Y, A, D
<1>5. E = {} /\ A = Y /\ E \cap Y = {}
  BY <1>1, <1>2, <1>3
<1>6. load.factor = 0 /\ load.both = 0 /\ load.avoidable = load.systemic
  BY <1>1, <1>5, HoursOfNone
<1>7. load.systemic \in Nat /\ load.dep \in Nat
  BY <1>1, <1>4, HoursIs
<1>8. load.systemic > 0
  <2>1. ~ Stats!Under(20, load.systemic, load.dep)
    BY <1>2, <1>6 DEF Stats!RateShade
  <2> QED BY <1>7, <2>1 DEF Stats!Under
<1> DEFINE y == load.systemic
<1>9. y \in Nat /\ y > 0
  BY <1>7, <1>8
<1>10. Stats!ExplanationParts(load)
          = (IF 0 - 0 > 0 THEN {"factor"} ELSE {})
              \cup (IF y - 0 > 0 THEN {"systemic"} ELSE {})
              \cup (IF 0 > 0 THEN {"both"} ELSE {})
  BY <1>6 DEF Stats!ExplanationParts
<1> HIDE DEF y
<1>11. ~(0 - 0 > 0) /\ y - 0 > 0 /\ ~(0 > 0)
  BY <1>9
<1> QED BY <1>10, <1>11

LEMMA ChargeHolds ==
    ASSUME RowsFit
    PROVE  Stats!ChargeAdds
<1> SUFFICES ASSUME NEW q \in Stats!Queries
             PROVE  LET b == Stats!Breakdown(q[1], q[2])
                        c == Stats!Charge(q[1], q[2])
                        sites == Stats!SiteConsumption(q[1], q[2])
                    IN /\ Stats!SumFunction(b) = c.total
                       /\ Stats!SumFunction([s \in Stats!Sites |-> sites[s].total]) = c.total
                       /\ Stats!SumFunction([s \in Stats!Sites |-> sites[s].frag]) = b.FRAG
                       /\ b.DEP = c.dep
                       /\ c.dep + c.constructive = c.total
                       /\ c.avoidable + c.endured = c.dep
                       /\ Stats!SumFunction(c.causes) <= c.avoidable
                       /\ \A k \in Stats!ClassesSeen :
                              LET load == c.class[k] IN
                              /\ Stats!SumFunction(load.causes) = load.factor
                              /\ Stats!Advice(load) = "annotate"
                                     => Stats!ExplanationParts(load) = {"systemic"}
  BY DEF Stats!ChargeAdds
<1> DEFINE B == Stats!Between(q[1], q[2])
           D == Stats!Failures(q[1], q[2])
           V == Stats!Avoidable(q[1], q[2])
           E == Stats!Explained(q[1], q[2])
           F == Stats!Fragments(q[1], q[2])
           b == Stats!Breakdown(q[1], q[2])
           c == Stats!Charge(q[1], q[2])
           sites == Stats!SiteConsumption(q[1], q[2])
           totals == [s \in Stats!Sites |-> sites[s].total]
           frags == [s \in Stats!Sites |-> sites[s].frag]
<1>1. /\ c.total = Stats!Hours(B) /\ c.dep = Stats!Hours(D)
      /\ c.constructive = Stats!Hours(B \ D)
      /\ c.avoidable = Stats!Hours(V) /\ c.endured = Stats!Hours(D \ V)
      /\ DOMAIN c.causes = {acts[k].factor : k \in E}
      /\ \A f \in DOMAIN c.causes : c.causes[f] = Stats!Hours(Stats!Named(E, f))
      /\ \A k \in Stats!ClassesSeen : c.class[k] = Stats!ClassLoad(q[1], q[2], k)
  BY DEF Stats!Charge
<1>2. /\ B \in SUBSET Stats!Recorded /\ D \in SUBSET B /\ V \in SUBSET D /\ E \in SUBSET V
      /\ D \in SUBSET Stats!Recorded /\ E \in SUBSET Stats!Recorded
      /\ V \in SUBSET Stats!Recorded /\ F \in SUBSET Stats!Recorded
      /\ \A k \in E : acts[k].factor # Null
  BY InReport DEF Stats!Fragments, Stats!Explained
<1>3. /\ Stats!SumFunction(b) = Stats!Hours(B) /\ b.DEP = Stats!Hours(D)
      /\ b.FRAG = Stats!Hours(F)
  BY KindsAdd
<1>4. Stats!SumFunction(totals) = Stats!Hours(B)
  <2>1. \A s \in Stats!Sites : totals[s] = Stats!Hours(Stats!OnSite(B, s))
    BY DEF Stats!SiteConsumption
  <2>2. DOMAIN totals = Stats!Sites
    OBVIOUS
  <2> HIDE DEF totals, B
  <2> QED BY <1>2, <2>1, <2>2, SitesAdd
<1>5. Stats!SumFunction(frags) = Stats!Hours(F)
  <2>1. \A s \in Stats!Sites : frags[s] = Stats!Hours(Stats!OnSite(F, s))
    BY DEF Stats!SiteConsumption
  <2>2. DOMAIN frags = Stats!Sites
    OBVIOUS
  <2> HIDE DEF frags, F
  <2> QED BY <1>2, <2>1, <2>2, SitesAdd
<1>6. ASSUME NEW k \in Stats!ClassesSeen
      PROVE  LET load == c.class[k] IN
             /\ Stats!SumFunction(load.causes) = load.factor
             /\ Stats!Advice(load) = "annotate" => Stats!ExplanationParts(load) = {"systemic"}
  <2> DEFINE load == c.class[k]
             X == Stats!OfClass(E, k)
             e == load.causes
  <2>1. load = Stats!ClassLoad(q[1], q[2], k)
    BY <1>1
  <2>2. load.factor = Stats!Hours(X) /\ DOMAIN e = {acts[j].factor : j \in X}
    BY <2>1 DEF Stats!ClassLoad
  <2>3. \A f \in DOMAIN e : e[f] = Stats!Hours(Stats!Named(X, f))
    BY <2>1 DEF Stats!ClassLoad
  <2>4. X \in SUBSET Stats!Recorded /\ \A j \in X : acts[j].factor # Null
    BY <1>2 DEF Stats!OfClass
  <2>5. Stats!SumFunction(e) = Stats!Hours(X)
    <3> HIDE DEF e, X
    <3> QED BY <2>2, <2>3, <2>4, CausesAdd
  <2>6. Stats!Advice(load) = "annotate" => Stats!ExplanationParts(load) = {"systemic"}
    <3> HIDE DEF load
    <3> QED BY <2>1, AnnotateMeansSystemic
  <2> QED BY <2>2, <2>5, <2>6
<1>7. Stats!SumFunction(c.causes) <= c.avoidable
  <2> DEFINE e == c.causes
  <2>1. Stats!SumFunction(e) = Stats!Hours(E)
    <3> HIDE DEF e, E
    <3> QED BY <1>1, <1>2, CausesAdd DEF e, E
  <2>2. /\ Stats!Hours(E) \in Nat /\ Stats!Hours(V \ E) \in Nat
        /\ Stats!Hours(V) = Stats!Hours(E) + Stats!Hours(V \ E)
    <3> HIDE DEF V, E
    <3> QED BY <1>2, HoursOfPart
  <2> HIDE DEF c, V, E
  <2> QED BY <1>1, <2>1, <2>2 DEF e
<1>8. c.dep + c.constructive = c.total /\ c.avoidable + c.endured = c.dep
  <2> HIDE DEF B, D, V
  <2>1. /\ Stats!Hours(B) = Stats!Hours(D) + Stats!Hours(B \ D)
        /\ Stats!Hours(D) = Stats!Hours(V) + Stats!Hours(D \ V)
    BY <1>2, HoursOfPart
  <2> HIDE DEF c
  <2> QED BY <1>1, <2>1
<1>9. /\ Stats!SumFunction(b) = c.total /\ b.DEP = c.dep
      /\ Stats!SumFunction(totals) = c.total /\ Stats!SumFunction(frags) = b.FRAG
  BY <1>1, <1>3, <1>4, <1>5
<1> HIDE DEF b, c
<1>10. QED BY <1>6, <1>7, <1>8, <1>9 DEF b, c, sites

------------------------------------------------------------------------------

LEMMA SumScaled ==
    ASSUME NEW m \in Nat, NEW n \in Nat, <<m, n>> \in {<<100, 20>>, <<20, 100>>, <<100, 40>>, <<40, 100>>},
           NEW S, IsFiniteSet(S), NEW f, NEW e, Numbers(f, S), Numbers(e, S),
           \A x \in S : m * f[x] <= n * e[x]
    PROVE  m * SumFunctionOnSet(f, S) <= n * SumFunctionOnSet(e, S)
<1> DEFINE Good == {t \in SUBSET S : m * SumFunctionOnSet(f, t) <= n * SumFunctionOnSet(e, t)}
<1>1. ASSUME NEW t \in SUBSET S, \A x \in t : t \ {x} \in Good PROVE t \in Good
  <2>0. IsFiniteSet(t) /\ Numbers(f, t) /\ Numbers(e, t)
    BY FS_Subset DEF Numbers
  <2>1. CASE t = {}
    <3>1. SumFunctionOnSet(f, t) = 0 /\ SumFunctionOnSet(e, t) = 0
      BY <2>1, SumNone
    <3> QED BY <3>1
  <2>2. CASE t # {}
    <3>1. PICK x \in t : TRUE
      BY <2>2
    <3>2. /\ SumFunctionOnSet(f, t) = f[x] + SumFunctionOnSet(f, t \ {x})
          /\ SumFunctionOnSet(f, t \ {x}) \in Nat
      BY <2>0, <3>1, SumTakeOut
    <3>3. /\ SumFunctionOnSet(e, t) = e[x] + SumFunctionOnSet(e, t \ {x})
          /\ SumFunctionOnSet(e, t \ {x}) \in Nat
      BY <2>0, <3>1, SumTakeOut
    <3>4. m * SumFunctionOnSet(f, t \ {x}) <= n * SumFunctionOnSet(e, t \ {x})
      BY <1>1, <3>1
    <3>5. f[x] \in Nat /\ e[x] \in Nat /\ m * f[x] <= n * e[x]
      BY <2>0, <3>1 DEF Numbers
    <3> DEFINE a == f[x]
               b == e[x]
               F == SumFunctionOnSet(f, t \ {x})
               G == SumFunctionOnSet(e, t \ {x})
    <3>6. a \in Nat /\ b \in Nat /\ F \in Nat /\ G \in Nat /\ m * a <= n * b /\ m * F <= n * G
      BY <3>2, <3>3, <3>4, <3>5
    <3> HIDE DEF a, b, F, G
    <3>7. m * (a + F) <= n * (b + G)
      <4>1. CASE m = 100 /\ n = 20
        BY <3>6, <4>1
      <4>2. CASE m = 20 /\ n = 100
        BY <3>6, <4>2
      <4>3. CASE m = 100 /\ n = 40
        BY <3>6, <4>3
      <4>4. CASE m = 40 /\ n = 100
        BY <3>6, <4>4
      <4> QED BY <4>1, <4>2, <4>3, <4>4
    <3> QED BY <3>2, <3>3, <3>7 DEF a, b, F, G
  <2> QED BY <2>1, <2>2
<1>2. Good \in SUBSET SUBSET S
  OBVIOUS
<1> HIDE DEF Good
<1>3. Good = SUBSET S
  BY <1>1, <1>2, SubsetsOf
<1> QED BY <1>3 DEF Good

LEMMA SumScaledMore ==
    ASSUME NEW m \in Nat, NEW n \in Nat, <<m, n>> \in {<<100, 20>>, <<20, 100>>, <<100, 40>>, <<40, 100>>},
           NEW S, IsFiniteSet(S), NEW f, NEW e, Numbers(f, S), Numbers(e, S),
           \A x \in S : m * f[x] <= n * e[x],
           NEW y \in S, m * f[y] < n * e[y]
    PROVE  m * SumFunctionOnSet(f, S) < n * SumFunctionOnSet(e, S)
<1>1. /\ SumFunctionOnSet(f, S) = f[y] + SumFunctionOnSet(f, S \ {y})
      /\ SumFunctionOnSet(f, S \ {y}) \in Nat
  BY SumTakeOut
<1>2. /\ SumFunctionOnSet(e, S) = e[y] + SumFunctionOnSet(e, S \ {y})
      /\ SumFunctionOnSet(e, S \ {y}) \in Nat
  BY SumTakeOut
<1>3. m * SumFunctionOnSet(f, S \ {y}) <= n * SumFunctionOnSet(e, S \ {y})
  <2> DEFINE T == S \ {y}
  <2>1. /\ IsFiniteSet(T) /\ Numbers(f, T) /\ Numbers(e, T)
        /\ \A x \in T : m * f[x] <= n * e[x]
    BY FS_Subset DEF Numbers
  <2> HIDE DEF T
  <2>2. m * SumFunctionOnSet(f, T) <= n * SumFunctionOnSet(e, T)
    BY <2>1, SumScaled
  <2> QED BY <2>2 DEF T
<1> DEFINE a == f[y]
           b == e[y]
           F == SumFunctionOnSet(f, S \ {y})
           G == SumFunctionOnSet(e, S \ {y})
<1>6. a \in Nat /\ b \in Nat /\ F \in Nat /\ G \in Nat /\ m * a < n * b /\ m * F <= n * G
  BY <1>1, <1>2, <1>3 DEF Numbers
<1> HIDE DEF a, b, F, G
<1>7. m * (a + F) < n * (b + G)
  <2>1. CASE m = 100 /\ n = 20
    BY <1>6, <2>1
  <2>2. CASE m = 20 /\ n = 100
    BY <1>6, <2>2
  <2>3. CASE m = 100 /\ n = 40
    BY <1>6, <2>3
  <2>4. CASE m = 40 /\ n = 100
    BY <1>6, <2>4
  <2> QED BY <2>1, <2>2, <2>3, <2>4
<1> QED BY <1>1, <1>2, <1>7 DEF a, b, F, G

LEMMA ShadeIs ==
    ASSUME NEW x \in Nat, NEW y \in Nat, y > 0
    PROVE  Stats!Shades[Stats!RateShade(x, y)]
               = IF 100 * x < 20 * y THEN 0 ELSE IF 100 * x <= 40 * y THEN 1 ELSE 2
<1>1. /\ Stats!Shades["green"] = 0 /\ Stats!Shades["orange"] = 1
      /\ Stats!Shades["red"] = 2
  BY DEF Stats!Shades
<1>2. Stats!RateShade(x, y)
          = IF 100 * x < 20 * y THEN "green"
            ELSE IF 100 * x <= 40 * y THEN "orange" ELSE "red"
  BY DEF Stats!RateShade, Stats!Under
<1>3. CASE 100 * x < 20 * y
  BY <1>1, <1>2, <1>3
<1>4. CASE ~(100 * x < 20 * y) /\ 100 * x <= 40 * y
  BY <1>1, <1>2, <1>4
<1>5. CASE ~(100 * x < 20 * y) /\ ~(100 * x <= 40 * y)
  BY <1>1, <1>2, <1>5
<1> QED BY <1>3, <1>4, <1>5

\* Among parts that add up, one is shaded no more than the whole and one no less.
LEMMA ShadesBracket ==
    ASSUME NEW C, IsFiniteSet(C), NEW a, NEW d, Numbers(a, C), Numbers(d, C),
           \A k \in C : a[k] <= d[k],
           NEW A \in Nat, NEW D \in Nat, D > 0,
           A = SumFunctionOnSet(a, C), D = SumFunctionOnSet(d, C)
    PROVE  /\ \E k \in C : /\ d[k] > 0
                           /\ Stats!Shades[Stats!RateShade(a[k], d[k])]
                                  <= Stats!Shades[Stats!RateShade(A, D)]
           /\ \E k \in C : /\ d[k] > 0
                           /\ Stats!Shades[Stats!RateShade(a[k], d[k])]
                                  >= Stats!Shades[Stats!RateShade(A, D)]
<1> DEFINE s(k) == IF 100 * a[k] < 20 * d[k] THEN 0 ELSE IF 100 * a[k] <= 40 * d[k] THEN 1 ELSE 2
           S == IF 100 * A < 20 * D THEN 0 ELSE IF 100 * A <= 40 * D THEN 1 ELSE 2
<1>0. \A k \in C : a[k] \in Nat /\ d[k] \in Nat
  BY DEF Numbers
<1>1. \A k \in C : d[k] > 0 => Stats!Shades[Stats!RateShade(a[k], d[k])] = s(k)
  BY <1>0, ShadeIs
<1>2. Stats!Shades[Stats!RateShade(A, D)] = S
  BY ShadeIs
<1>3. PICK y \in C : d[y] > 0
  <2> SUFFICES ASSUME \A k \in C : ~(d[k] > 0) PROVE FALSE
    OBVIOUS
  <2>1. \A k \in C : 100 * d[k] <= 20 * d[k]
    BY <1>0
  <2>2. 100 * SumFunctionOnSet(d, C) <= 20 * SumFunctionOnSet(d, C)
    BY <2>1, SumScaled
  <2> QED BY <2>2
<1>4. \E k \in C : d[k] > 0 /\ s(k) <= S
  <2> SUFFICES ASSUME \A k \in C : d[k] > 0 => ~(s(k) <= S) PROVE FALSE
    OBVIOUS
  <2>1. CASE S = 0
    <3>1. 100 * A < 20 * D
      BY <2>1
    <3>2. \A k \in C : 20 * d[k] <= 100 * a[k]
      BY <1>0, <2>1
    <3>3. 20 * SumFunctionOnSet(d, C) <= 100 * SumFunctionOnSet(a, C)
      BY <3>2, SumScaled
    <3> QED BY <3>1, <3>3
  <2>2. CASE S = 1
    <3>1. 100 * A <= 40 * D
      BY <2>2
    <3>2. \A k \in C : d[k] > 0 => 40 * d[k] < 100 * a[k]
      BY <1>0, <2>2
    <3>3. \A k \in C : 40 * d[k] <= 100 * a[k]
      BY <1>0, <3>2
    <3>4. 40 * SumFunctionOnSet(d, C) < 100 * SumFunctionOnSet(a, C)
      BY <1>3, <3>2, <3>3, SumScaledMore, SMTT(30)
    <3> QED BY <3>1, <3>4
  <2>3. CASE S = 2
    <3>1. s(y) <= 2
      BY <1>0
    <3> QED BY <1>3, <2>3, <3>1
  <2> QED BY <2>1, <2>2, <2>3
<1>5. \E k \in C : d[k] > 0 /\ s(k) >= S
  <2> SUFFICES ASSUME \A k \in C : d[k] > 0 => ~(s(k) >= S) PROVE FALSE
    OBVIOUS
  <2>1. CASE S = 0
    <3>1. s(y) >= 0
      BY <1>0
    <3> QED BY <1>3, <2>1, <3>1
  <2>2. CASE S = 1
    <3>1. 20 * D <= 100 * A
      BY <2>2
    <3>2. \A k \in C : d[k] > 0 => 100 * a[k] < 20 * d[k]
      BY <1>0, <2>2
    <3>3. \A k \in C : 100 * a[k] <= 20 * d[k]
      BY <1>0, <3>2
    <3>4. 100 * SumFunctionOnSet(a, C) < 20 * SumFunctionOnSet(d, C)
      BY <1>3, <3>2, <3>3, SumScaledMore, ZenonT(60)
    <3> QED BY <3>1, <3>4
  <2>3. CASE S = 2
    <3>1. 40 * D < 100 * A
      BY <2>3
    <3>2. \A k \in C : 100 * a[k] <= 40 * d[k]
      BY <1>0, <2>3
    <3>3. 100 * SumFunctionOnSet(a, C) <= 40 * SumFunctionOnSet(d, C)
      BY <3>2, SumScaled
    <3> QED BY <3>1, <3>3
  <2> QED BY <2>1, <2>2, <2>3
<1> HIDE DEF s, S
<1> QED BY <1>1, <1>2, <1>4, <1>5

LEMMA ClassesAdd ==
    ASSUME RowsFit, NEW S \in SUBSET Stats!Recorded,
           NEW e, DOMAIN e = Stats!ClassesSeen \cup {Null},
           \A c \in DOMAIN e : e[c] = Stats!Hours(Stats!OfClass(S, c))
    PROVE  Stats!SumFunction(e) = Stats!Hours(S) /\ Numbers(e, DOMAIN e)
<1> DEFINE g == [k \in S |-> Stats!Class(k)]
<1>1. \A c : Stats!OfClass(S, c) = Alike(S, g, c)
  BY DEF Stats!OfClass, Alike
<1>2. ASSUME NEW k \in S PROVE g[k] \in DOMAIN e
  <2>1. acts[k].inter \in DOMAIN Inters
    BY RowsRead DEF Stats!Row
  <2> QED BY <2>1 DEF Stats!ClassesSeen, Stats!Class
<1> HIDE DEF g
<1>3. /\ IsFiniteSet(DOMAIN e) /\ \A k \in S : g[k] \in DOMAIN e
      /\ \A y \in DOMAIN e : e[y] = Stats!Hours(Alike(S, g, y))
  BY <1>1, <1>2, SiteSets
<1> QED BY <1>3, HoursByClass

LEMMA RatesHold ==
    ASSUME RowsFit
    PROVE  Stats!RatesBracket
<1> SUFFICES ASSUME NEW q \in Stats!Queries
             PROVE  LET c == Stats!Charge(q[1], q[2])
                        loads == {l \in {Stats!ClassLoad(q[1], q[2], k) :
                                            k \in Stats!ClassesSeen \cup {Null}} : l.dep > 0}
                        shade(l) == Stats!Shades[Stats!RateShade(l.avoidable, l.dep)]
                        whole == Stats!Shades[Stats!RateShade(c.avoidable, c.dep)]
                    IN c.dep > 0 => /\ \E l \in loads : shade(l) <= whole
                                    /\ \E l \in loads : shade(l) >= whole
  BY DEF Stats!RatesBracket
<1> DEFINE c == Stats!Charge(q[1], q[2])
           D == Stats!Failures(q[1], q[2])
           V == Stats!Avoidable(q[1], q[2])
           C == Stats!ClassesSeen \cup {Null}
           load(k) == Stats!ClassLoad(q[1], q[2], k)
           a == [k \in C |-> load(k).avoidable]
           d == [k \in C |-> load(k).dep]
           loads == {l \in {load(k) : k \in C} : l.dep > 0}
           shade(l) == Stats!Shades[Stats!RateShade(l.avoidable, l.dep)]
           whole == Stats!Shades[Stats!RateShade(c.avoidable, c.dep)]
<1>1. c.dep = Stats!Hours(D) /\ c.avoidable = Stats!Hours(V)
  BY DEF Stats!Charge
<1>2. D \in SUBSET Stats!Recorded /\ V \in SUBSET D /\ V \in SUBSET Stats!Recorded
  BY InReport
<1>3. \A k \in C : /\ a[k] = Stats!Hours(Stats!OfClass(V, k))
                   /\ d[k] = Stats!Hours(Stats!OfClass(D, k))
  BY DEF Stats!ClassLoad
<1>4. DOMAIN a = C /\ DOMAIN d = C /\ IsFiniteSet(C)
  BY SiteSets
<1>5. Stats!SumFunction(a) = Stats!Hours(V) /\ Numbers(a, C)
  <2> HIDE DEF a, V, C
  <2> QED BY <1>2, <1>3, <1>4, ClassesAdd DEF C
<1>6. Stats!SumFunction(d) = Stats!Hours(D) /\ Numbers(d, C)
  <2> HIDE DEF d, D, C
  <2> QED BY <1>2, <1>3, <1>4, ClassesAdd DEF C
<1>7. c.avoidable = SumFunctionOnSet(a, C) /\ c.dep = SumFunctionOnSet(d, C)
  <2> HIDE DEF a, d, C
  <2> QED BY <1>1, <1>4, <1>5, <1>6, SumMeans
<1>8. c.avoidable \in Nat /\ c.dep \in Nat
  <2> HIDE DEF V, D
  <2> QED BY <1>1, <1>2, HoursIs
<1>9. ASSUME NEW k \in C PROVE a[k] <= d[k]
  <2> DEFINE X == Stats!OfClass(D, k)
             Y == Stats!OfClass(V, k)
  <2>1. X \in SUBSET Stats!Recorded /\ Y \in SUBSET X
    BY <1>2 DEF Stats!OfClass
  <2>0. a[k] = Stats!Hours(Y) /\ d[k] = Stats!Hours(X)
    BY <1>3
  <2> HIDE DEF X, Y, a, d
  <2>2. /\ Stats!Hours(Y) \in Nat /\ Stats!Hours(X \ Y) \in Nat
        /\ Stats!Hours(X) = Stats!Hours(Y) + Stats!Hours(X \ Y)
    BY <2>1, HoursOfPart
  <2> QED BY <2>0, <2>2
<1>10. \A k \in C : load(k).avoidable = a[k] /\ load(k).dep = d[k]
  OBVIOUS
<1> SUFFICES ASSUME c.dep > 0
             PROVE  (\E l \in loads : shade(l) <= whole) /\ (\E l \in loads : shade(l) >= whole)
  OBVIOUS
<1> HIDE DEF a, d, C, D, V, c, load
<1>11. /\ \E k \in C : d[k] > 0 /\ Stats!Shades[Stats!RateShade(a[k], d[k])] <= whole
       /\ \E k \in C : d[k] > 0 /\ Stats!Shades[Stats!RateShade(a[k], d[k])] >= whole
  BY <1>4, <1>5, <1>6, <1>7, <1>8, <1>9, ShadesBracket
<1> QED BY <1>10, <1>11

Starts(s, t, E) == {d \in s .. t : d = s \/ E[d - 1] = d - 1}
PeriodFrom(d, t, E) == <<d, Stats!EarlierOf(E[d], t)>>
Within(p, x) == 2 * p[1] <= x /\ x <= 2 * p[2]

LEMMA PeriodsOf ==
    ASSUME NEW type \in Stats!Periods, NEW q \in Stats!Queries, NEW E, E = Ends[type]
    PROVE  /\ Stats!SplitPeriods(q[1], q[2], type)
                  = {PeriodFrom(d, q[2], E) : d \in Starts(q[1], q[2], E)}
           /\ q[1] \in Nat /\ q[2] \in Nat /\ q[1] <= q[2]
           /\ q[1] .. q[2] \in SUBSET Stats!Days
           /\ \A d \in Stats!Days : /\ d \in Nat /\ E[d] \in Nat /\ d <= E[d]
                                    /\ \A e \in Stats!Days :
                                           e \in d .. E[d] => E[e] = E[d]
<1>1. MaxDay \in Nat
  BY StatsConstants
<1>2. q[1] \in 0 .. MaxDay /\ q[2] \in 0 .. MaxDay /\ q[1] <= q[2]
  BY DEF Stats!Queries, Stats!Days
<1>3. \A d \in Stats!Days : /\ E[d] \in Nat /\ d <= E[d]
                            /\ \A e \in Stats!Days : e \in d .. E[d] => E[e] = E[d]
  BY ReportsAssumption DEF Stats!ConstantsFit
<1>4. Stats!SplitPeriods(q[1], q[2], type)
          = {PeriodFrom(d, q[2], E) : d \in Starts(q[1], q[2], E)}
  BY DEF Stats!SplitPeriods, PeriodFrom, Starts
<1>5. q[1] .. q[2] \in SUBSET Stats!Days
  BY <1>1, <1>2 DEF Stats!Days
<1>6. \A d \in Stats!Days : d \in Nat
  BY <1>1 DEF Stats!Days
<1> QED BY <1>1, <1>2, <1>3, <1>4, <1>5, <1>6

\* What the calendar gives a report whose range is s .. t
Calendar(s, t, E) ==
    /\ s \in Nat /\ t \in Nat /\ s <= t
    /\ \A d \in s .. t : /\ E[d] \in Nat /\ d <= E[d]
                         /\ \A e \in s .. t : e \in d .. E[d] => E[e] = E[d]

LEMMA PeriodIs ==
    ASSUME NEW s, NEW t, NEW E, Calendar(s, t, E), NEW d \in Starts(s, t, E)
    PROVE  LET p == PeriodFrom(d, t, E)
           IN /\ d \in s .. t /\ d \in Nat /\ p[1] = d
              /\ p[2] \in Nat /\ p[2] <= t /\ p[2] <= E[d] /\ d <= p[2]
              /\ p[2] = t \/ p[2] = E[d]
<1>1. d \in s .. t /\ d \in Nat /\ E[d] \in Nat /\ d <= E[d] /\ t \in Nat /\ d <= t
  BY DEF Starts, Calendar
<1> QED BY <1>1 DEF PeriodFrom, Stats!EarlierOf

\* One period ends before the next begins.
LEMMA PeriodsApart ==
    ASSUME NEW s, NEW t, NEW E, Calendar(s, t, E),
           NEW d \in Starts(s, t, E), NEW e \in Starts(s, t, E), d < e
    PROVE  PeriodFrom(d, t, E)[2] < PeriodFrom(e, t, E)[1]
<1>1. /\ d \in s .. t /\ e \in s .. t /\ d \in Nat /\ e \in Nat /\ s \in Nat /\ t \in Nat
      /\ PeriodFrom(e, t, E)[1] = e /\ PeriodFrom(d, t, E)[2] <= E[d]
      /\ PeriodFrom(d, t, E)[2] \in Nat
  BY PeriodIs DEF Calendar
<1>2. E[d] \in Nat
  BY <1>1 DEF Calendar
<1>3. E[e - 1] = e - 1
  BY <1>1 DEF Starts
<1>4. E[d] < e
  <2> SUFFICES ASSUME ~(E[d] < e) PROVE FALSE
    OBVIOUS
  <2>1. e - 1 \in s .. t /\ e - 1 \in d .. E[d]
    BY <1>1, <1>2
  <2>2. E[e - 1] = E[d]
    BY <1>1, <2>1 DEF Calendar
  <2> QED BY <1>1, <1>2, <1>3, <2>2
<1> QED BY <1>1, <1>2, <1>4

\* An instant is in one period, or follows the midnight that begins its last day.
LEMMA PeriodOfInstant ==
    ASSUME NEW s, NEW t, NEW E, Calendar(s, t, E), NEW x \in Nat, 2 * s <= x, x <= 2 * t
    PROVE  \E d \in Starts(s, t, E) :
               \/ Within(PeriodFrom(d, t, E), x)
               \/ x = 2 * PeriodFrom(d, t, E)[2] + 1
<1>0. s \in Nat /\ t \in Nat /\ s <= t
  BY DEF Calendar
<1>1. PICK y \in s .. t : 2 * y <= x /\ x <= 2 * y + 1
  <2>1. \E y \in Nat : 2 * y <= x /\ x <= 2 * y + 1
    <3>1. /\ x \div 2 \in Nat /\ 2 * (x \div 2) <= x /\ x <= 2 * (x \div 2) + 1
      OBVIOUS
    <3> QED BY <3>1
  <2> QED BY <1>0, <2>1
<1> DEFINE A == {n \in Nat : n <= y /\ y - n \in Starts(s, t, E)}
<1>2. y \in Nat /\ s <= y /\ y <= t
  BY <1>0
<1>3. y - s \in A
  <2>1. y - (y - s) = s /\ y - s \in Nat /\ y - s <= y /\ s \in s .. t
    BY <1>0, <1>2
  <2> QED BY <2>1 DEF Starts
<1>4. PICK n \in A : \A m \in A : n <= m
  <2>1. A \in SUBSET Nat
    OBVIOUS
  <2> HIDE DEF A
  <2> QED BY <1>3, <2>1, Least
<1> DEFINE d == y - n
           p == PeriodFrom(d, t, E)
<1>5. d \in Starts(s, t, E) /\ d <= y /\ d \in Nat /\ n \in Nat
  BY <1>2, <1>4
<1>6. /\ d \in s .. t /\ p[1] = d /\ p[2] \in Nat /\ p[2] <= t /\ p[2] <= E[d]
      /\ d <= p[2] /\ (p[2] = t \/ p[2] = E[d])
  <2> HIDE DEF d
  <2> QED BY <1>5, PeriodIs
<1>7. y <= E[d]
  <2> SUFFICES ASSUME ~(y <= E[d]) PROVE FALSE
    OBVIOUS
  <2> DEFINE e == E[d]
  <2>1. e \in Nat /\ d <= e /\ e < y
    BY <1>2, <1>6 DEF Calendar
  <2>2. e \in s .. t /\ e \in d .. e
    BY <1>0, <1>2, <1>6, <2>1
  <2>3. E[e] = e
    <3> HIDE DEF d
    <3> QED BY <1>6, <2>2 DEF Calendar
  <2> HIDE DEF e, d
  <2>4. e + 1 \in Starts(s, t, E)
    <3>1. e + 1 \in s .. t /\ (e + 1) - 1 = e
      BY <1>0, <1>2, <2>1, <2>2
    <3> QED BY <2>3, <3>1 DEF Starts
  <2>5. y - (e + 1) \in Nat /\ y - (e + 1) <= y /\ y - (y - (e + 1)) = e + 1
    BY <1>2, <2>1
  <2>6. y - (e + 1) \in A
    BY <2>4, <2>5
  <2>7. n <= y - (e + 1)
    BY <1>4, <2>6
  <2>8. d = y - n
    BY DEF d
  <2> QED BY <1>2, <1>5, <2>1, <2>7, <2>8
<1>8. E[d] \in Nat
  BY <1>6 DEF Calendar
<1> HIDE DEF d, p
<1>9. y <= p[2]
  BY <1>2, <1>6, <1>7
<1>10. Within(p, x) \/ x = 2 * p[2] + 1
  BY <1>1, <1>2, <1>5, <1>6, <1>9 DEF Within
<1> QED BY <1>5, <1>10 DEF p

LEMMA PeriodsDisjoint ==
    ASSUME NEW s, NEW t, NEW E, Calendar(s, t, E),
           NEW p \in {PeriodFrom(d, t, E) : d \in Starts(s, t, E)},
           NEW r \in {PeriodFrom(d, t, E) : d \in Starts(s, t, E)}, NEW x \in Nat,
           Within(p, x)
    PROVE  /\ Within(r, x) => p = r
           /\ x # 2 * r[2] + 1
<1>1. PICK d \in Starts(s, t, E) : p = PeriodFrom(d, t, E)
  OBVIOUS
<1>2. PICK e \in Starts(s, t, E) : r = PeriodFrom(e, t, E)
  OBVIOUS
<1>3. /\ d \in Nat /\ p[1] = d /\ p[2] \in Nat /\ d <= p[2]
  BY <1>1, PeriodIs
<1>4. /\ e \in Nat /\ r[1] = e /\ r[2] \in Nat /\ e <= r[2]
  BY <1>2, PeriodIs
<1>5. CASE d = e
  <2>1. p = r
    BY <1>1, <1>2, <1>5
  <2> QED BY <1>3, <2>1 DEF Within
<1>6. CASE d < e
  <2>1. p[2] < r[1]
    BY <1>1, <1>2, <1>6, PeriodsApart
  <2> QED BY <1>3, <1>4, <2>1 DEF Within
<1>7. CASE e < d
  <2>1. r[2] < p[1]
    BY <1>1, <1>2, <1>7, PeriodsApart
  <2> QED BY <1>3, <1>4, <2>1 DEF Within
<1> QED BY <1>3, <1>4, <1>5, <1>6, <1>7

LEMMA PeriodsHold ==
    ASSUME RowsFit
    PROVE  Stats!PeriodsAccount
<1> SUFFICES ASSUME NEW q \in Stats!Queries, NEW type \in Stats!Periods
             PROVE  LET periods == Stats!SplitPeriods(q[1], q[2], type)
                        total(p) == Stats!Charge(p[1], p[2]).total
                        lost == {k \in Stats!Between(q[1], q[2]) :
                                    \E p \in periods : acts[k].at = 2 * p[2] + 1}
                    IN Stats!SumFunction([p \in periods |-> total(p)]) + Stats!Hours(lost)
                           = Stats!Charge(q[1], q[2]).total
  BY DEF Stats!PeriodsAccount
<1> DEFINE E == Ends[type]
           s == q[1]
           t == q[2]
           B == Stats!Between(q[1], q[2])
           T == Stats!SplitPeriods(q[1], q[2], type)
           lost == {k \in B : \E p \in T : acts[k].at = 2 * p[2] + 1}
           K == B \ lost
           e == [p \in T |-> Stats!Charge(p[1], p[2]).total]
           g == [k \in K |-> CHOOSE p \in T : Within(p, acts[k].at)]
<1>0. /\ T = {PeriodFrom(d, t, E) : d \in Starts(s, t, E)}
      /\ s \in Nat /\ t \in Nat /\ s <= t /\ s .. t \in SUBSET Stats!Days
      /\ \A d \in Stats!Days : /\ d \in Nat /\ E[d] \in Nat /\ d <= E[d]
                               /\ \A x \in Stats!Days : x \in d .. E[d] => E[x] = E[d]
  BY PeriodsOf
<1>1. Calendar(s, t, E)
  <2> HIDE DEF s, t, E
  <2> QED BY <1>0 DEF Calendar
<1>2. \A k \in Stats!Recorded : acts[k].at \in Nat
  <2>1. Stats!Instants \in SUBSET Nat
    BY StatsConstants DEF Stats!Instants
  <2> QED BY <2>1, RowsRead DEF Stats!Row
<1>3. /\ B \in SUBSET Stats!Recorded
      /\ \A a, b : \A k : k \in Stats!Between(a, b)
                     <=> k \in Stats!Recorded /\ 2 * a <= acts[k].at /\ acts[k].at <= 2 * b
  BY DEF Stats!Between
<1>4. \A p \in T : \A k : k \in Stats!Between(p[1], p[2])
                              <=> k \in Stats!Recorded /\ Within(p, acts[k].at)
  BY <1>3 DEF Within
<1>5. IsFiniteSet(T)
  <2>1. IsFiniteSet(s .. t)
    <3>1. s \in Int /\ t \in Int
      BY <1>0
    <3> HIDE DEF s, t
    <3> QED BY <3>1, FS_Interval
  <2>2. Starts(s, t, E) \in SUBSET (s .. t)
    BY DEF Starts
  <2>3. IsFiniteSet(Starts(s, t, E))
    BY <2>1, <2>2, FS_Subset
  <2> DEFINE h == [d \in Starts(s, t, E) |-> PeriodFrom(d, t, E)]
  <2>4. T = {h[d] : d \in Starts(s, t, E)}
    BY <1>0
  <2> HIDE DEF h, T
  <2> QED BY <2>3, <2>4, FiniteImage
<1>6. \A p, r \in T : \A x \in Nat : Within(p, x) => /\ Within(r, x) => p = r
                                                     /\ x # 2 * r[2] + 1
  <2> HIDE DEF s, t, E, T
  <2>1. ASSUME NEW p \in T, NEW r \in T, NEW x \in Nat, Within(p, x)
        PROVE  (Within(r, x) => p = r) /\ x # 2 * r[2] + 1
    <3>1. /\ p \in {PeriodFrom(d, t, E) : d \in Starts(s, t, E)}
          /\ r \in {PeriodFrom(d, t, E) : d \in Starts(s, t, E)}
      BY <1>0
    <3> QED BY <1>1, <2>1, <3>1, PeriodsDisjoint
  <2> QED BY <2>1
<1>7. ASSUME NEW k \in K PROVE \E p \in T : Within(p, acts[k].at)
  <2>1. k \in Stats!Recorded /\ 2 * s <= acts[k].at /\ acts[k].at <= 2 * t /\ acts[k].at \in Nat
    BY <1>2, <1>3
  <2> DEFINE x == acts[k].at
  <2>2. \E d \in Starts(s, t, E) : \/ Within(PeriodFrom(d, t, E), x)
                                   \/ x = 2 * PeriodFrom(d, t, E)[2] + 1
    <3> HIDE DEF s, t, E, x
    <3> QED BY <1>1, <2>1, PeriodOfInstant DEF x
  <2>3. ~\E p \in T : x = 2 * p[2] + 1
    OBVIOUS
  <2> HIDE DEF s, t, E, T, K
  <2> QED BY <1>0, <2>2, <2>3
<1>8. \A p \in T : s <= p[1] /\ p[1] \in Nat /\ p[2] <= t /\ p[2] \in Nat
  <2> HIDE DEF s, t, E, T
  <2>1. ASSUME NEW p \in T PROVE s <= p[1] /\ p[1] \in Nat /\ p[2] <= t /\ p[2] \in Nat
    <3>1. PICK d \in Starts(s, t, E) : p = PeriodFrom(d, t, E)
      BY <1>0
    <3>2. d \in s .. t /\ d \in Nat /\ p[1] = d /\ p[2] \in Nat /\ p[2] <= t
      BY <1>1, <3>1, PeriodIs
    <3> QED BY <1>0, <3>2
  <2> QED BY <2>1
<1>9. ASSUME NEW p \in T PROVE Stats!Between(p[1], p[2]) = Alike(K, g, p)
  <2>1. ASSUME NEW k \in Stats!Between(p[1], p[2]) PROVE k \in Alike(K, g, p)
    <3>1. k \in Stats!Recorded /\ Within(p, acts[k].at) /\ acts[k].at \in Nat
      BY <1>2, <1>4
    <3>2. 2 * s <= acts[k].at /\ acts[k].at <= 2 * t
      BY <1>0, <1>8, <3>1 DEF Within
    <3>3. k \in B
      BY <1>3, <3>1, <3>2
    <3>4. k \notin lost
      <4> DEFINE x == acts[k].at
      <4>1. ASSUME NEW r \in T PROVE x # 2 * r[2] + 1
        <5> HIDE DEF T
        <5>1. Within(p, x) /\ x \in Nat
          BY <3>1
        <5> HIDE DEF x
        <5> QED BY <1>6, <5>1
      <4> QED BY <4>1
    <3>5. k \in K
      BY <3>3, <3>4
    <3>6. g[k] = p
      <4> HIDE DEF T, K
      <4>1. g[k] \in T /\ Within(g[k], acts[k].at)
        BY <3>1, <3>5
      <4> QED BY <1>6, <3>1, <4>1
    <3> HIDE DEF K, g
    <3> QED BY <3>5, <3>6 DEF Alike
  <2>2. ASSUME NEW k \in Alike(K, g, p) PROVE k \in Stats!Between(p[1], p[2])
    <3>1. k \in K /\ g[k] = p
      BY DEF Alike
    <3>2. Within(g[k], acts[k].at)
      <4> HIDE DEF T, K
      <4> QED BY <1>7, <3>1
    <3>3. k \in Stats!Recorded
      BY <1>3, <3>1
    <3> HIDE DEF g
    <3> QED BY <1>4, <3>1, <3>2, <3>3
  <2> HIDE DEF g, K
  <2> QED BY <2>1, <2>2
<1>10. \A p \in T : e[p] = Stats!Hours(Stats!Between(p[1], p[2]))
  BY DEF Stats!Charge
<1>11. \A k \in K : g[k] \in T
  <2> HIDE DEF T, K
  <2> QED BY <1>7
<1>12. Stats!SumFunction(e) = Stats!Hours(K)
  <2>1. /\ DOMAIN e = T /\ K \in SUBSET Stats!Recorded
    BY <1>3
  <2>2. \A p \in DOMAIN e : e[p] = Stats!Hours(Alike(K, g, p))
    <3> HIDE DEF e, g, K, T
    <3> QED BY <1>9, <1>10, <2>1
  <2> HIDE DEF e, g, K, T
  <2>3. IsFiniteSet(DOMAIN e) /\ \A k \in K : g[k] \in DOMAIN e
    BY <1>5, <1>11, <2>1
  <2> QED BY <2>1, <2>2, <2>3, HoursByClass
<1>13. /\ Stats!Hours(B) = Stats!Hours(lost) + Stats!Hours(B \ lost)
       /\ Stats!Hours(lost) \in Nat /\ Stats!Hours(B \ lost) \in Nat
  <2>1. lost \in SUBSET B
    OBVIOUS
  <2> HIDE DEF lost, B
  <2> QED BY <1>3, <2>1, HoursOfPart
<1>14. Stats!Charge(q[1], q[2]).total = Stats!Hours(B)
  BY DEF Stats!Charge
<1>15. Stats!SumFunction(e) + Stats!Hours(lost) = Stats!Charge(q[1], q[2]).total
  <2>1. K = B \ lost
    OBVIOUS
  <2> HIDE DEF e, lost, K, B
  <2> QED BY <1>12, <1>13, <1>14, <2>1
<1> QED BY <1>15

\* One more row, k, is there after the step; it has been validated.
Added(k) ==
    /\ RowsFit
    /\ k \notin Stats!Recorded /\ Stats!Recorded' = Stats!Recorded \cup {k}
    /\ \A j \in Stats!Recorded : acts'[j] = acts[j]
    /\ \A j \in Stats!Recorded' : acts'[j] \in Stats!Row
    /\ acts'[k].time # Null /\ acts'[k].tech # Null /\ acts'[k].sub # Null

LEMMA RecordAdds ==
    ASSUME RowsFit, NEW k \in Slots, NEW r \in Payloads, Stats!Record(k, r)
    PROVE  Added(k) /\ RowsFit'
<1>1. /\ acts[k] = Null /\ acts' = [acts EXCEPT ![k] = r]
      /\ r.time # Null /\ r.tech # Null /\ r.sub # Null
  BY DEF Stats!Record, Stats!Valid
<1>2. r \in Stats!Row /\ r # Null
  BY StatsConstants
<1>3. DOMAIN acts = Slots
  BY DEF RowsFit
<1>4. \A j \in Slots : acts'[j] = IF j = k THEN r ELSE acts[j]
  BY <1>1, <1>3
<1>5. Stats!Recorded' = Stats!Recorded \cup {k} /\ k \notin Stats!Recorded
  BY <1>1, <1>2, <1>4 DEF Stats!Recorded
<1>6. \A j \in Stats!Recorded : acts'[j] = acts[j] /\ acts[j] \in Stats!Row
  BY <1>4, <1>5, RowsRead
<1>7. acts' \in [Slots -> Stats!OrNull(Stats!Row)]
  BY <1>1, <1>2 DEF RowsFit, Stats!OrNull
<1>8. RowsFit'
  <2>1. Stats!OrNull(Stats!Row)' = Stats!OrNull(Stats!Row)
    BY DEF Stats!OrNull, Stats!Row, Stats!Instants
  <2> QED BY <1>7, <2>1 DEF RowsFit
<1> QED BY <1>1, <1>2, <1>4, <1>5, <1>6, <1>8 DEF Added

\* What is read of the rows that were there
LEMMA ReadingsKept ==
    ASSUME NEW k, Added(k), NEW j \in Stats!Recorded
    PROVE  /\ acts'[j] = acts[j]
           /\ Stats!Cat(j)' = Stats!Cat(j)
           /\ Stats!Code(j)' = Stats!Code(j)
           /\ Stats!Class(j)' = Stats!Class(j)
           /\ Stats!Machine(j)' = Stats!Machine(j)
           /\ Stats!Time(j)' = Stats!Time(j)
           /\ Stats!TimeType(j)' = Stats!TimeType(j)
<1>1. acts'[j] = acts[j]
  BY DEF Added
<1>2. Stats!Cat(j)' = Stats!Cat(j)
  BY <1>1 DEF Stats!Cat
<1>3. Stats!Code(j)' = Stats!Code(j)
  BY <1>1 DEF Stats!Code
<1>4. Stats!Class(j)' = Stats!Class(j)
  BY <1>1 DEF Stats!Class
<1>6. Stats!Machine(j)' = Stats!Machine(j)
  BY <1>1 DEF Stats!Machine
<1>5. Stats!Time(j)' = Stats!Time(j)
  BY <1>1 DEF Stats!Time
<1>7. Stats!TimeType(j)' = Stats!TimeType(j)
  BY <1>1, <1>2 DEF Stats!TimeType, Stats!Short, Stats!Shorter
<1> QED BY <1>1, <1>2, <1>3, <1>4, <1>5, <1>6, <1>7

LEMMA ReportGrows ==
    ASSUME NEW k, Added(k), NEW q \in Stats!Queries
    PROVE  /\ Stats!Between(q[1], q[2]) \in SUBSET Stats!Recorded
           /\ Stats!Between(q[1], q[2])' \in SUBSET Stats!Recorded'
           /\ \A j : j \in Stats!Between(q[1], q[2])
                         <=> j \in Stats!Between(q[1], q[2])' /\ j # k
<1>1. /\ Stats!Between(q[1], q[2]) \in SUBSET Stats!Recorded
      /\ Stats!Between(q[1], q[2])' \in SUBSET Stats!Recorded'
  BY DEF Stats!Between
<1>2. \A j \in Stats!Recorded : j # k /\ acts'[j] = acts[j]
  BY DEF Added
<1>3. \A j : j \in Stats!Recorded <=> j \in Stats!Recorded' /\ j # k
  BY DEF Added
<1> QED BY <1>1, <1>2, <1>3 DEF Stats!Between

\* A set without a time after the step had none before, and is the same set.
LEMMA StaysUntimed ==
    ASSUME NEW k, Added(k), NEW X, NEW Y,
           \A j : j \in X <=> j \in Y /\ j # k, X \in SUBSET Stats!Recorded,
           Y # {}, \A j \in Y : acts'[j].time = Null
    PROVE  Stats!Untimed(X)
<1>1. k \notin Y
  BY DEF Added
<1>2. X = Y
  BY <1>1
<1>3. \A j \in X : acts'[j] = acts[j]
  BY DEF Added
<1> QED BY <1>2, <1>3 DEF Stats!Untimed

LEMMA NoNewError ==
    ASSUME NEW k, Added(k), NEW q \in Stats!Queries
    PROVE  /\ Stats!StatusFails(q[1], q[2])' => Stats!StatusFails(q[1], q[2])
           /\ Stats!ChargeFails(q[1], q[2])' => Stats!ChargeFails(q[1], q[2])
<1> DEFINE B == Stats!Between(q[1], q[2])
           F == Stats!Fragments(q[1], q[2])
           E == Stats!Explained(q[1], q[2])
<1>1. /\ B \in SUBSET Stats!Recorded /\ \A j : j \in B <=> j \in B' /\ j # k
  BY ReportGrows
<1>2. \A j \in Stats!Recorded : /\ acts'[j] = acts[j]
                                /\ Stats!Cat(j)' = Stats!Cat(j)
                                /\ Stats!TimeType(j)' = Stats!TimeType(j)
  BY ReadingsKept
<1>3. F \in SUBSET Stats!Recorded /\ \A j : j \in F <=> j \in F' /\ j # k
  BY <1>1, <1>2 DEF Stats!Fragments
<1>4. E \in SUBSET Stats!Recorded /\ \A j : j \in E <=> j \in E' /\ j # k
  BY <1>1, <1>2 DEF Stats!Explained, Stats!Failures
<1> HIDE DEF B, F, E
<1>5. ASSUME NEW s \in Stats!Sites, Stats!Untimed(Stats!OnSite(B, s))'
      PROVE  Stats!Untimed(Stats!OnSite(B, s))
  <2> DEFINE X == Stats!OnSite(B, s)
             Y == Stats!OnSite(B, s)'
  <2>1. X \in SUBSET Stats!Recorded /\ \A j : j \in X <=> j \in Y /\ j # k
    BY <1>1, <1>2 DEF Stats!OnSite
  <2>2. Y # {} /\ \A j \in Y : acts'[j].time = Null
    BY <1>5 DEF Stats!Untimed
  <2> HIDE DEF X, Y
  <2>3. Stats!Untimed(X)
    BY <2>1, <2>2, StaysUntimed
  <2> QED BY <2>3 DEF X
<1>6. ASSUME NEW c \in {acts'[j].sub : j \in F'} \ {Null},
             Stats!Untimed({j \in F : acts[j].sub = c})'
      PROVE  /\ c \in {acts[j].sub : j \in F} \ {Null}
             /\ Stats!Untimed({j \in F : acts[j].sub = c})
  <2> DEFINE X == {j \in F : acts[j].sub = c}
             Y == {j \in F' : acts'[j].sub = c}
  <2>1. X \in SUBSET Stats!Recorded /\ \A j : j \in X <=> j \in Y /\ j # k
    BY <1>2, <1>3
  <2>2. Y # {} /\ \A j \in Y : acts'[j].time = Null
    BY <1>6 DEF Stats!Untimed
  <2>3. Stats!Untimed(X)
    <3> HIDE DEF X, Y
    <3> QED BY <2>1, <2>2, StaysUntimed
  <2>4. X # {}
    <3> HIDE DEF X
    <3> QED BY <2>3 DEF Stats!Untimed
  <2> QED BY <2>3, <2>4
<1>7. ASSUME NEW f \in Factors, Stats!Untimed(Stats!Named(E, f))'
      PROVE  Stats!Untimed(Stats!Named(E, f))
  <2> DEFINE X == Stats!Named(E, f)
             Y == Stats!Named(E, f)'
  <2>1. X \in SUBSET Stats!Recorded /\ \A j : j \in X <=> j \in Y /\ j # k
    BY <1>2, <1>4 DEF Stats!Named
  <2>2. Y # {} /\ \A j \in Y : acts'[j].time = Null
    BY <1>7 DEF Stats!Untimed
  <2> HIDE DEF X, Y
  <2>3. Stats!Untimed(X)
    BY <2>1, <2>2, StaysUntimed
  <2> QED BY <2>3 DEF X
<1>8. ASSUME NEW f \in Factors, NEW c \in Stats!ClassesSeen,
              Stats!Untimed(Stats!Named(Stats!OfClass(E, c), f))'
       PROVE  Stats!Untimed(Stats!Named(Stats!OfClass(E, c), f))
  <2> DEFINE X == Stats!Named(Stats!OfClass(E, c), f)
             Y == Stats!Named(Stats!OfClass(E, c), f)'
  <2>1. X \in SUBSET Stats!Recorded /\ \A j : j \in X <=> j \in Y /\ j # k
    BY <1>2, <1>4 DEF Stats!Named, Stats!OfClass, Stats!Class
  <2>2. Y # {} /\ \A j \in Y : acts'[j].time = Null
    BY <1>8 DEF Stats!Untimed
  <2> HIDE DEF X, Y
  <2>3. Stats!Untimed(X)
    BY <2>1, <2>2, StaysUntimed
  <2> QED BY <2>3 DEF X
<1>9. Stats!StatusFails(q[1], q[2])' => Stats!StatusFails(q[1], q[2])
  <2> DEFINE Causes == Stats!FragCauses(q[1], q[2])
  <2>1. /\ DOMAIN Causes = {acts[j].sub : j \in F} \ {Null}
        /\ \A c \in DOMAIN Causes : Causes[c] = {j \in F : acts[j].sub = c}
    BY DEF Stats!FragCauses, F
  <2>2. /\ DOMAIN Causes' = {acts'[j].sub : j \in F'} \ {Null}
        /\ \A c \in DOMAIN Causes' : Causes'[c] = {j \in F' : acts'[j].sub = c}
    BY DEF Stats!FragCauses, F
  <2>3. Stats!StatusFails(q[1], q[2]) <=>
            \/ \E s \in Stats!Sites : Stats!Untimed(Stats!OnSite(B, s))
            \/ \E c \in DOMAIN Causes : Stats!Untimed(Causes[c])
    BY DEF Stats!StatusFails, B
  <2>4. Stats!StatusFails(q[1], q[2])' =>
            \/ \E s \in Stats!Sites : Stats!Untimed(Stats!OnSite(B, s))'
            \/ \E c \in DOMAIN Causes' : Stats!Untimed({j \in F : acts[j].sub = c})'
    <3>1. Stats!Sites' = Stats!Sites
      BY DEF Stats!Sites
    <3> QED BY <2>2, <3>1 DEF Stats!StatusFails, B, Stats!Untimed
  <2>5. ASSUME NEW c \in DOMAIN Causes', Stats!Untimed({j \in F : acts[j].sub = c})'
        PROVE  \E d \in DOMAIN Causes : Stats!Untimed(Causes[d])
    <3> HIDE DEF Causes
    <3>1. c \in {acts'[j].sub : j \in F'} \ {Null}
      BY <2>2
    <3>2. c \in DOMAIN Causes /\ Stats!Untimed({j \in F : acts[j].sub = c})
      BY <1>6, <2>1, <2>5, <3>1
    <3> QED BY <2>1, <3>2
  <2> HIDE DEF Causes
  <2> QED BY <1>5, <2>3, <2>4, <2>5
<1>10. Stats!ChargeFails(q[1], q[2])' => Stats!ChargeFails(q[1], q[2])
  <2>1. Stats!ClassesSeen' = Stats!ClassesSeen
    BY DEF Stats!ClassesSeen
  <2> QED BY <1>7, <1>8, <2>1 DEF Stats!ChargeFails, E
<1> QED BY <1>9, <1>10

\* More rows, more hours
LEMMA HoursGrow ==
    ASSUME NEW k, Added(k), NEW X \in SUBSET Stats!Recorded,
           NEW Y \in SUBSET Stats!Recorded', X \subseteq Y
    PROVE  Stats!Hours(X) <= Stats!Hours(Y)' /\ Stats!Hours(X) \in Nat
           /\ Stats!Hours(Y)' \in Nat
<1> DEFINE f == [j \in Y |-> Stats!Time(j)']
<1>0. RowsFit /\ Stats!Recorded' = Stats!Recorded \cup {k}
  BY DEF Added
<1>1. Stats!Hours(Y)' = SumFunctionOnSet(f, Y)
  <2>1. Stats!Hours(Y)' = Stats!SumFunction(f)
    BY DEF Stats!Hours
  <2> QED BY <2>1, SumMeans
<1>2. Stats!Hours(X) = SumFunctionOnSet(Quarters, X) /\ IsFiniteSet(X)
  BY <1>0, HoursIs
<1>3. IsFiniteSet(Y)
  <2>1. IsFiniteSet(Stats!Recorded)
    BY <1>0, HoursIs
  <2>2. IsFiniteSet(Stats!Recorded \cup {k})
    BY <2>1, FS_AddElement
  <2> QED BY <1>0, <2>2, FS_Subset
<1>4. ASSUME NEW j \in Y PROVE f[j] \in Nat
  <2>1. acts'[j] \in Stats!Row
    BY DEF Added
  <2>2. acts'[j].time \in Nat \cup {Null}
    BY <2>1 DEF Stats!Row, Stats!OrNull
  <2> QED BY <2>2 DEF Stats!Time
<1>5. Numbers(f, Y)
  <2> HIDE DEF f
  <2> QED BY <1>4 DEF Numbers
<1>6. Numbers(f, X)
  BY <1>5 DEF Numbers
<1>7. ASSUME NEW j \in X PROVE Quarters[j] = f[j]
  <2>1. Stats!Time(j)' = Stats!Time(j)
    BY ReadingsKept
  <2>2. j \in Slots
    BY <1>0, RowsRead
  <2> QED BY <2>1, <2>2 DEF Quarters
<1> HIDE DEF f
<1>8. SumFunctionOnSet(Quarters, X) = SumFunctionOnSet(f, X)
  BY <1>2, <1>6, <1>7, SumSame
<1>9. /\ SumFunctionOnSet(f, X) \in Nat /\ SumFunctionOnSet(f, Y \ X) \in Nat
      /\ SumFunctionOnSet(f, Y) = SumFunctionOnSet(f, X) + SumFunctionOnSet(f, Y \ X)
  BY <1>3, <1>5, SumPart
<1> QED BY <1>1, <1>2, <1>8, <1>9

LEMMA CountGrows ==
    ASSUME NEW k, Added(k), NEW X, NEW Y \in SUBSET Stats!Recorded', X \subseteq Y
    PROVE  /\ Stats!Cardinality(X) <= Stats!Cardinality(Y)
           /\ Stats!Cardinality(X) \in Nat /\ Stats!Cardinality(Y) \in Nat
<1>0. RowsFit /\ Stats!Recorded' = Stats!Recorded \cup {k}
  BY DEF Added
<1>1. IsFiniteSet(Stats!Recorded)
  BY <1>0, HoursIs
<1>2. IsFiniteSet(Stats!Recorded \cup {k})
  BY <1>1, FS_AddElement
<1>3. IsFiniteSet(Y)
  BY <1>0, <1>2, FS_Subset
<1> QED BY <1>3, FS_Subset, FS_CardinalityType, CountMeans

\* A group is there still, with the members it had.
GroupIn(T, of, g) ==
    \E h \in Stats!Group(T, of) : /\ h.of = g.of /\ g.members \subseteq h.members
                                  /\ h.members \subseteq T

LEMMA GroupGrows ==
    ASSUME NEW S, NEW T, S \subseteq T, NEW of, NEW now, \A j \in S : now[j] = of[j],
           NEW g \in Stats!Group(S, of)
    PROVE  g.members \in SUBSET S /\ GroupIn(T, now, g)
<1>1. PICK k \in S : g = [of |-> of[k], members |-> {j \in S : of[j] = of[k]}]
  BY DEF Stats!Group
<1> DEFINE h == [of |-> now[k], members |-> {j \in T : now[j] = now[k]}]
<1>2. h \in Stats!Group(T, now)
  BY <1>1 DEF Stats!Group
<1>3. h.of = g.of /\ g.members \subseteq h.members /\ h.members \subseteq T
  BY <1>1
<1>4. g.members \in SUBSET S
  BY <1>1
<1> HIDE DEF h
<1> QED BY <1>2, <1>3, <1>4 DEF GroupIn

\* Everything found is found still, as severe at least.
StillFound(F, G) == \A f \in F : \E g \in G : g.of = f.of /\ (f.high => g.high)

LEMMA NotPreventiveGrows ==
    ASSUME NEW k, Added(k), NEW q \in Stats!Queries
    PROVE  LET S == Stats!NotPreventive(Stats!Between(q[1], q[2]))
           IN /\ S \subseteq S' /\ S \in SUBSET Stats!Recorded
              /\ S' \in SUBSET Stats!Recorded'
              /\ \A j : j \in S <=> j \in S' /\ j # k
<1> DEFINE B == Stats!Between(q[1], q[2])
<1>1. /\ B \in SUBSET Stats!Recorded /\ B' \in SUBSET Stats!Recorded'
      /\ \A j : j \in B <=> j \in B' /\ j # k
  BY ReportGrows
<1>2. \A j \in Stats!Recorded : Stats!Cat(j)' = Stats!Cat(j)
  BY ReadingsKept
<1> HIDE DEF B
<1>3. LET S == Stats!NotPreventive(B)
      IN /\ S \subseteq S' /\ S \in SUBSET Stats!Recorded
         /\ S' \in SUBSET Stats!Recorded'
         /\ \A j : j \in S <=> j \in S' /\ j # k
  BY <1>1, <1>2 DEF Stats!NotPreventive
<1> QED BY <1>3 DEF B

LEMMA HighCounts ==
    /\ Counts.repetitive \in Nat /\ Counts.repetitiveHigh \in Nat
    /\ Counts.fragmented \in Nat /\ Counts.fragmentedHigh \in Nat
BY ReportsAssumption DEF Stats!ConstantsFit

LEMMA RepetitiveStays ==
    ASSUME NEW k, Added(k), NEW q \in Stats!Queries
    PROVE  StillFound(Stats!Repetitive(q[1], q[2]), Stats!Repetitive(q[1], q[2])')
<1> DEFINE S == Stats!NotPreventive(Stats!Between(q[1], q[2]))
           of == [j \in S |-> <<acts[j].sub, Stats!Machine(j), Ends.month[acts[j].at \div 2]>>]
           G == Stats!Group(S, of)
<1>1. Stats!Repetitive(q[1], q[2])
        = {Stats!Found(g.of, Stats!Cardinality(g.members) >= Counts.repetitiveHigh) :
              g \in {g \in G : Stats!Cardinality(g.members) > Counts.repetitive}}
  BY DEF Stats!Repetitive
<1>2. Stats!Repetitive(q[1], q[2])'
        = {Stats!Found(g.of, Stats!Cardinality(g.members) >= Counts.repetitiveHigh) :
              g \in {g \in G' : Stats!Cardinality(g.members) > Counts.repetitive}}
  BY DEF Stats!Repetitive
<1>3. /\ S \subseteq S' /\ S \in SUBSET Stats!Recorded /\ S' \in SUBSET Stats!Recorded'
  BY NotPreventiveGrows
<1>4. \A j \in S : of'[j] = of[j]
  <2>1. \A j \in S : acts'[j] = acts[j] /\ Stats!Machine(j)' = Stats!Machine(j) /\ j \in S'
    BY <1>3, ReadingsKept
  <2> HIDE DEF S
  <2> QED BY <2>1
<1> SUFFICES ASSUME NEW f \in Stats!Repetitive(q[1], q[2])
             PROVE  \E h \in Stats!Repetitive(q[1], q[2])' : h.of = f.of /\ (f.high => h.high)
  BY DEF StillFound
<1>5. PICK g \in G : /\ Stats!Cardinality(g.members) > Counts.repetitive
                     /\ f = Stats!Found(g.of, Stats!Cardinality(g.members) >= Counts.repetitiveHigh)
  <2> HIDE DEF G
  <2> QED BY <1>1
<1>6. PICK h \in G' : h.of = g.of /\ g.members \subseteq h.members /\ h.members \subseteq S'
  <2>1. GroupIn(S', of', g)
    <3> DEFINE T == S'
               now == of'
    <3>1. g \in Stats!Group(S, of) /\ S \subseteq T /\ \A j \in S : now[j] = of[j]
      BY <1>3, <1>4
    <3> HIDE DEF S, of, T, now
    <3>2. GroupIn(T, now, g)
      BY <3>1, GroupGrows
    <3> QED BY <3>2 DEF T, now
  <2>2. G' = Stats!Group(S', of')
    BY DEF Stats!Group
  <2> QED BY <2>1, <2>2 DEF GroupIn
<1>7. /\ Stats!Cardinality(g.members) <= Stats!Cardinality(h.members)
      /\ Stats!Cardinality(g.members) \in Nat /\ Stats!Cardinality(h.members) \in Nat
  <2>1. h.members \in SUBSET Stats!Recorded'
    <3> HIDE DEF S
    <3> QED BY <1>3, <1>6
  <2> HIDE DEF S, of, G
  <2> QED BY <1>6, <2>1, CountGrows
<1> DEFINE r == Stats!Found(h.of, Stats!Cardinality(h.members) >= Counts.repetitiveHigh)
<1> HIDE DEF G, S, of
<1>8. r \in Stats!Repetitive(q[1], q[2])'
  BY <1>2, <1>5, <1>6, <1>7, HighCounts
<1>9. r.of = f.of /\ (f.high => r.high)
  <2>1. /\ f.of = g.of /\ r.of = h.of
        /\ f.high = (Stats!Cardinality(g.members) >= Counts.repetitiveHigh)
        /\ r.high = (Stats!Cardinality(h.members) >= Counts.repetitiveHigh)
    BY <1>5 DEF Stats!Found
  <2>2. Stats!Cardinality(g.members) >= Counts.repetitiveHigh
            => Stats!Cardinality(h.members) >= Counts.repetitiveHigh
    BY <1>7, HighCounts
  <2> HIDE DEF r
  <2> QED BY <1>6, <2>1, <2>2
<1> QED BY <1>8, <1>9

LEMMA FragmentedStays ==
    ASSUME NEW k, Added(k), NEW q \in Stats!Queries
    PROVE  StillFound(Stats!Fragmented(q[1], q[2]), Stats!Fragmented(q[1], q[2])')
<1> DEFINE N == Stats!NotPreventive(Stats!Between(q[1], q[2]))
           S == {j \in N : Stats!Shorter(j, 4)}
           of == [j \in S |-> acts[j].sub]
           G == Stats!Group(S, of)
<1>1. Stats!Fragmented(q[1], q[2])
        = {Stats!Found(g.of, Stats!Cardinality(g.members) >= Counts.fragmentedHigh) :
              g \in {g \in G : Stats!Cardinality(g.members) >= Counts.fragmented}}
  BY DEF Stats!Fragmented
<1>2. Stats!Fragmented(q[1], q[2])'
        = {Stats!Found(g.of, Stats!Cardinality(g.members) >= Counts.fragmentedHigh) :
              g \in {g \in G' : Stats!Cardinality(g.members) >= Counts.fragmented}}
  BY DEF Stats!Fragmented
<1>a. \A j \in Stats!Recorded : acts'[j] = acts[j]
  BY ReadingsKept
<1>3. /\ S \subseteq S' /\ S \in SUBSET Stats!Recorded /\ S' \in SUBSET Stats!Recorded'
  <2>1. /\ N \subseteq N' /\ N \in SUBSET Stats!Recorded /\ N' \in SUBSET Stats!Recorded'
    BY NotPreventiveGrows
  <2> HIDE DEF N
  <2> QED BY <1>a, <2>1 DEF Stats!Shorter
<1>4. \A j \in S : of'[j] = of[j]
  <2>1. \A j \in S : acts'[j] = acts[j] /\ j \in S'
    BY <1>a, <1>3
  <2> HIDE DEF S
  <2> QED BY <2>1
<1> SUFFICES ASSUME NEW f \in Stats!Fragmented(q[1], q[2])
             PROVE  \E h \in Stats!Fragmented(q[1], q[2])' : h.of = f.of /\ (f.high => h.high)
  BY DEF StillFound
<1>5. PICK g \in G : /\ Stats!Cardinality(g.members) >= Counts.fragmented
                     /\ f = Stats!Found(g.of, Stats!Cardinality(g.members) >= Counts.fragmentedHigh)
  <2> HIDE DEF G
  <2> QED BY <1>1
<1>6. PICK h \in G' : h.of = g.of /\ g.members \subseteq h.members /\ h.members \subseteq S'
  <2>1. GroupIn(S', of', g)
    <3> DEFINE T == S'
               now == of'
    <3>1. g \in Stats!Group(S, of) /\ S \subseteq T /\ \A j \in S : now[j] = of[j]
      BY <1>3, <1>4
    <3> HIDE DEF S, of, T, now
    <3>2. GroupIn(T, now, g)
      BY <3>1, GroupGrows
    <3> QED BY <3>2 DEF T, now
  <2>2. G' = Stats!Group(S', of')
    BY DEF Stats!Group
  <2> QED BY <2>1, <2>2 DEF GroupIn
<1>7. /\ Stats!Cardinality(g.members) <= Stats!Cardinality(h.members)
      /\ Stats!Cardinality(g.members) \in Nat /\ Stats!Cardinality(h.members) \in Nat
  <2>1. h.members \in SUBSET Stats!Recorded'
    <3> HIDE DEF S
    <3> QED BY <1>3, <1>6
  <2>2. g.members \in SUBSET Stats!Recorded
    <3>1. g \in Stats!Group(S, of)
      OBVIOUS
    <3> HIDE DEF S, of
    <3>2. g.members \in SUBSET S
      BY <3>1, GroupGrows
    <3> QED BY <1>3, <3>2
  <2> HIDE DEF S, of, G
  <2> QED BY <1>6, <2>1, <2>2, CountGrows
<1> DEFINE r == Stats!Found(h.of, Stats!Cardinality(h.members) >= Counts.fragmentedHigh)
<1> HIDE DEF G, S, of
<1>8. r \in Stats!Fragmented(q[1], q[2])'
  <2>1. Stats!Cardinality(h.members) >= Counts.fragmented
    BY <1>5, <1>7, HighCounts
  <2> QED BY <1>2, <1>6, <2>1
<1>9. r.of = f.of /\ (f.high => r.high)
  <2>1. /\ f.of = g.of /\ r.of = h.of
        /\ f.high = (Stats!Cardinality(g.members) >= Counts.fragmentedHigh)
        /\ r.high = (Stats!Cardinality(h.members) >= Counts.fragmentedHigh)
    BY <1>5 DEF Stats!Found
  <2>2. Stats!Cardinality(g.members) >= Counts.fragmentedHigh
            => Stats!Cardinality(h.members) >= Counts.fragmentedHigh
    BY <1>7, HighCounts
  <2> HIDE DEF r
  <2> QED BY <1>6, <2>1, <2>2
<1> QED BY <1>8, <1>9

LEMMA LowValueStays ==
    ASSUME NEW k, Added(k), NEW q \in Stats!Queries
    PROVE  StillFound(Stats!LowValue(q[1], q[2]), Stats!LowValue(q[1], q[2])')
<1> DEFINE B == Stats!Between(q[1], q[2])
           S == {j \in B : Stats!Code(j) = "BAT_NET"}
           of == [j \in S |-> acts[j].sub]
           G == Stats!Group(S, of)
<1>1. Stats!LowValue(q[1], q[2])
        = {Stats!Found(g.of, Stats!Hours(g.members) >= 240) :
              g \in {g \in G : Stats!Hours(g.members) >= 120}}
  BY DEF Stats!LowValue
<1>2. Stats!LowValue(q[1], q[2])'
        = {Stats!Found(g.of, Stats!Hours(g.members)' >= 240) :
              g \in {g \in G' : Stats!Hours(g.members)' >= 120}}
  BY DEF Stats!LowValue
<1>a. \A j \in Stats!Recorded : acts'[j] = acts[j] /\ Stats!Code(j)' = Stats!Code(j)
  BY ReadingsKept
<1>3. /\ S \subseteq S' /\ S \in SUBSET Stats!Recorded /\ S' \in SUBSET Stats!Recorded'
  <2>1. /\ B \in SUBSET Stats!Recorded /\ B' \in SUBSET Stats!Recorded'
        /\ \A j : j \in B <=> j \in B' /\ j # k
    BY ReportGrows
  <2> HIDE DEF B
  <2> QED BY <1>a, <2>1
<1>4. \A j \in S : of'[j] = of[j]
  <2>1. \A j \in S : acts'[j] = acts[j] /\ j \in S'
    BY <1>a, <1>3
  <2> HIDE DEF S
  <2> QED BY <2>1
<1> SUFFICES ASSUME NEW f \in Stats!LowValue(q[1], q[2])
             PROVE  \E h \in Stats!LowValue(q[1], q[2])' : h.of = f.of /\ (f.high => h.high)
  BY DEF StillFound
<1>5. PICK g \in G : /\ Stats!Hours(g.members) >= 120
                     /\ f = Stats!Found(g.of, Stats!Hours(g.members) >= 240)
  <2> HIDE DEF G
  <2> QED BY <1>1
<1>6. PICK h \in G' : h.of = g.of /\ g.members \subseteq h.members /\ h.members \subseteq S'
  <2>1. GroupIn(S', of', g)
    <3> DEFINE T == S'
               now == of'
    <3>1. g \in Stats!Group(S, of) /\ S \subseteq T /\ \A j \in S : now[j] = of[j]
      BY <1>3, <1>4
    <3> HIDE DEF S, of, T, now
    <3>2. GroupIn(T, now, g)
      BY <3>1, GroupGrows
    <3> QED BY <3>2 DEF T, now
  <2>2. G' = Stats!Group(S', of')
    BY DEF Stats!Group
  <2> QED BY <2>1, <2>2 DEF GroupIn
<1>7. /\ Stats!Hours(g.members) <= Stats!Hours(h.members)'
      /\ Stats!Hours(g.members) \in Nat /\ Stats!Hours(h.members)' \in Nat
  <2>1. h.members \in SUBSET Stats!Recorded'
    <3> HIDE DEF S
    <3> QED BY <1>3, <1>6
  <2>2. g.members \in SUBSET Stats!Recorded
    <3>1. g \in Stats!Group(S, of)
      OBVIOUS
    <3> HIDE DEF S, of
    <3>2. g.members \in SUBSET S
      BY <3>1, GroupGrows
    <3> QED BY <1>3, <3>2
  <2> HIDE DEF S, of, G
  <2> QED BY <1>6, <2>1, <2>2, HoursGrow
<1> DEFINE r == Stats!Found(h.of, Stats!Hours(h.members)' >= 240)
<1> HIDE DEF G, S, of
<1>8. r \in Stats!LowValue(q[1], q[2])'
  <2>1. Stats!Hours(h.members)' >= 120
    BY <1>5, <1>7
  <2> QED BY <1>2, <1>6, <2>1
<1>9. r.of = f.of /\ (f.high => r.high)
  <2>1. /\ f.of = g.of /\ r.of = h.of
        /\ f.high = (Stats!Hours(g.members) >= 240)
        /\ r.high = (Stats!Hours(h.members)' >= 240)
    BY <1>5 DEF Stats!Found
  <2>2. Stats!Hours(g.members) >= 240
            => Stats!Hours(h.members)' >= 240
    BY <1>7
  <2> HIDE DEF r
  <2> QED BY <1>6, <2>1, <2>2
<1> QED BY <1>8, <1>9


LEMMA SingleStays ==
    ASSUME NEW k, Added(k), NEW q \in Stats!Queries
    PROVE  /\ StillFound(Stats!TooLong(q[1], q[2]), Stats!TooLong(q[1], q[2])')
           /\ StillFound(Stats!BadClassification(q[1], q[2]),
                         Stats!BadClassification(q[1], q[2])')
<1> DEFINE B == Stats!Between(q[1], q[2])
<1>1. /\ B \in SUBSET Stats!Recorded /\ \A j : j \in B <=> j \in B' /\ j # k
  BY ReportGrows
<1>2. \A j \in Stats!Recorded : /\ acts'[j] = acts[j]
                                /\ Stats!Time(j)' = Stats!Time(j)
                                /\ Stats!Code(j)' = Stats!Code(j)
  BY ReadingsKept
<1>3. \A j \in B : /\ j \in B' /\ acts'[j] = acts[j] /\ Stats!Time(j)' = Stats!Time(j)
                   /\ Stats!Code(j)' = Stats!Code(j)
  BY <1>1, <1>2
<1> HIDE DEF B
<1>4. Stats!TooLong(q[1], q[2]) \subseteq Stats!TooLong(q[1], q[2])'
  BY <1>3 DEF Stats!TooLong, B
<1>5. Stats!BadClassification(q[1], q[2]) \subseteq Stats!BadClassification(q[1], q[2])'
  BY <1>3 DEF Stats!BadClassification, B
<1> QED BY <1>4, <1>5 DEF StillFound

\* Neighbours, of any rows
NextTo(a, S, i, j) ==
    /\ i # j /\ a[i].tech = a[j].tech /\ a[i].inter = a[j].inter
    /\ a[i].at <= a[j].at /\ a[j].at - a[i].at <= 2
    /\ ~\E l \in S : /\ a[i].at < a[l].at /\ a[l].at < a[j].at
                     /\ a[l].tech = a[i].tech /\ a[l].inter = a[i].inter

\* In the set T, rows that stand as i and j do
PairIn(b, T, a, i, j) ==
    \E u, v \in T : /\ NextTo(b, T, u, v)
                    /\ b[u].tech = a[i].tech /\ b[u].inter = a[i].inter
                    /\ b[v].at = a[j].at
                    /\ b[v].at - b[u].at <= a[j].at - a[i].at

\* A pair is there still, or the new row follows the first and precedes the second.
LEMMA PairStays ==
    ASSUME NEW a, NEW b, NEW S, NEW T, NEW k, \A x : x \in S <=> x \in T /\ x # k,
           \A x \in S : b[x] = a[x], \A x \in T : b[x].at \in Nat,
           NEW i \in S, NEW j \in S, NextTo(a, S, i, j)
    PROVE  PairIn(b, T, a, i, j)
<1>1. i \in T /\ j \in T /\ b[i] = a[i] /\ b[j] = a[j] /\ b[i].at \in Nat /\ b[j].at \in Nat
  OBVIOUS
<1>2. CASE NextTo(b, T, i, j)
  <2>1. b[j].at - b[i].at <= a[j].at - a[i].at
    BY <1>1
  <2> QED BY <1>1, <1>2, <2>1 DEF PairIn
<1>3. CASE ~NextTo(b, T, i, j)
  <2>1. PICK l \in T : /\ b[i].at < b[l].at /\ b[l].at < b[j].at
                       /\ b[l].tech = b[i].tech /\ b[l].inter = b[i].inter
    BY <1>1, <1>3 DEF NextTo
  <2>2. l = k
    <3> SUFFICES ASSUME l # k PROVE FALSE
      OBVIOUS
    <3>1. l \in S /\ b[l] = a[l]
      OBVIOUS
    <3> QED BY <1>1, <2>1, <3>1 DEF NextTo
  <2>3. b[l].at \in Nat /\ l # j
    BY <1>1, <2>1
  <2>4. b[j].tech = b[l].tech /\ b[j].inter = b[l].inter
    BY <1>1, <2>1 DEF NextTo
  <2>5. b[l].at <= b[j].at /\ b[j].at - b[l].at <= 2
        /\ b[j].at - b[l].at <= a[j].at - a[i].at
    <3>1. b[j].at - b[i].at <= 2
      BY <1>1 DEF NextTo
    <3> QED BY <1>1, <2>1, <2>3, <3>1
  <2>6. ASSUME NEW m \in T, b[l].at < b[m].at, b[m].at < b[j].at,
               b[m].tech = b[l].tech, b[m].inter = b[l].inter
        PROVE  FALSE
    <3>1. b[m].at \in Nat
      OBVIOUS
    <3>2. m # k
      BY <2>2, <2>3, <2>6
    <3>3. m \in S /\ b[m] = a[m]
      BY <3>2
    <3>4. b[i].at < b[m].at /\ b[m].tech = b[i].tech /\ b[m].inter = b[i].inter
      BY <1>1, <2>1, <2>3, <2>6, <3>1
    <3> QED BY <1>1, <2>6, <3>3, <3>4 DEF NextTo
  <2>7. NextTo(b, T, l, j)
    BY <2>3, <2>4, <2>5, <2>6 DEF NextTo
  <2> QED BY <1>1, <2>1, <2>5, <2>7 DEF PairIn
<1> QED BY <1>2, <1>3

LEMMA BackToBackStays ==
    ASSUME NEW k, Added(k), NEW q \in Stats!Queries
    PROVE  StillFound(Stats!BackToBack(q[1], q[2]), Stats!BackToBack(q[1], q[2])')
<1> DEFINE S == Stats!NotPreventive(Stats!Between(q[1], q[2]))
<1>1. /\ S \in SUBSET Stats!Recorded /\ S' \in SUBSET Stats!Recorded'
      /\ \A j : j \in S <=> j \in S' /\ j # k
  BY NotPreventiveGrows
<1>2. \A j \in Stats!Recorded : acts'[j] = acts[j]
  BY ReadingsKept
<1>3. \A j \in Stats!Recorded' : acts'[j].at \in Nat
  <2>1. Stats!Instants \in SUBSET Nat
    BY StatsConstants DEF Stats!Instants
  <2>2. \A j \in Stats!Recorded' : acts'[j] \in Stats!Row
    BY DEF Added
  <2> QED BY <2>1, <2>2 DEF Stats!Row
<1>4. \A j \in Stats!Recorded : acts[j].at \in Nat
  <2>1. \A j \in Stats!Recorded : j \in Stats!Recorded'
    BY DEF Added
  <2> QED BY <1>2, <1>3, <2>1
<1>5. ASSUME NEW f \in Stats!BackToBack(q[1], q[2])
      PROVE  \E i, j \in S : /\ NextTo(acts, S, i, j)
                             /\ f = Stats!Found(<<acts[i].tech, acts[i].inter, acts[j].at>>,
                                                acts[j].at - acts[i].at <= 1)
  <2>1. PICK p \in S \X S :
            /\ Stats!Neighbours(S, p[1], p[2])
            /\ f = Stats!Found(<<acts[p[1]].tech, acts[p[1]].inter, acts[p[2]].at>>,
                               acts[p[2]].at - acts[p[1]].at <= 1)
    BY DEF Stats!BackToBack
  <2> HIDE DEF S
  <2>2. p[1] \in S /\ p[2] \in S
    OBVIOUS
  <2>3. NextTo(acts, S, p[1], p[2])
    <3>1. \A l \in S : acts[l].at \in Nat
      BY <1>1, <1>4
    <3> QED BY <2>1, <2>2, <3>1 DEF Stats!Neighbours, Stats!Precedes, NextTo
  <2> QED BY <2>1, <2>2, <2>3
<1>6. ASSUME NEW u \in S', NEW v \in S', NextTo(acts', S', u, v)
      PROVE  Stats!Found(<<acts'[u].tech, acts'[u].inter, acts'[v].at>>,
                         acts'[v].at - acts'[u].at <= 1) \in Stats!BackToBack(q[1], q[2])'
  <2> DEFINE p == <<u, v>>
  <2>1. p \in S' \X S' /\ p[1] = u /\ p[2] = v
    OBVIOUS
  <2>2. /\ u # v /\ acts'[u].tech = acts'[v].tech /\ acts'[u].inter = acts'[v].inter
        /\ acts'[u].at <= acts'[v].at /\ acts'[v].at - acts'[u].at <= 2
        /\ ~\E l \in S' : /\ acts'[u].at < acts'[l].at /\ acts'[l].at < acts'[v].at
                          /\ acts'[l].tech = acts'[u].tech /\ acts'[l].inter = acts'[u].inter
    BY <1>6 DEF NextTo
  <2>3. Stats!Neighbours(S, u, v)'
    <3> HIDE DEF S
    <3> QED BY <2>2 DEF Stats!Neighbours, Stats!Precedes
  <2>4. Stats!BackToBack(q[1], q[2])'
          = {Stats!Found(<<acts'[r[1]].tech, acts'[r[1]].inter, acts'[r[2]].at>>,
                         acts'[r[2]].at - acts'[r[1]].at <= 1) :
                r \in {r \in S' \X S' : Stats!Neighbours(S, r[1], r[2])'}}
    BY DEF Stats!BackToBack
  <2> HIDE DEF S, p
  <2> QED BY <2>1, <2>3, <2>4
<1> SUFFICES ASSUME NEW f \in Stats!BackToBack(q[1], q[2])
             PROVE  \E h \in Stats!BackToBack(q[1], q[2])' : h.of = f.of /\ (f.high => h.high)
  BY DEF StillFound
<1>7. PICK i \in S, j \in S : /\ NextTo(acts, S, i, j)
                              /\ f = Stats!Found(<<acts[i].tech, acts[i].inter, acts[j].at>>,
                                                 acts[j].at - acts[i].at <= 1)
  <2> HIDE DEF S
  <2> QED BY <1>5
<1>8. PICK u \in S', v \in S' : /\ NextTo(acts', S', u, v)
                                /\ acts'[u].tech = acts[i].tech
                                /\ acts'[u].inter = acts[i].inter
                                /\ acts'[v].at = acts[j].at
                                /\ acts'[v].at - acts'[u].at <= acts[j].at - acts[i].at
  <2> DEFINE T == S'
             b == acts'
  <2>1. /\ \A x : x \in S <=> x \in T /\ x # k
        /\ \A x \in S : b[x] = acts[x]
        /\ \A x \in T : b[x].at \in Nat
    BY <1>1, <1>2, <1>3
  <2> HIDE DEF S, T, b
  <2>2. PairIn(b, T, acts, i, j)
    BY <1>7, <2>1, PairStays
  <2> QED BY <2>2 DEF T, b, PairIn
<1> DEFINE h == Stats!Found(<<acts'[u].tech, acts'[u].inter, acts'[v].at>>,
                            acts'[v].at - acts'[u].at <= 1)
<1>9. h \in Stats!BackToBack(q[1], q[2])'
  <2> HIDE DEF S
  <2> QED BY <1>6, <1>8
<1>10. h.of = f.of /\ (f.high => h.high)
  <2>1. /\ h.of = <<acts'[u].tech, acts'[u].inter, acts'[v].at>>
        /\ f.of = <<acts[i].tech, acts[i].inter, acts[j].at>>
        /\ h.high = (acts'[v].at - acts'[u].at <= 1)
        /\ f.high = (acts[j].at - acts[i].at <= 1)
    BY <1>7 DEF Stats!Found
  <2>2. acts[j].at - acts[i].at <= 1 => acts'[v].at - acts'[u].at <= 1
    <3>1. /\ acts[i].at \in Nat /\ acts[j].at \in Nat
          /\ acts'[u].at \in Nat /\ acts'[v].at \in Nat
      <4> HIDE DEF S
      <4> QED BY <1>1, <1>3, <1>4, <1>7, <1>8
    <3> QED BY <1>8, <3>1
  <2> HIDE DEF h, S
  <2> QED BY <1>8, <2>1, <2>2
<1> QED BY <1>9, <1>10

LEMMA AnomaliesStay ==
    ASSUME NEW k, Added(k), NEW q \in Stats!Queries
    PROVE  \A before \in {Stats!Anomalies(q[1], q[2])}, after \in {Stats!Anomalies(q[1], q[2])'} :
               \A type \in DOMAIN before : \A f \in before[type] :
                   \E g \in after[type] : g.of = f.of /\ (f.high => g.high)
<1> DEFINE A == Stats!Anomalies(q[1], q[2])
           Z == Stats!Anomalies(q[1], q[2])'
<1>1. DOMAIN A = {"repetitive", "fragmented", "too_long", "bad_classification",
                  "back_to_back", "low_value"}
  BY DEF Stats!Anomalies
<1>2. /\ A["repetitive"] = Stats!Repetitive(q[1], q[2])
      /\ A["fragmented"] = Stats!Fragmented(q[1], q[2])
      /\ A["too_long"] = Stats!TooLong(q[1], q[2])
      /\ A["bad_classification"] = Stats!BadClassification(q[1], q[2])
      /\ A["back_to_back"] = Stats!BackToBack(q[1], q[2])
      /\ A["low_value"] = Stats!LowValue(q[1], q[2])
  BY DEF Stats!Anomalies
<1>3. /\ Z["repetitive"] = Stats!Repetitive(q[1], q[2])'
      /\ Z["fragmented"] = Stats!Fragmented(q[1], q[2])'
      /\ Z["too_long"] = Stats!TooLong(q[1], q[2])'
      /\ Z["bad_classification"] = Stats!BadClassification(q[1], q[2])'
      /\ Z["back_to_back"] = Stats!BackToBack(q[1], q[2])'
      /\ Z["low_value"] = Stats!LowValue(q[1], q[2])'
  BY DEF Stats!Anomalies
<1> HIDE DEF A, Z
<1>4. ASSUME NEW type \in DOMAIN A PROVE StillFound(A[type], Z[type])
  <2>1. CASE type = "repetitive"
    BY <1>2, <1>3, <2>1, RepetitiveStays
  <2>2. CASE type = "fragmented"
    BY <1>2, <1>3, <2>2, FragmentedStays
  <2>3. CASE type = "too_long"
    BY <1>2, <1>3, <2>3, SingleStays
  <2>4. CASE type = "bad_classification"
    BY <1>2, <1>3, <2>4, SingleStays
  <2>5. CASE type = "back_to_back"
    BY <1>2, <1>3, <2>5, BackToBackStays
  <2>6. CASE type = "low_value"
    BY <1>2, <1>3, <2>6, LowValueStays
  <2> QED BY <1>1, <2>1, <2>2, <2>3, <2>4, <2>5, <2>6
<1>5. \A type \in DOMAIN A : \A f \in A[type] :
          \E g \in Z[type] : g.of = f.of /\ (f.high => g.high)
  BY <1>4 DEF StillFound
<1> QED BY <1>5 DEF A, Z

LEMMA ProblemsStay ==
    ASSUME NEW k, Added(k)
    PROVE  Stats!Quality(BOOLEAN) \subseteq Stats!Quality(BOOLEAN)'
<1> DEFINE D == Stats!Detectors
<1>1. \A j \in Stats!Recorded : /\ acts'[j] = acts[j]
                                /\ Stats!Time(j)' = Stats!Time(j)
                                /\ j \in Stats!Recorded'
  <2>1. \A j \in Stats!Recorded : j \in Stats!Recorded'
    BY DEF Added
  <2> QED BY <2>1, ReadingsKept
<1>2. DOMAIN D = DOMAIN D'
  BY DEF Stats!Detectors
<1>3. ASSUME NEW n \in DOMAIN D
      PROVE  D[n].high = D'[n].high /\ D[n].found \subseteq D'[n].found
  <2>1. CASE n = "action_time_null"
    BY <1>1, <2>1 DEF Stats!Detectors
  <2>2. CASE n = "action_complexity_sans_facteur"
    BY <1>1, <2>2 DEF Stats!Detectors
  <2>3. CASE n = "action_subcategory_null"
    BY <1>1, <2>3 DEF Stats!Detectors
  <2>4. CASE n = "action_tech_null"
    BY <1>1, <2>4 DEF Stats!Detectors
  <2>5. CASE n = "action_description_vide"
    BY <1>1, <2>5 DEF Stats!Detectors
  <2>6. CASE n = "action_time_suspect"
    BY <1>1, <2>6 DEF Stats!Detectors
  <2>7. n \in {"action_time_null", "action_complexity_sans_facteur",
               "action_subcategory_null", "action_tech_null",
               "action_description_vide", "action_time_suspect"}
    BY DEF Stats!Detectors
  <2> QED BY <2>1, <2>2, <2>3, <2>4, <2>5, <2>6, <2>7
<1>4. /\ Stats!Quality(BOOLEAN) = {p \in (DOMAIN D) \X Stats!Recorded :
             D[p[1]].high \in BOOLEAN /\ p[2] \in D[p[1]].found}
      /\ Stats!Quality(BOOLEAN)' = {p \in (DOMAIN D') \X Stats!Recorded' :
             D'[p[1]].high \in BOOLEAN /\ p[2] \in D'[p[1]].found}
  BY DEF Stats!Quality
<1> HIDE DEF D
<1>5. ASSUME NEW p \in (DOMAIN D) \X Stats!Recorded,
             D[p[1]].high \in BOOLEAN, p[2] \in D[p[1]].found
      PROVE  /\ p \in (DOMAIN D') \X Stats!Recorded'
             /\ D'[p[1]].high \in BOOLEAN /\ p[2] \in D'[p[1]].found
  <2>1. p[1] \in DOMAIN D /\ p[2] \in Stats!Recorded /\ p = <<p[1], p[2]>>
    OBVIOUS
  <2>2. p[1] \in DOMAIN D' /\ p[2] \in Stats!Recorded'
    BY <1>1, <1>2, <2>1
  <2>3. D[p[1]].high = D'[p[1]].high /\ D[p[1]].found \subseteq D'[p[1]].found
    BY <1>3, <2>1
  <2> QED BY <1>5, <2>1, <2>2, <2>3
<1> QED BY <1>4, <1>5

LEMMA RowsFitAlways == ReportsSpec => []RowsFit
<1>1. ReportsInit => RowsFit
  <2> SUFFICES ASSUME ReportsInit PROVE RowsFit
    OBVIOUS
  <2>1. CASE acts = [k \in Slots |-> Null]
    BY <2>1 DEF RowsFit, Stats!OrNull
  <2>2. CASE Stats!StatsInit
    BY <2>2, StatsConstants DEF Stats!StatsInit, RowsFit, Stats!OrNull
  <2> QED BY <2>1, <2>2 DEF ReportsInit
<1>2. RowsFit /\ [ReportsNext]_rvars => RowsFit'
  <2> SUFFICES ASSUME RowsFit, [ReportsNext]_rvars PROVE RowsFit'
    OBVIOUS
  <2>1. CASE acts' = acts
    <3>1. Stats!OrNull(Stats!Row)' = Stats!OrNull(Stats!Row)
      BY DEF Stats!OrNull, Stats!Row, Stats!Instants
    <3> QED BY <2>1, <3>1 DEF RowsFit
  <2>2. CASE Stats!StatsNext
    BY <2>2, RecordAdds DEF Stats!StatsNext
  <2> QED BY <2>1, <2>2 DEF ReportsNext, rvars
<1> QED BY <1>1, <1>2, PTL DEF ReportsSpec

\* For any actions, with or without a time, an intervention or a class, and any
\* period: the categories of the status of the service add up to its total, the load
\* shares the same hours out, and the causes of a class never exceed what explains it.
THEOREM LoadAddsUp == ReportsSpec => []ChargeAdds
<1>1. RowsFit => ChargeAdds
  BY ChargeHolds DEF ChargeAdds
<1> QED BY <1>1, RowsFitAlways, PTL

\* In any period, the colour of the avoidable failures as a whole lies between the
\* colours of the classes and of what has none.
THEOREM RatesAgree == ReportsSpec => []RatesBracket
<1>1. RowsFit => RatesBracket
  BY RatesHold DEF RatesBracket
<1> QED BY <1>1, RowsFitAlways, PTL

\* In any range, the hours of the weeks, months or quarters and those recorded after
\* the midnight that begins the last day of one of them are the hours of the range.
THEOREM PeriodsAddUp == ReportsSpec => []PeriodsAccount
<1>1. RowsFit => PeriodsAccount
  BY PeriodsHold DEF PeriodsAccount
<1> QED BY <1>1, RowsFitAlways, PTL

\* To record one more action makes no report fail that answered, takes no anomaly or
\* quality problem out of a report and lowers no severity.
THEOREM ReportsOnlyGrow == ReportsSpec => ReportsGrow
<1> DEFINE Grow ==
      \A q \in Stats!Queries :
          /\ Stats!StatusFails(q[1], q[2])' => Stats!StatusFails(q[1], q[2])
          /\ Stats!ChargeFails(q[1], q[2])' => Stats!ChargeFails(q[1], q[2])
          /\ \A before \in {Stats!Anomalies(q[1], q[2])},
                after \in {Stats!Anomalies(q[1], q[2])'} :
                \A type \in DOMAIN before : \A f \in before[type] :
                    \E g \in after[type] : g.of = f.of /\ (f.high => g.high)
          /\ Stats!Quality(BOOLEAN) \subseteq Stats!Quality(BOOLEAN)'
<1>1. RowsFit /\ [ReportsNext]_rvars => [acts' # acts => Grow]_acts
  <2> SUFFICES ASSUME RowsFit, [ReportsNext]_rvars, acts' # acts PROVE Grow
    OBVIOUS
  <2>1. PICK k \in Slots, r \in Payloads : Stats!Record(k, r)
    BY DEF ReportsNext, rvars, Stats!StatsNext
  <2>2. Added(k)
    BY <2>1, RecordAdds
  <2> QED BY <2>2, NoNewError, AnomaliesStay, ProblemsStay
<1>2. [][acts' # acts => Grow]_acts <=> Stats!ReportsGrow
  BY DEF Stats!ReportsGrow
<1> HIDE DEF Grow
<1> QED BY <1>1, <1>2, RowsFitAlways, PTL DEF ReportsSpec, ReportsGrow

=================================================================================

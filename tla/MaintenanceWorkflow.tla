------------------------- MODULE MaintenanceWorkflow -------------------------
(***************************************************************************)
(* What the workflow endpoints promise when no two calls overlap: every    *)
(* endpoint is one indivisible step on the database.  ConcurrentWorkflow   *)
(* splits the same endpoints into the transactions the code really runs.   *)
(***************************************************************************)
EXTENDS MaintenanceTables

VARIABLE db

Init == db = EmptyDatabase

------------------------------------------------------------------------------
(* Requests and occurrences *)

\* POST /intervention-requests
CreateRequest(r) ==
    /\ db.request[r] = NoRequest
    /\ db' = InsertRequest(db, r)

\* POST /preventive-occurrences/generate, when the plan is due for the machine
Generate(o, r) ==
    /\ db.occurrence[o] = NoOccurrence
    /\ db.request[r] = NoRequest
    /\ \A p \in Occurrences : db.occurrence[p].status \notin ActiveOccurrence
    /\ db' = GenerateTx(db, o, r)

\* PATCH /preventive-occurrences/{id}/skip
Skip(o) ==
    /\ db.occurrence[o].status = "pending"
    /\ db' = SkipTx(db, o)

\* POST /intervention-requests/{id}/transition
Hold(r) ==
    /\ TransitionValid(db, r, "en_attente")
    /\ db' = HoldTx(db, r, {})

Reject(r) ==
    /\ TransitionValid(db, r, "rejetee")
    /\ db' = RejectTx(db, r, {})

Accept(r, i) ==
    /\ TransitionValid(db, r, "acceptee")
    /\ db.intervention[i] = NoIntervention
    /\ \E o \in Picks(OccurrencesOfRequest(db, r)) : db' = AcceptTx(db, r, i, o, {})

Close(r) ==
    /\ TransitionValid(db, r, "cloturee")
    /\ ~CloseRefused(db, db.request[r].intervention)
    /\ db' = CloseTx(db, r, db.request[r].intervention, {})

------------------------------------------------------------------------------
(* Interventions *)

\* POST /interventions (request_id is mandatory)
CreateIntervention(r, i) ==
    /\ Linkable(db, r)
    /\ db.intervention[i] = NoIntervention
    /\ \E o \in Picks(UnattachedOccurrences(db, r)) :
           db' = LinkTx(db, r, i, OccurrencesOfRequest(db, r) # {}, o, {})

\* PUT /interventions/{id} with status_actual
SetStatus(i, s) ==
    /\ LiveIntervention(db, i)
    /\ s = "ferme" => ~Blocking(db, i)
    /\ ~UpdateRefused(db, i, s)
    /\ db' = UpdateStatus(db, i, s, {})

\* POST /intervention-status-log
LogStatus(i, s) ==
    /\ LiveIntervention(db, i)
    /\ ~InsertLogRefused(db, i, s)
    /\ db' = SyncStatusLog(db, i, s, {})

\* DELETE /interventions/{id}
DeleteIntervention(i) ==
    /\ LiveIntervention(db, i)
    /\ ~db.intervention[i].actions
    /\ ~DeleteRefused(db, i)
    /\ db' = DeleteInterventionTx(db, i)

------------------------------------------------------------------------------
(* Tasks and actions *)

\* POST /intervention-tasks
CreateTask(t, i, optional) ==
    /\ db.task[t] = NoTask
    /\ Editable(db, i)
    /\ db' = CreateTaskTx(db, t, i, optional)

TaskEditable(t) ==
    /\ db.task[t].status \in TaskStatuses
    /\ db.task[t].intervention # Null
    /\ Editable(db, db.task[t].intervention)

\* PATCH /intervention-tasks/{id} with status
PatchTask(t, s) ==
    /\ TaskEditable(t)
    /\ db' = PatchTaskTx(db, t, s)

\* DELETE /intervention-tasks/{id}
DeleteTask(t) ==
    /\ TaskEditable(t)
    /\ ~db.task[t].tagged
    /\ db' = DeleteTaskTx(db, t)

\* POST /intervention-actions with its list of tasks, and a PATCH that adds some
AddAction(i, tags) ==
    /\ Editable(db, i)
    /\ DOMAIN tags # {}
    /\ \A t \in DOMAIN tags :
           db.task[t].intervention = i /\ db.task[t].status \in PendingTask
    /\ db' = TagTx(db, i, tags)

------------------------------------------------------------------------------

PatchStatuses == {"todo", "done", "skipped"}
ActionModes == {"in_progress", "done", "skipped"}

RequestNext ==
    \/ \E r \in Requests : CreateRequest(r) \/ Hold(r) \/ Reject(r) \/ Close(r)
    \/ \E r \in Requests, i \in Interventions : Accept(r, i)
    \/ \E o \in Occurrences : Skip(o) \/ \E r \in Requests : Generate(o, r)

InterventionNext ==
    \/ \E r \in Requests, i \in Interventions : CreateIntervention(r, i)
    \/ \E i \in Interventions, s \in InterventionStatuses :
           SetStatus(i, s) \/ LogStatus(i, s)
    \/ \E i \in Interventions : DeleteIntervention(i)

TaskNext ==
    \/ \E t \in ManualTasks, i \in Interventions, optional \in BOOLEAN :
           CreateTask(t, i, optional)
    \/ \E t \in Tasks : \/ \E s \in PatchStatuses : PatchTask(t, s)
                        \/ DeleteTask(t)
    \/ \E i \in Interventions : \E T \in SUBSET TasksOf(db, i) :
           \E tags \in [T -> ActionModes] : AddAction(i, tags)

Next == RequestNext \/ InterventionNext \/ TaskNext

Spec == Init /\ [][Next]_db

------------------------------------------------------------------------------
(* Properties *)

\* Every row has the columns and the values the schema allows.
TypeOK == db \in Database

\* A request keeps a link to an intervention only while accepted or closed, so a
\* rejected or waiting request never has work running for it.
LinkedOnlyOnceAccepted ==
    \A r \in Requests : db.request[r].intervention # Null
                            => db.request[r].statut \in {"acceptee", "cloturee"}

\* Every existing intervention answers exactly one request: none is orphaned,
\* none is shared.
OneRequestPerIntervention ==
    \A i \in Interventions :
        LiveIntervention(db, i) =>
            \E r \in Requests : RequestsLinkedTo(db, i) = {r}

\* The status of a preventive occurrence tells where its DI and its
\* intervention stand.
OccurrenceFollowsRequest ==
    \A o \in Occurrences :
        LET occ == db.occurrence[o] IN
        /\ occ.status \in {"pending", "skipped"} =>
               occ.request = Null /\ occ.intervention = Null
        /\ occ.status = "generated" =>
               /\ occ.request # Null /\ occ.intervention = Null
               /\ db.request[occ.request].statut \in {"nouvelle", "en_attente"}
        /\ occ.status \in {"in_progress", "completed"} =>
               /\ occ.request # Null
               /\ db.request[occ.request].intervention = occ.intervention
               /\ db.request[occ.request].statut =
                      (IF occ.status = "in_progress" THEN "acceptee" ELSE "cloturee")

\* The status log of a request always ends in the request's status: otherwise
\* fn_log_request_status_change refuses every later closure.
LogEndsInStatut ==
    \A r \in Requests : db.request[r].logged = db.request[r].statut

\* However a request, its log, its occurrence and its intervention are moved, by an
\* endpoint or by a trigger, they tell the same story.
LinksAgree ==
    /\ LinkedOnlyOnceAccepted /\ OneRequestPerIntervention
    /\ OccurrenceFollowsRequest /\ LogEndsInStatut

\* The tasks of a preventive occurrence are worked on in the occurrence's own
\* intervention, and that intervention carries the plan its closure is checked
\* against.
GammeFollowsOccurrence ==
    \A t \in Tasks :
        LET o == db.task[t].occurrence IN
        o # Null =>
            /\ db.task[t].intervention = db.occurrence[o].intervention
            /\ db.task[t].intervention # Null =>
                   db.intervention[db.task[t].intervention].plan

\* A closed preventive intervention has no mandatory task left to do.
ClosedGammeComplete ==
    \A i \in Interventions :
        (db.intervention[i].status = "ferme" /\ db.intervention[i].plan)
            => ~Blocking(db, i)

\* An intervention with an action keeps the task the action was recorded on
\* (validate_tasks_required: no action without a task).
ActionKeepsTask ==
    \A i \in Interventions :
        db.intervention[i].actions =>
            \E t \in Tasks : db.task[t].intervention = i /\ db.task[t].tagged

\* The tasks stay with the work they belong to, and the closure depends on them.
TasksAgree == GammeFollowsOccurrence /\ ClosedGammeComplete /\ ActionKeepsTask

\* A request only ever moves along ALLOWED_TRANSITIONS, whatever endpoint or
\* trigger moves it; 'rejetee' and 'cloturee' are final.
StatutFollowsTable ==
    [][\A r \in Requests :
        LET from == db.request[r].statut
            to == db'.request[r].statut
        IN \/ to = from
           \/ from = "none" /\ to = "nouvelle"
           \/ from # "none" /\ to \in AllowedTransitions[from]]_db

\* The tasks of an intervention that is closed, and stays closed, do not change.
ClosedFreezesTasks ==
    [][\A i \in Interventions :
        (/\ db.intervention[i].status = "ferme"
         /\ db'.intervention[i].status = "ferme") =>
            \A t \in Tasks : (db.task[t].intervention = i \/ db'.task[t].intervention = i)
                                 => db'.task[t] = db.task[t]]_db

==============================================================================

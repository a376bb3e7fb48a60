-------------------------- MODULE MaintenanceTables --------------------------
(***************************************************************************)
(* The tables shared by the intervention-request, intervention, preventive *)
(* occurrence and task repositories, and the transactions those            *)
(* repositories run on them.  A transaction is an operator from database   *)
(* to database; what the PostgreSQL triggers of schema_current.sql do in   *)
(* the same transaction is part of it.                                     *)
(***************************************************************************)
EXTENDS Naturals

CONSTANTS
    Requests,       \* intervention_request ids (DI)
    Interventions,  \* intervention ids
    Occurrences,    \* preventive_occurrence ids, all of one plan and machine
    Steps,          \* preventive_plan_gamme_step ids of that plan
    OptionalSteps,  \* the steps whose tasks never block a closure
    ManualTasks,    \* ids of tasks created by hand
    Null,           \* SQL NULL in a foreign key
    MaxClosings     \* bound on the counted 'cloturee' rows of one request

ASSUME TablesAssumption ==
    /\ OptionalSteps \subseteq Steps
    /\ Null \notin Requests \cup Interventions \cup Occurrences
    /\ ManualTasks \cap (Occurrences \X Steps) = {}
    /\ MaxClosings \in Nat

\* A plan task is identified by (occurrence, gamme step): the UNIQUE constraint.
PlanTasks == Occurrences \X Steps
Tasks == PlanTasks \cup ManualTasks

Statuts == {"nouvelle", "en_attente", "acceptee", "rejetee", "cloturee"}
OpenStatuses == {"ouvert", "in_progress"}
InterventionStatuses == OpenStatuses \cup {"ferme"}
ActiveOccurrence == {"pending", "generated", "in_progress"}
OccurrenceStatuses == ActiveOccurrence \cup {"completed", "skipped"}
PendingTask == {"todo", "in_progress"}
TaskStatuses == PendingTask \cup {"done", "skipped"}

\* logged is the status_to of the most recently dated request_status_log row,
\* closings the number of its rows that end in 'cloturee'.
RequestRow == [statut : Statuts \cup {"none"},
               intervention : Interventions \cup {Null},
               logged : Statuts \cup {"none"},
               closings : 0 .. MaxClosings]
InterventionRow == [status : InterventionStatuses \cup {"none", "deleted"},
                    plan : BOOLEAN,      \* plan_id IS NOT NULL
                    actions : BOOLEAN]   \* has an intervention_action row
OccurrenceRow == [status : OccurrenceStatuses \cup {"none"},
                  request : Requests \cup {Null},
                  intervention : Interventions \cup {Null}]
TaskRow == [status : TaskStatuses \cup {"none", "deleted"},
            optional : BOOLEAN,
            occurrence : Occurrences \cup {Null},
            intervention : Interventions \cup {Null},
            tagged : BOOLEAN]            \* linked to an action

Database == [request : [Requests -> RequestRow],
             intervention : [Interventions -> InterventionRow],
             occurrence : [Occurrences -> OccurrenceRow],
             task : [Tasks -> TaskRow]]

NoRequest == [statut |-> "none", intervention |-> Null, logged |-> "none",
              closings |-> 0]
NoIntervention == [status |-> "none", plan |-> FALSE, actions |-> FALSE]
NoOccurrence == [status |-> "none", request |-> Null, intervention |-> Null]
NoTask == [status |-> "none", optional |-> FALSE, occurrence |-> Null,
           intervention |-> Null, tagged |-> FALSE]

EmptyDatabase == [request |-> [r \in Requests |-> NoRequest],
                  intervention |-> [i \in Interventions |-> NoIntervention],
                  occurrence |-> [o \in Occurrences |-> NoOccurrence],
                  task |-> [t \in Tasks |-> NoTask]]

------------------------------------------------------------------------------
(* Queries *)

\* SELECT ... LIMIT 1: any row of the answer, Null when there is none.
Picks(S) == IF S = {} THEN {Null} ELSE S

LiveIntervention(d, i) == d.intervention[i].status \in InterventionStatuses
RequestsLinkedTo(d, i) == {r \in Requests : d.request[r].intervention = i}
OccurrencesOfRequest(d, r) == {o \in Occurrences : d.occurrence[o].request = r}
TasksOf(d, i) == {t \in Tasks : d.task[t].intervention = i}

\* The count _check_closable and check_intervention_closable both make.
Blocking(d, i) ==
    \E t \in Tasks : /\ d.task[t].intervention = i
                     /\ d.task[t].status \in PendingTask
                     /\ ~d.task[t].optional

\* _ensure_intervention_editable, in the task and the action repositories.
Editable(d, i) == d.intervention[i].status \in OpenStatuses

\* ALLOWED_TRANSITIONS
AllowedTransitions ==
    [nouvelle   |-> {"en_attente", "acceptee", "rejetee"},
     en_attente |-> {"acceptee", "rejetee"},
     acceptee   |-> {"cloturee"},
     rejetee    |-> {},
     cloturee   |-> {}]

\* Fault: only the lock on a linked request is checked.
TransitionUnchecked(d, r, to) ==
    /\ d.request[r].statut \in Statuts
    /\ to = "acceptee" => d.request[r].intervention = Null

\* validate_transition: the status table, and the lock on a linked request.
TransitionValid(d, r, to) ==
    /\ d.request[r].statut \in Statuts
    /\ to \in AllowedTransitions[d.request[r].statut]
    /\ to = "acceptee" => d.request[r].intervention = Null

\* The checks of _link_request on the request.
Linkable(d, r) == /\ d.request[r].intervention = Null
                  /\ d.request[r].statut \in {"nouvelle", "en_attente"}

------------------------------------------------------------------------------
(* Triggers *)

Counted(n) == IF n < MaxClosings THEN n + 1 ELSE n

\* A request_status_log row and trg_apply_request_status.  The row is dated by
\* the start of its transaction: for the requests in late, a transaction that
\* started later has already committed a row, which stays the latest one.
Logged(row, to, late) ==
    [row EXCEPT !.statut = to,
                !.logged = IF late THEN @ ELSE to,
                !.closings = IF to = "cloturee" THEN Counted(@) ELSE @]

LogRequest(d, r, to, late) ==
    [d EXCEPT !.request[r] = Logged(@, to, r \in late)]

\* trg_init_request_status_log
InsertRequest(d, r) ==
    [d EXCEPT !.request[r] = [NoRequest EXCEPT !.statut = "nouvelle",
                                               !.logged = "nouvelle"]]

\* INSERT INTO intervention: whatever status_actual is inserted, trg_init_status_log
\* leaves 'ouvert'.
InsertIntervention(d, i, planned) ==
    [d EXCEPT !.intervention[i] = [NoIntervention EXCEPT !.status = "ouvert",
                                                         !.plan = planned]]

\* Fault: the closure trigger is not installed.
ClosableAnyhow(d, i, s) == FALSE

\* check_intervention_closable raises GAMME_INCOMPLETE.
GammeIncomplete(d, i, s) == /\ s = "ferme"
                            /\ d.intervention[i].status # "ferme"
                            /\ d.intervention[i].plan
                            /\ Blocking(d, i)

\* Fault: the trigger leaves the request to the application.
RequestsNotClosed(d, i, s) == {}

\* The requests fn_sync_status_log_to_intervention closes with intervention i.
RequestsClosedWith(d, i, s) ==
    {r \in RequestsLinkedTo(d, i) : s = "ferme" /\ d.request[r].statut = "acceptee"}

\* fn_log_request_status_change raises when the log does not end in statut.
LogIncoherent(d, i, s) ==
    \E r \in RequestsClosedWith(d, i, s) : d.request[r].logged # d.request[r].statut

\* An intervention_status_log row i -> s and fn_sync_status_log_to_intervention:
\* status_actual follows and, on 'ferme', the linked occurrence is completed and
\* the accepted request closed.  The UPDATE of the request logs one row through
\* fn_log_request_status_change and the function inserts another itself.
SyncStatusLog(d, i, s, late) ==
    [d EXCEPT
        !.intervention[i].status = s,
        !.occurrence = [o \in Occurrences |->
            IF s = "ferme" /\ d.occurrence[o].intervention = i
            THEN [d.occurrence[o] EXCEPT !.status = "completed"]
            ELSE d.occurrence[o]],
        !.request = [r \in Requests |->
            IF r \in RequestsClosedWith(d, i, s)
            THEN Logged(Logged(d.request[r], "cloturee", r \in late),
                        "cloturee", r \in late)
            ELSE d.request[r]]]

\* UPDATE intervention SET status_actual: trg_log_status_change writes a log row
\* when the status really changes.
UpdateStatus(d, i, s, late) ==
    IF d.intervention[i].status = s THEN d ELSE SyncStatusLog(d, i, s, late)

InsertLogRefused(d, i, s) == GammeIncomplete(d, i, s) \/ LogIncoherent(d, i, s)
UpdateRefused(d, i, s) == d.intervention[i].status # s /\ InsertLogRefused(d, i, s)

------------------------------------------------------------------------------
(* Transactions *)

\* _generate_for_machine: the occurrence, its DI and one task per gamme step.
GenerateTx(d, o, r) ==
    [InsertRequest(d, r) EXCEPT
        !.occurrence[o] = [NoOccurrence EXCEPT !.status = "generated", !.request = r],
        !.task = [t \in Tasks |->
            IF t \in {o} \X Steps
            THEN [NoTask EXCEPT !.status = "todo", !.occurrence = o,
                                !.optional = t[2] \in OptionalSteps]
            ELSE d.task[t]]]

\* skip_occurrence
SkipTx(d, o) == [d EXCEPT !.occurrence[o].status = "skipped"]

\* Fault: the tasks are reassigned whoever holds them.
AttachAllTasks(d, o, i) ==
    IF o = Null THEN d
    ELSE [d EXCEPT
            !.occurrence[o] = [@ EXCEPT !.intervention = i, !.status = "in_progress"],
            !.task = [t \in Tasks |->
                IF d.task[t].occurrence = o
                THEN [d.task[t] EXCEPT !.intervention = i]
                ELSE d.task[t]]]

\* The occurrence taken in charge by intervention i, with its free tasks.
AttachOccurrence(d, o, i) ==
    IF o = Null THEN d
    ELSE [d EXCEPT
            !.occurrence[o] = [@ EXCEPT !.intervention = i, !.status = "in_progress"],
            !.task = [t \in Tasks |->
                IF d.task[t].occurrence = o /\ d.task[t].intervention = Null
                THEN [d.task[t] EXCEPT !.intervention = i]
                ELSE d.task[t]]]

\* transition_status to 'en_attente'
HoldTx(d, r, late) == LogRequest(d, r, "en_attente", late)

\* Fault: the occurrences of the DI are not put back.
RejectOnly(d, r, late) == LogRequest(d, r, "rejetee", late)

\* transition_status to 'rejetee'
RejectTx(d, r, late) ==
    LogRequest([d EXCEPT !.occurrence = [o \in Occurrences |->
                    IF d.occurrence[o].request = r
                    THEN [d.occurrence[o] EXCEPT !.status = "pending",
                                                 !.request = Null]
                    ELSE d.occurrence[o]]],
               r, "rejetee", late)

\* UPDATE intervention_request SET intervention_id
LinkTo(d, r, i) == [d EXCEPT !.request[r].intervention = i]

\* Request r gets the new intervention i, and i the occurrence o.
TakeInCharge(d, r, i, planned, o, late) ==
    AttachOccurrence(
        LinkTo(LogRequest(InsertIntervention(d, i, planned), r, "acceptee", late), r, i),
        o, i)

\* Fault: the intervention is created without the plan.
AcceptUnplanned(d, r, i, o, late) == TakeInCharge(d, r, i, FALSE, o, late)

\* transition_status to 'acceptee', o being the occurrence it first found for the
\* DI; _create_intervention_for_request looks the plan up again.
AcceptTx(d, r, i, o, late) ==
    TakeInCharge(d, r, i, OccurrencesOfRequest(d, r) # {}, o, late)

\* Occurrences an explicit cascade completes: those of the intervention or of the DI.
CompleteOccurrences(d, i, r) ==
    [d EXCEPT !.occurrence = [o \in Occurrences |->
        IF /\ d.occurrence[o].status \notin {"completed", "skipped"}
           /\ \/ r # Null /\ d.occurrence[o].request = r
              \/ i # Null /\ d.occurrence[o].intervention = i
        THEN [d.occurrence[o] EXCEPT !.status = "completed"]
        ELSE d.occurrence[o]]]

\* transition_status to 'cloturee', i being the intervention read with the request
CloseLinked(d, i, late) ==
    IF i # Null /\ LiveIntervention(d, i) THEN UpdateStatus(d, i, "ferme", late) ELSE d

CloseTx(d, r, i, late) ==
    LogRequest(CompleteOccurrences(CloseLinked(d, i, late), i, r), r, "cloturee", late)

CloseRefused(d, i) == i # Null /\ LiveIntervention(d, i) /\ UpdateRefused(d, i, "ferme")

\* InterventionRepository.add with _link_request; planned is the plan_id it resolved
\* first, o the occurrence of the DI not attached yet.
LinkTx(d, r, i, planned, o, late) ==
    TakeInCharge(d, r, i, planned \/ o # Null, o, late)

UnattachedOccurrences(d, r) ==
    {o \in OccurrencesOfRequest(d, r) : d.occurrence[o].intervention = Null}

\* on_intervention_closed: r is the accepted request found (Null when there is none),
\* relink whether it was found through the occurrence, di the request of i.
CascadeTx(d, i, r, relink, di, late) ==
    LET linked == IF relink THEN LinkTo(d, r, i) ELSE d
    IN CompleteOccurrences(IF r = Null THEN d
                           ELSE LogRequest(linked, r, "cloturee", late), i, di)

\* The foreign key and the UNIQUE constraint on intervention_request.intervention_id.
CascadeRefused(d, i, r, relink) ==
    relink /\ (~LiveIntervention(d, i) \/ \E q \in RequestsLinkedTo(d, i) : q # r)

\* InterventionRepository.delete: ON DELETE SET NULL on requests and occurrences,
\* ON DELETE CASCADE on actions, ON DELETE RESTRICT on tasks.
DeleteInterventionTx(d, i) ==
    [d EXCEPT
        !.intervention[i] = [NoIntervention EXCEPT !.status = "deleted"],
        !.request = [r \in Requests |->
            IF d.request[r].intervention = i
            THEN [d.request[r] EXCEPT !.intervention = Null] ELSE d.request[r]],
        !.occurrence = [o \in Occurrences |->
            IF d.occurrence[o].intervention = i
            THEN [d.occurrence[o] EXCEPT !.intervention = Null] ELSE d.occurrence[o]]]

\* Fault: the foreign key of tasks does not restrict the deletion.
DeleteAnyhow(d, i) == FALSE

DeleteRefused(d, i) == \E t \in Tasks : d.task[t].intervention = i

\* InterventionTaskRepository.create, patch and delete
CreateTaskTx(d, t, i, optional) ==
    [d EXCEPT !.task[t] = [NoTask EXCEPT !.status = "todo", !.optional = optional,
                                         !.intervention = i]]

PatchTaskTx(d, t, s) ==
    IF d.task[t].status \in TaskStatuses THEN [d EXCEPT !.task[t].status = s] ELSE d

DeleteTaskTx(d, t) == [d EXCEPT !.task[t] = [NoTask EXCEPT !.status = "deleted"]]

\* InterventionActionRepository.add and update: an action closes a task of its list,
\* skips it, or only tags it ('in_progress', which moves a task on from 'todo').
TaskAfterAction(status, mode) ==
    IF mode = "in_progress" /\ status # "todo" THEN status ELSE mode

Tagged(row, mode) == [row EXCEPT !.status = TaskAfterAction(@, mode), !.tagged = TRUE]

\* tags has a mode for each task of the list; when a list that names a task twice is
\* accepted, its last mention decides.
TagTx(d, i, tags) ==
    [d EXCEPT !.intervention[i].actions = TRUE,
              !.task = [t \in Tasks |->
                  IF t \in DOMAIN tags THEN Tagged(d.task[t], tags[t]) ELSE d.task[t]]]

ActionTx(d, t, mode) == TagTx(d, d.task[t].intervention, [u \in {t} |-> mode])

------------------------------------------------------------------------------
(* What every interleaving of these transactions preserves *)

\* However an intervention gets closed, no request linked to it stays 'acceptee'.
AcceptedOpen(d) ==
    \A r \in Requests, i \in Interventions :
        (/\ d.request[r].statut = "acceptee"
         /\ d.request[r].intervention = i) => d.intervention[i].status \in OpenStatuses

\* Nothing refers to an intervention that does not exist.
ReferencesLive(d) ==
    \A i \in Interventions :
        (\/ RequestsLinkedTo(d, i) # {}
         \/ \E o \in Occurrences : d.occurrence[o].intervention = i
         \/ \E t \in Tasks : d.task[t].intervention = i) => LiveIntervention(d, i)

==============================================================================

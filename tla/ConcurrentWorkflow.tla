-------------------------- MODULE ConcurrentWorkflow --------------------------
(***************************************************************************)
(* The workflow endpoints as the server runs them: threads of FastAPI's    *)
(* pool, each call a sequence of PostgreSQL transactions on connections of *)
(* its own (READ COMMITTED).  What a call has read stays in its frame and  *)
(* may be stale when the call writes.  The statements of one transaction   *)
(* from its first write to its commit are one step: they hold the locks of *)
(* the rows they touch.                                                    *)
(***************************************************************************)
EXTENDS MaintenanceTables

CONSTANTS
    Workers,     \* threads serving calls
    Endpoints    \* the endpoints in use, of those named below

VARIABLES
    db,          \* the committed database
    job          \* job[w]: the call worker w is serving

vars == <<db, job>>

Stages == {"idle", "validated", "deciding", "linking", "putting", "rereading",
           "cascade", "cascading", "logging", "deleting", "skipping",
           "creating", "patching", "removing", "acting"}

\* The stages inside a transaction that will date a request_status_log row.
DatedStages == {"deciding", "linking", "cascading"}

\* older: the workers whose dated transaction began before this one and is still
\* open; late: the requests whose log got a row from a younger transaction.
Frame == [at : Stages,
          r : Requests \cup {Null}, di : Requests \cup {Null},
          i : Interventions \cup {Null}, o : Occurrences \cup {Null},
          t : Tasks \cup {Null},
          s : Statuts \cup InterventionStatuses \cup TaskStatuses \cup {"none"},
          was : InterventionStatuses \cup {"none"},
          flag : BOOLEAN, older : SUBSET Workers, late : SUBSET Requests]

Idle == [at |-> "idle", r |-> Null, di |-> Null, i |-> Null, o |-> Null,
         t |-> Null, s |-> "none", was |-> "none", flag |-> FALSE,
         older |-> {}, late |-> {}]

Init == db = EmptyDatabase /\ job = [w \in Workers |-> Idle]

------------------------------------------------------------------------------
(* Steps of a call *)

Open == {v \in Workers : job[v].at \in DatedStages}

\* A worker takes a call on, having read and checked what frame records.
Starts(w, endpoint, frame) ==
    /\ endpoint \in Endpoints
    /\ job[w] = Idle
    /\ job' = [job EXCEPT ![w] = frame]
    /\ UNCHANGED db

\* A dated transaction begins: now() is fixed for all its rows.
Begins(w, frame) ==
    /\ job' = [job EXCEPT ![w] = [frame EXCEPT !.older = Open]]
    /\ UNCHANGED db

\* w commits d, with log rows on the requests rs that are younger than those the
\* transactions of before will write, and goes on with frame.
Commits(w, d, rs, before, frame) ==
    /\ db' = d
    /\ job' = [v \in Workers |->
                 IF v = w THEN frame
                 ELSE [job[v] EXCEPT !.older = @ \ {w},
                                     !.late = IF v \in before THEN @ \cup rs ELSE @]]

\* A transaction that writes no request_status_log row.
CommitsUndated(w, d) == Commits(w, d, {}, {}, Idle)

\* A call ends on an exception, a refused write or the death of its thread; the
\* open transaction is rolled back, what was committed stays.
Fail(w) ==
    /\ job[w] # Idle
    /\ Commits(w, db, {}, {}, Idle)

------------------------------------------------------------------------------
(* Calls of one step *)

\* POST /intervention-requests
CreateRequest(r) ==
    /\ db.request[r] = NoRequest
    /\ db' = InsertRequest(db, r)
    /\ UNCHANGED job

\* POST /preventive-occurrences/generate
Generate(o, r) ==
    /\ db.occurrence[o] = NoOccurrence
    /\ db.request[r] = NoRequest
    /\ \A p \in Occurrences : db.occurrence[p].status \notin ActiveOccurrence
    /\ db' = GenerateTx(db, o, r)
    /\ UNCHANGED job

------------------------------------------------------------------------------
(* POST /intervention-requests/{id}/transition *)

\* get_by_id and validate_transition, on a connection given back before ...
TransitionRead(w, r, to) ==
    /\ Starts(w, "transition",
              [Idle EXCEPT !.at = "validated", !.r = r, !.s = to,
                           !.i = db.request[r].intervention])
    /\ TransitionValid(db, r, to)

\* ... the transaction that writes begins; to accept, it looks the occurrence up.
TransitionBegin(w) ==
    /\ job[w].at = "validated"
    /\ \E o \in IF job[w].s = "acceptee" THEN Picks(OccurrencesOfRequest(db, job[w].r))
                                         ELSE {Null} :
           Begins(w, [job[w] EXCEPT !.at = "deciding", !.o = o])

\* The requests that get log rows when intervention i is updated to status s.
ClosedByUpdate(d, i, s) ==
    IF d.intervention[i].status = s THEN {} ELSE RequestsClosedWith(d, i, s)

Decides(w, to) == job[w].at = "deciding" /\ job[w].s = to

Hold(w) ==
    /\ Decides(w, "en_attente")
    /\ Commits(w, HoldTx(db, job[w].r, job[w].late), {job[w].r}, job[w].older, Idle)

Reject(w) ==
    /\ Decides(w, "rejetee")
    /\ Commits(w, RejectTx(db, job[w].r, job[w].late), {job[w].r}, job[w].older, Idle)

Accept(w, i) ==
    /\ Decides(w, "acceptee")
    /\ db.intervention[i] = NoIntervention
    /\ Commits(w, AcceptTx(db, job[w].r, i, job[w].o, job[w].late),
               {job[w].r}, job[w].older, Idle)

CloseRequest(w) ==
    LET i == job[w].i IN
    /\ Decides(w, "cloturee")
    /\ ~CloseRefused(db, i)
    /\ Commits(w, CloseTx(db, job[w].r, i, job[w].late),
               {job[w].r} \cup (IF i = Null THEN {} ELSE ClosedByUpdate(db, i, "ferme")),
               job[w].older, Idle)

------------------------------------------------------------------------------
(* POST /interventions *)

\* add resolves the plan, then _link_request checks the request ...
LinkRead(w, r) ==
    /\ "link" \in Endpoints
    /\ job[w] = Idle
    /\ Linkable(db, r)
    /\ Begins(w, [Idle EXCEPT !.at = "linking", !.r = r,
                              !.flag = OccurrencesOfRequest(db, r) # {}])

\* ... and links it to the intervention add inserted.
LinkWrite(w, i) ==
    LET r == job[w].r IN
    /\ job[w].at = "linking"
    /\ db.intervention[i] = NoIntervention
    /\ \E o \in Picks(UnattachedOccurrences(db, r)) :
           Commits(w, LinkTx(db, r, i, job[w].flag, o, job[w].late),
                   {r}, job[w].older, Idle)

------------------------------------------------------------------------------
(* PUT /interventions/{id} with status_actual *)

\* update reads the old status and _check_closable counts the blocking tasks ...
PutRead(w, i, s) ==
    /\ Starts(w, "put", [Idle EXCEPT !.at = "putting", !.i = i, !.s = s,
                                     !.was = db.intervention[i].status])
    /\ LiveIntervention(db, i)
    /\ s = "ferme" => ~Blocking(db, i)

\* ... the UPDATE runs with its triggers ...
PutWrite(w) ==
    LET i == job[w].i  s == job[w].s IN
    /\ job[w].at = "putting"
    /\ LiveIntervention(db, i)
    /\ ~UpdateRefused(db, i, s)
    /\ Commits(w, UpdateStatus(db, i, s, {}),
               ClosedByUpdate(db, i, s), Open, [job[w] EXCEPT !.at = "rereading"])

\* ... the row is read again, and _notify_if_closed compares it with the old one.
PutReread(w) ==
    LET status == db.intervention[job[w].i].status IN
    /\ job[w].at = "rereading"
    /\ job' = [job EXCEPT ![w] = IF status = "ferme" /\ status # job[w].was
                                 THEN [Idle EXCEPT !.at = "cascade", !.i = job[w].i]
                                 ELSE Idle]
    /\ UNCHANGED db

\* Accepted requests whose occurrence intervention i took in charge.
AcceptedThroughOccurrence(d, i) ==
    {r \in Requests : /\ d.request[r].statut = "acceptee"
                      /\ \E o \in OccurrencesOfRequest(d, r) :
                             d.occurrence[o].intervention = i}

\* on_intervention_closed looks for the request to close: by its link, else
\* through the occurrence, whose link it then repairs.
CascadeBegin(w) ==
    LET i == job[w].i
        direct == RequestsClosedWith(db, i, "ferme")
    IN
    /\ job[w].at = "cascade"
    /\ \E r \in IF direct # {} THEN direct ELSE Picks(AcceptedThroughOccurrence(db, i)) :
       \E di \in IF r # Null THEN {r} ELSE Picks(RequestsLinkedTo(db, i)) :
           Begins(w, [job[w] EXCEPT !.at = "cascading", !.r = r, !.di = di,
                                    !.flag = direct = {} /\ r # Null])

CascadeWrite(w) ==
    LET r == job[w].r  i == job[w].i IN
    /\ job[w].at = "cascading"
    /\ ~CascadeRefused(db, i, r, job[w].flag)
    /\ Commits(w, CascadeTx(db, i, r, job[w].flag, job[w].di, job[w].late),
               IF r = Null THEN {} ELSE {r}, job[w].older, Idle)

------------------------------------------------------------------------------
(* The other intervention and occurrence endpoints: a check, then a write *)

\* POST /intervention-status-log; status_from may be left out of the body.
LogRead(w, i, s) ==
    /\ Starts(w, "log", [Idle EXCEPT !.at = "logging", !.i = i, !.s = s])
    /\ LiveIntervention(db, i)

LogWrite(w) ==
    LET i == job[w].i  s == job[w].s IN
    /\ job[w].at = "logging"
    /\ LiveIntervention(db, i)
    /\ ~InsertLogRefused(db, i, s)
    /\ Commits(w, SyncStatusLog(db, i, s, {}), RequestsClosedWith(db, i, s), Open, Idle)

\* DELETE /interventions/{id}: validate_deletable, then DELETE
DeleteRead(w, i) ==
    /\ Starts(w, "delete", [Idle EXCEPT !.at = "deleting", !.i = i])
    /\ LiveIntervention(db, i)
    /\ ~db.intervention[i].actions

DeleteWrite(w) ==
    /\ job[w].at = "deleting"
    /\ LiveIntervention(db, job[w].i)
    /\ ~DeleteRefused(db, job[w].i)
    /\ CommitsUndated(w, DeleteInterventionTx(db, job[w].i))

\* PATCH /preventive-occurrences/{id}/skip
SkipRead(w, o) ==
    /\ Starts(w, "skip", [Idle EXCEPT !.at = "skipping", !.o = o])
    /\ db.occurrence[o].status = "pending"

SkipWrite(w) ==
    /\ job[w].at = "skipping"
    /\ CommitsUndated(w, SkipTx(db, job[w].o))

------------------------------------------------------------------------------
(* Tasks and actions: _ensure_intervention_editable, then a write *)

TaskEditable(t) ==
    /\ db.task[t].status \in TaskStatuses
    /\ db.task[t].intervention # Null
    /\ Editable(db, db.task[t].intervention)

\* POST /intervention-tasks
CreateTaskRead(w, i, optional) ==
    /\ Starts(w, "task", [Idle EXCEPT !.at = "creating", !.i = i, !.flag = optional])
    /\ Editable(db, i)

CreateTaskWrite(w, t) ==
    /\ job[w].at = "creating"
    /\ db.task[t] = NoTask
    /\ LiveIntervention(db, job[w].i)
    /\ CommitsUndated(w, CreateTaskTx(db, t, job[w].i, job[w].flag))

\* PATCH /intervention-tasks/{id} with status
PatchTaskRead(w, t, s) ==
    /\ Starts(w, "task", [Idle EXCEPT !.at = "patching", !.t = t, !.s = s])
    /\ TaskEditable(t)
    /\ s # db.task[t].status

PatchTaskWrite(w) ==
    /\ job[w].at = "patching"
    /\ CommitsUndated(w, PatchTaskTx(db, job[w].t, job[w].s))

\* Fault: the actions recorded on the task are not looked for.
DeleteAnyTaskRead(w, t) ==
    /\ Starts(w, "task", [Idle EXCEPT !.at = "removing", !.t = t])
    /\ TaskEditable(t)

\* DELETE /intervention-tasks/{id}
DeleteTaskRead(w, t) ==
    /\ Starts(w, "task", [Idle EXCEPT !.at = "removing", !.t = t])
    /\ TaskEditable(t)
    /\ ~db.task[t].tagged

DeleteTaskWrite(w) ==
    /\ job[w].at = "removing"
    /\ db.task[job[w].t].status \in TaskStatuses
    /\ CommitsUndated(w, DeleteTaskTx(db, job[w].t))

\* POST /intervention-actions on one task
ActionRead(w, t, mode) ==
    /\ Starts(w, "action", [Idle EXCEPT !.at = "acting", !.t = t, !.s = mode])
    /\ TaskEditable(t)
    /\ db.task[t].status \in PendingTask

ActionWrite(w) ==
    /\ job[w].at = "acting"
    /\ db.task[job[w].t].status \in TaskStatuses
    /\ CommitsUndated(w, ActionTx(db, job[w].t, job[w].s))

------------------------------------------------------------------------------

PatchStatuses == {"todo", "done", "skipped"}
ActionModes == {"in_progress", "done", "skipped"}

Arrivals == \E r \in Requests : CreateRequest(r) \/ \E o \in Occurrences : Generate(o, r)

RequestCall(w) ==
    \/ \E r \in Requests, to \in Statuts : TransitionRead(w, r, to)
    \/ TransitionBegin(w) \/ Hold(w) \/ Reject(w) \/ CloseRequest(w)
    \/ \E r \in Requests : LinkRead(w, r)
    \/ \E i \in Interventions : Accept(w, i) \/ LinkWrite(w, i)
    \/ \E o \in Occurrences : SkipRead(w, o)
    \/ SkipWrite(w)

InterventionCall(w) ==
    \/ \E i \in Interventions, s \in InterventionStatuses : PutRead(w, i, s) \/ LogRead(w, i, s)
    \/ PutWrite(w) \/ PutReread(w) \/ CascadeBegin(w) \/ CascadeWrite(w) \/ LogWrite(w)
    \/ \E i \in Interventions : DeleteRead(w, i)
    \/ DeleteWrite(w)

TaskCall(w) ==
    \/ \E i \in Interventions, optional \in BOOLEAN : CreateTaskRead(w, i, optional)
    \/ \E t \in ManualTasks : CreateTaskWrite(w, t)
    \/ \E t \in Tasks : \/ \E s \in PatchStatuses : PatchTaskRead(w, t, s)
                        \/ \E mode \in ActionModes : ActionRead(w, t, mode)
                        \/ DeleteTaskRead(w, t)
    \/ PatchTaskWrite(w) \/ DeleteTaskWrite(w) \/ ActionWrite(w)

Next == \/ Arrivals
        \/ \E w \in Workers : RequestCall(w) \/ InterventionCall(w) \/ TaskCall(w) \/ Fail(w)

Spec == Init /\ [][Next]_vars

------------------------------------------------------------------------------
(* Properties *)

\* Database rows and call frames have the columns and the values they may have.
TypeOK == db \in Database /\ job \in [Workers -> Frame]

\* The close cascade of the triggers needs no help from Python: whatever calls
\* overlap, a request linked to a closed intervention is not left 'acceptee'.
AcceptedNotClosed == AcceptedOpen(db)

\* A deletion that checked for actions only never strands a request, a task or an
\* occurrence (the foreign keys, against checks gone stale).
NoDanglingReference == ReferencesLive(db)

\* A preventive intervention is closed only when its gamme is complete at that
\* moment: check_intervention_closable counts again what _check_closable counted
\* before, and covers the closures that do not come through PUT.
ClosesCompleteGamme ==
    [][\A i \in Interventions :
        (/\ db.intervention[i].plan
         /\ db.intervention[i].status # "ferme"
         /\ db'.intervention[i].status = "ferme") => ~Blocking(db, i)]_vars

\* A task that has an intervention keeps it until it is deleted, also when two
\* calls take the same occurrence in charge (WHERE intervention_id IS NULL).
TaskKeepsIntervention ==
    [][\A t \in Tasks :
        db.task[t].intervention # Null =>
            \/ db'.task[t].intervention = db.task[t].intervention
            \/ db'.task[t].status = "deleted"]_vars

\* With no overlap the calls do exactly what MaintenanceWorkflow says: the Python
\* cascade after a closure finds everything done by the triggers.
Serial == INSTANCE MaintenanceWorkflow WITH db <- db
ImplementsSerial == Serial!Spec

------------------------------------------------------------------------------
(* What holds when no two calls overlap; with two, each of these can fail *)

\* A request, its log, its occurrence and its intervention tell the same story,
\* whatever endpoint or trigger moved them.
LinksAgree == Serial!LinksAgree

\* The tasks of an occurrence are worked on in its intervention, which is closed only
\* with its plan done and keeps the tasks that actions were recorded on.
TasksAgree == Serial!TasksAgree

\* 'rejetee' and 'cloturee' have no way out and the others only those of
\* ALLOWED_TRANSITIONS (validators.py), whatever endpoint or trigger moves a request.
StatutFollowsTable == Serial!StatutFollowsTable

\* The tasks of a closed intervention do not change.
ClosedFreezesTasks == Serial!ClosedFreezesTasks

==============================================================================

--------------------------------- MODULE Repairs ---------------------------------
(***************************************************************************)
(* The repair procedures: what they do to tables an interrupted call or an *)
(* earlier version left half done.  Each is one transaction; a step reads  *)
(* what the steps before it wrote.                                         *)
(***************************************************************************)
EXTENDS ConcurrentWorkflow

\* COALESCE(po.intervention_id, ir.intervention_id)
LinkOf(d, o) ==
    LET occ == d.occurrence[o] IN
    IF occ.intervention # Null \/ occ.request = Null THEN occ.intervention
    ELSE d.request[occ.request].intervention

------------------------------------------------------------------------------
(* POST /preventive-occurrences/repair *)

\* Bugs 3 and 3b: interventions of an occurrence without its plan.
FixPlans(d) ==
    [d EXCEPT !.intervention = [i \in Interventions |->
        [d.intervention[i] EXCEPT !.plan = @ \/ \E o \in Occurrences : LinkOf(d, o) = i]]]

\* Bugs 1 and 1b: tasks of an occurrence without its intervention.
RelinkTasks(d) ==
    [d EXCEPT !.task = [t \in Tasks |->
        IF d.task[t].occurrence # Null /\ d.task[t].intervention = Null
        THEN [d.task[t] EXCEPT !.intervention = LinkOf(d, d.task[t].occurrence)]
        ELSE d.task[t]]]

\* Step 3: occurrences whose DI only has the intervention; their tasks and plans
\* were seen to by the steps before.
AttachLate(d) ==
    [d EXCEPT !.occurrence = [o \in Occurrences |->
        LET occ == d.occurrence[o] IN
        IF occ.intervention # Null \/ LinkOf(d, o) = Null THEN occ
        ELSE [occ EXCEPT !.intervention = LinkOf(d, o),
                         !.status = IF @ \in {"pending", "generated"}
                                    THEN "in_progress" ELSE @]]]

\* Fault: an occurrence already in progress is not looked at.
StaleGenerated(d) ==
    {o \in Occurrences : /\ d.occurrence[o].status = "generated"
                         /\ LinkOf(d, o) # Null
                         /\ d.intervention[LinkOf(d, o)].status = "ferme"}

\* Bug 2: occurrences still active though their intervention is closed.
Stale(d) ==
    {o \in Occurrences : /\ d.occurrence[o].status \in {"generated", "in_progress"}
                         /\ LinkOf(d, o) # Null
                         /\ d.intervention[LinkOf(d, o)].status = "ferme"}

\* The triggers are told to skip the log row that the procedure writes itself.
CompleteStale(d) ==
    LET stale == Stale(d) IN
    [d EXCEPT
        !.occurrence = [o \in Occurrences |->
            IF o \in stale
            THEN [d.occurrence[o] EXCEPT !.intervention = LinkOf(d, o), !.status = "completed"]
            ELSE d.occurrence[o]],
        !.request = [r \in Requests |->
            IF d.request[r].statut = "acceptee" /\ \E o \in stale : d.occurrence[o].request = r
            THEN Logged(d.request[r], "cloturee", FALSE)
            ELSE d.request[r]]]

\* Bug 7: the tasks of an occurrence taken in charge that has none.
Bare(d) == {o \in Occurrences : /\ d.occurrence[o].intervention # Null
                                /\ \A t \in Tasks : d.task[t].occurrence # o}
Regenerate(d) ==
    [d EXCEPT !.task = [t \in Tasks |->
        IF t \in Bare(d) \X Steps
        THEN [NoTask EXCEPT !.status = "todo", !.optional = t[2] \in OptionalSteps,
                            !.occurrence = t[1],
                            !.intervention = d.occurrence[t[1]].intervention]
        ELSE d.task[t]]]

\* Bug 5: tasks of the plan no longer as optional as their step.
ResyncOptional(d) ==
    [d EXCEPT !.task = [t \in Tasks |->
        IF d.task[t].occurrence # Null
        THEN [d.task[t] EXCEPT !.optional = t[2] \in OptionalSteps]
        ELSE d.task[t]]]

RepairOccurrencesTx(d) ==
    ResyncOptional(Regenerate(CompleteStale(AttachLate(RelinkTasks(FixPlans(d))))))

------------------------------------------------------------------------------
(* POST /intervention-requests/repair *)

\* Accepted requests of a closed intervention, by their link or by their occurrence.
Orphaned(d) ==
    {r \in Requests :
        /\ d.request[r].statut = "acceptee"
        /\ LET i == d.request[r].intervention IN
           IF i # Null THEN d.intervention[i].status = "ferme"
           ELSE \E o \in OccurrencesOfRequest(d, r) :
                    /\ d.occurrence[o].intervention # Null
                    /\ d.intervention[d.occurrence[o].intervention].status = "ferme"}

\* UPDATE ... FROM takes the link of any occurrence of the request.
RepairRequestsTx(d) ==
    [d EXCEPT !.request = [r \in Requests |->
        IF r \notin Orphaned(d) THEN d.request[r]
        ELSE Logged(
            IF d.request[r].intervention # Null THEN d.request[r]
            ELSE [d.request[r] EXCEPT !.intervention =
                    d.occurrence[CHOOSE o \in OccurrencesOfRequest(d, r) : TRUE].intervention],
            "cloturee", FALSE)]]

------------------------------------------------------------------------------
(* POST /interventions/{id}/force-close-request *)

ForceCloseRefused(d, i) ==
    d.intervention[i].status # "ferme" \/ RequestsClosedWith(d, i, "ferme") = {}

\* on_intervention_closed then finds the same request.
ForceCloseTx(d, i) ==
    LET r == CHOOSE r \in RequestsClosedWith(d, i, "ferme") : TRUE
    IN CascadeTx(d, i, r, FALSE, r, {})

------------------------------------------------------------------------------
(* What the documented bugs left *)

Bugs == {"task link", "close", "plan", "occurrence link", "optional", "tasks"}

GammeOf(d, o) == {t \in Tasks : d.task[t].occurrence = o}

\* Every task of the gamme is there and nobody has worked on it.
Untouched(d, o) ==
    \A s \in Steps : /\ d.task[<<o, s>>].occurrence = o
                     /\ d.task[<<o, s>>].status = "todo" /\ ~d.task[<<o, s>>].tagged

\* The database as it would be had occurrence o, taken in charge, met these bugs.
Damaged(d, o, bugs) ==
    LET occ == d.occurrence[o]
        i == occ.intervention
        unclosed == "close" \in bugs /\ d.intervention[i].status = "ferme"
        unlinked == "occurrence link" \in bugs
        gone == "tasks" \in bugs /\ Untouched(d, o)
    IN [d EXCEPT
        !.intervention[i].plan = @ /\ "plan" \notin bugs,
        !.request[occ.request] =
            IF unclosed THEN [@ EXCEPT !.statut = "acceptee", !.logged = "acceptee"] ELSE @,
        !.occurrence[o] =
            [occ EXCEPT !.intervention = IF unlinked THEN Null ELSE i,
                        !.status = IF unclosed \/ (unlinked /\ occ.status = "in_progress")
                                   THEN "generated" ELSE occ.status],
        !.task = [t \in Tasks |->
            IF t \notin GammeOf(d, o) THEN d.task[t]
            ELSE IF gone THEN NoTask
            ELSE [d.task[t] EXCEPT
                    !.intervention = IF "task link" \in bugs THEN Null ELSE @,
                    !.optional = IF "optional" \in bugs THEN ~@ ELSE @]]]

\* The rows of the log are not taken back.
Alike(d, e) ==
    /\ [d EXCEPT !.request = 0] = [e EXCEPT !.request = 0]
    /\ \A r \in Requests : [d.request[r] EXCEPT !.closings = 0]
                               = [e.request[r] EXCEPT !.closings = 0]

AllIdle == \A w \in Workers : job[w] = Idle

InCharge(d) == {o \in Occurrences : d.occurrence[o].intervention # Null}

\* A closed intervention and its request, which the cascade may have missed.
ClosedTogether(i, r) ==
    /\ db.intervention[i].status = "ferme" /\ db.request[r].statut = "cloturee"
    /\ db.request[r].intervention = i

Missed(r) == [db EXCEPT !.request[r] = [@ EXCEPT !.statut = "acceptee", !.logged = "acceptee"]]
Unlinked(d, r) == [d EXCEPT !.request[r].intervention = Null]

\* The procedures change nothing in tables the endpoints left sound, and bring
\* tables damaged by the bugs they are for, one or all of them, back to what they
\* would have been (the docstring of repair_orphaned_data, "Idempotente" in that of
\* repair_orphaned_requests).  An occurrence whose tasks were all deleted by hand is
\* to the procedure one generated before its plan had steps: it gets them again.
RepairUndoes ==
    AllIdle =>
        /\ RepairRequestsTx(db) = db
        /\ \A o \in InCharge(db) :
               \A bugs \in {{}, Bugs \ {"tasks"}, Bugs} \cup {{b} : b \in Bugs} :
                   Alike(RepairOccurrencesTx(Damaged(db, o, bugs)), Regenerate(db))
        /\ \A i \in Interventions, r \in Requests :
               LET missed == Missed(r) IN
               ClosedTogether(i, r) =>
                   /\ Alike(RepairRequestsTx(missed), db)
                   /\ ~ForceCloseRefused(missed, i) /\ Alike(ForceCloseTx(missed, i), db)
                   /\ (\E o \in OccurrencesOfRequest(db, r) : db.occurrence[o].intervention = i)
                          => Alike(RepairRequestsTx(Unlinked(missed, r)), db)
===============================================================================

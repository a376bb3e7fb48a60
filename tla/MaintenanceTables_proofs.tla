------------------------ MODULE MaintenanceTables_proofs ------------------------
(***************************************************************************)
(* What each transaction does to the tables, whoever runs it and however   *)
(* stale what it was given: the lemmas behind the theorems of              *)
(* MaintenanceWorkflow_proofs and ConcurrentWorkflow_proofs.  An effect    *)
(* lemma says that the result is a database and what the invariants need   *)
(* to know of it; the lemmas after it conclude for the invariants.         *)
(***************************************************************************)
EXTENDS MaintenanceTables, TLAPS

LEMMA LoggedType ==
    ASSUME NEW row \in RequestRow, NEW to \in Statuts, NEW late \in BOOLEAN
    PROVE  /\ Logged(row, to, late) \in RequestRow
           /\ Logged(row, to, late).statut = to
           /\ Logged(row, to, late).intervention = row.intervention
           /\ ~late => Logged(row, to, late).logged = to
<1>1. Counted(row.closings) \in 0 .. MaxClosings
  BY TablesAssumption DEF Counted, RequestRow
<1>2. (IF to = "cloturee" THEN Counted(row.closings) ELSE row.closings) \in 0 .. MaxClosings
  BY <1>1 DEF RequestRow
<1>3. (IF late THEN row.logged ELSE to) \in Statuts \cup {"none"}
  BY DEF RequestRow
<1>4. Logged(row, to, late) \in RequestRow
  BY <1>2, <1>3 DEF Logged, RequestRow
<1>5. /\ Logged(row, to, late).statut = to
      /\ Logged(row, to, late).intervention = row.intervention
      /\ Logged(row, to, late).logged = IF late THEN row.logged ELSE to
  BY DEF Logged, RequestRow
<1> QED BY <1>4, <1>5

LEMMA LogRequestEffect ==
    ASSUME NEW d \in Database, NEW r \in Requests, NEW to \in Statuts, NEW late
    PROVE  LET e == LogRequest(d, r, to, late) IN
           /\ e \in Database
           /\ e.intervention = d.intervention
           /\ e.occurrence = d.occurrence
           /\ e.task = d.task
           /\ \A q \in Requests : q # r => e.request[q] = d.request[q]
           /\ e.request[r].statut = to
           /\ e.request[r].intervention = d.request[r].intervention
           /\ r \notin late => e.request[r].logged = to
<1> DEFINE row == Logged(d.request[r], to, r \in late)
<1>1. d.request[r] \in RequestRow /\ (r \in late) \in BOOLEAN
  BY DEF Database
<1>2. /\ row \in RequestRow
      /\ row.statut = to
      /\ row.intervention = d.request[r].intervention
      /\ r \notin late => row.logged = to
  BY <1>1, LoggedType
<1>3. LogRequest(d, r, to, late) = [d EXCEPT !.request[r] = row]
  BY DEF LogRequest
<1> HIDE DEF row
<1> QED BY <1>2, <1>3 DEF Database

LEMMA InsertRequestEffect ==
    ASSUME NEW d \in Database, NEW r \in Requests
    PROVE  LET e == InsertRequest(d, r) IN
           /\ e \in Database
           /\ e.intervention = d.intervention
           /\ e.occurrence = d.occurrence
           /\ e.task = d.task
           /\ \A q \in Requests : q # r => e.request[q] = d.request[q]
           /\ e.request[r].statut = "nouvelle"
           /\ e.request[r].logged = "nouvelle"
           /\ e.request[r].intervention = Null
<1> DEFINE row == [NoRequest EXCEPT !.statut = "nouvelle", !.logged = "nouvelle"]
<1>1. 0 \in 0 .. MaxClosings
  BY TablesAssumption
<1>2. /\ row \in RequestRow
      /\ row.statut = "nouvelle" /\ row.logged = "nouvelle" /\ row.intervention = Null
  BY <1>1 DEF NoRequest, RequestRow, Statuts
<1>3. InsertRequest(d, r) = [d EXCEPT !.request[r] = row]
  BY DEF InsertRequest
<1> HIDE DEF row
<1> QED BY <1>2, <1>3 DEF Database

LEMMA InsertInterventionEffect ==
    ASSUME NEW d \in Database, NEW i \in Interventions, NEW planned \in BOOLEAN
    PROVE  LET e == InsertIntervention(d, i, planned) IN
           /\ e \in Database
           /\ e.request = d.request
           /\ e.occurrence = d.occurrence
           /\ e.task = d.task
           /\ \A j \in Interventions : j # i => e.intervention[j] = d.intervention[j]
           /\ e.intervention[i].status = "ouvert"
<1> DEFINE row == [NoIntervention EXCEPT !.status = "ouvert", !.plan = planned]
<1>1. row \in InterventionRow /\ row.status = "ouvert"
  BY DEF NoIntervention, InterventionRow, InterventionStatuses, OpenStatuses
<1>2. InsertIntervention(d, i, planned) = [d EXCEPT !.intervention[i] = row]
  BY DEF InsertIntervention
<1> HIDE DEF row
<1> QED BY <1>1, <1>2 DEF Database

LEMMA SyncStatusLogEffect ==
    ASSUME NEW d \in Database, NEW i \in Interventions,
           NEW s \in InterventionStatuses, NEW late
    PROVE  LET e == SyncStatusLog(d, i, s, late) IN
           /\ e \in Database
           /\ e.task = d.task
           /\ \A j \in Interventions : j # i => e.intervention[j] = d.intervention[j]
           /\ e.intervention[i].status = s
           /\ \A o \in Occurrences :
                  e.occurrence[o].intervention = d.occurrence[o].intervention
           /\ \A r \in Requests :
                  /\ r \in RequestsClosedWith(d, i, s) =>
                         /\ e.request[r].statut = "cloturee"
                         /\ e.request[r].intervention = d.request[r].intervention
                         /\ r \notin late => e.request[r].logged = "cloturee"
                  /\ r \notin RequestsClosedWith(d, i, s) => e.request[r] = d.request[r]
<1> DEFINE closed(r) == Logged(Logged(d.request[r], "cloturee", r \in late),
                               "cloturee", r \in late)
           request == [r \in Requests |-> IF r \in RequestsClosedWith(d, i, s)
                                          THEN closed(r) ELSE d.request[r]]
           occurrence == [o \in Occurrences |->
                             IF s = "ferme" /\ d.occurrence[o].intervention = i
                             THEN [d.occurrence[o] EXCEPT !.status = "completed"]
                             ELSE d.occurrence[o]]
           intervention == [d.intervention EXCEPT ![i].status = s]
<1>1. ASSUME NEW r \in Requests
      PROVE  /\ closed(r) \in RequestRow
             /\ closed(r).statut = "cloturee"
             /\ closed(r).intervention = d.request[r].intervention
             /\ r \notin late => closed(r).logged = "cloturee"
  <2>1. d.request[r] \in RequestRow /\ "cloturee" \in Statuts /\ (r \in late) \in BOOLEAN
    BY DEF Database, Statuts
  <2>2. /\ Logged(d.request[r], "cloturee", r \in late) \in RequestRow
        /\ Logged(d.request[r], "cloturee", r \in late).intervention
               = d.request[r].intervention
    BY <2>1, LoggedType
  <2> QED BY <2>1, <2>2, LoggedType
<1>2. /\ occurrence \in [Occurrences -> OccurrenceRow]
      /\ \A o \in Occurrences : occurrence[o].intervention = d.occurrence[o].intervention
  BY DEF Database, OccurrenceRow, OccurrenceStatuses
<1>3. /\ intervention \in [Interventions -> InterventionRow]
      /\ intervention[i].status = s
      /\ \A j \in Interventions : j # i => intervention[j] = d.intervention[j]
  BY DEF Database, InterventionRow
<1>4. request \in [Requests -> RequestRow]
  BY <1>1 DEF Database
<1>5. SyncStatusLog(d, i, s, late) = [d EXCEPT !.intervention = intervention,
                                               !.occurrence = occurrence,
                                               !.request = request]
  BY DEF SyncStatusLog, Database
<1>6. ASSUME NEW r \in Requests
      PROVE  request[r] = IF r \in RequestsClosedWith(d, i, s)
                          THEN closed(r) ELSE d.request[r]
  OBVIOUS
<1> HIDE DEF request, occurrence, intervention, closed
<1>7. LET e == SyncStatusLog(d, i, s, late) IN
      /\ e \in Database
      /\ e.task = d.task
      /\ e.request = request
      /\ e.occurrence = occurrence
      /\ e.intervention = intervention
  BY <1>2, <1>3, <1>4, <1>5 DEF Database
<1> QED BY <1>1, <1>2, <1>3, <1>6, <1>7

LEMMA UpdateStatusEffect ==
    ASSUME NEW d \in Database, NEW i \in Interventions,
           NEW s \in InterventionStatuses, NEW late,
           AcceptedOpen(d)
    PROVE  LET e == UpdateStatus(d, i, s, late) IN
           /\ e \in Database
           /\ e.task = d.task
           /\ \A j \in Interventions : j # i => e.intervention[j] = d.intervention[j]
           /\ e.intervention[i].status = s
           /\ \A o \in Occurrences :
                  e.occurrence[o].intervention = d.occurrence[o].intervention
           /\ \A r \in Requests :
                  /\ r \in RequestsClosedWith(d, i, s) =>
                         /\ e.request[r].statut = "cloturee"
                         /\ e.request[r].intervention = d.request[r].intervention
                         /\ r \notin late => e.request[r].logged = "cloturee"
                  /\ r \notin RequestsClosedWith(d, i, s) => e.request[r] = d.request[r]
<1>1. CASE d.intervention[i].status = s
  <2>1. UpdateStatus(d, i, s, late) = d
    BY <1>1 DEF UpdateStatus
  <2>2. RequestsClosedWith(d, i, s) = {}
    BY <1>1 DEF RequestsClosedWith, RequestsLinkedTo, AcceptedOpen, OpenStatuses
  <2> QED BY <1>1, <2>1, <2>2
<1>2. CASE d.intervention[i].status # s
  <2>1. UpdateStatus(d, i, s, late) = SyncStatusLog(d, i, s, late)
    BY <1>2 DEF UpdateStatus
  <2> QED BY <2>1, SyncStatusLogEffect
<1> QED BY <1>1, <1>2

LEMMA AttachOccurrenceEffect ==
    ASSUME NEW d \in Database, NEW i \in Interventions,
           NEW o \in Occurrences \cup {Null}
    PROVE  LET e == AttachOccurrence(d, o, i) IN
           /\ e \in Database
           /\ e.request = d.request
           /\ e.intervention = d.intervention
           /\ \A p \in Occurrences :
                  e.occurrence[p].intervention \in {d.occurrence[p].intervention, i}
           /\ \A t \in Tasks :
                  \/ e.task[t] = d.task[t]
                  \/ d.task[t].intervention = Null /\ e.task[t].intervention = i
<1>1. CASE o = Null
  BY <1>1 DEF AttachOccurrence
<1>2. CASE o # Null
  <2> DEFINE row == [d.occurrence[o] EXCEPT !.intervention = i, !.status = "in_progress"]
             task == [t \in Tasks |->
                         IF d.task[t].occurrence = o /\ d.task[t].intervention = Null
                         THEN [d.task[t] EXCEPT !.intervention = i]
                         ELSE d.task[t]]
  <2>1. o \in Occurrences
    BY <1>2
  <2>2. row \in OccurrenceRow /\ row.intervention = i
    BY <2>1 DEF Database, OccurrenceRow, OccurrenceStatuses, ActiveOccurrence
  <2>3. /\ task \in [Tasks -> TaskRow]
        /\ \A t \in Tasks : \/ task[t] = d.task[t]
                            \/ d.task[t].intervention = Null /\ task[t].intervention = i
    BY DEF Database, TaskRow
  <2>4. AttachOccurrence(d, o, i) = [d EXCEPT !.occurrence[o] = row, !.task = task]
    BY <1>2 DEF AttachOccurrence, Database
  <2> HIDE DEF row, task
  <2> QED BY ZenonT(60), <2>1, <2>2, <2>3, <2>4 DEF Database
<1> QED BY <1>1, <1>2

LEMMA CompleteOccurrencesEffect ==
    ASSUME NEW d \in Database, NEW i, NEW r
    PROVE  LET e == CompleteOccurrences(d, i, r) IN
           /\ e \in Database
           /\ e.request = d.request
           /\ e.intervention = d.intervention
           /\ e.task = d.task
           /\ \A o \in Occurrences :
                  e.occurrence[o].intervention = d.occurrence[o].intervention
<1> DEFINE chosen(o) == /\ d.occurrence[o].status \notin {"completed", "skipped"}
                        /\ \/ r # Null /\ d.occurrence[o].request = r
                           \/ i # Null /\ d.occurrence[o].intervention = i
           occurrence == [o \in Occurrences |->
                             IF chosen(o)
                             THEN [d.occurrence[o] EXCEPT !.status = "completed"]
                             ELSE d.occurrence[o]]
<1>1. CompleteOccurrences(d, i, r) = [d EXCEPT !.occurrence = occurrence]
  BY DEF CompleteOccurrences
<1> HIDE DEF chosen
<1>2. /\ occurrence \in [Occurrences -> OccurrenceRow]
      /\ \A o \in Occurrences : occurrence[o].intervention = d.occurrence[o].intervention
  BY DEF Database, OccurrenceRow, OccurrenceStatuses
<1> HIDE DEF occurrence
<1> QED BY <1>1, <1>2 DEF Database

LEMMA LinkEffect ==
    ASSUME NEW d \in Database, NEW r \in Requests, NEW i \in Interventions
    PROVE  LET e == LinkTo(d, r, i) IN
           /\ e \in Database
           /\ e.intervention = d.intervention
           /\ e.occurrence = d.occurrence
           /\ e.task = d.task
           /\ \A q \in Requests : q # r => e.request[q] = d.request[q]
           /\ e.request[r].statut = d.request[r].statut
           /\ e.request[r].logged = d.request[r].logged
           /\ e.request[r].intervention = i
<1> DEFINE row == [d.request[r] EXCEPT !.intervention = i]
<1>1. /\ row \in RequestRow
      /\ row.intervention = i
      /\ row.statut = d.request[r].statut
      /\ row.logged = d.request[r].logged
  BY DEF Database, RequestRow
<1>2. LinkTo(d, r, i) = [d EXCEPT !.request[r] = row]
  BY DEF LinkTo, Database
<1> HIDE DEF row
<1>3. LET e == [d EXCEPT !.request[r] = row] IN
      /\ e \in Database
      /\ e.intervention = d.intervention
      /\ e.occurrence = d.occurrence
      /\ e.task = d.task
      /\ \A q \in Requests : q # r => e.request[q] = d.request[q]
      /\ e.request[r] = row
  BY <1>1 DEF Database
<1> QED BY <1>1, <1>2, <1>3

------------------------------------------------------------------------------
(* The columns the effect lemmas above leave open *)

LEMMA InsertedRow ==
    ASSUME NEW d \in Database, NEW i \in Interventions, NEW planned \in BOOLEAN
    PROVE  /\ InsertIntervention(d, i, planned).intervention[i].plan = planned
           /\ InsertIntervention(d, i, planned).intervention[i].actions = FALSE
BY DEF InsertIntervention, NoIntervention, Database

LEMMA SyncRows ==
    ASSUME NEW d \in Database, NEW i \in Interventions,
           NEW s \in InterventionStatuses, NEW late
    PROVE  LET e == SyncStatusLog(d, i, s, late) IN
           /\ \A j \in Interventions :
                  /\ e.intervention[j].plan = d.intervention[j].plan
                  /\ e.intervention[j].actions = d.intervention[j].actions
           /\ \A o \in Occurrences :
                  /\ e.occurrence[o].request = d.occurrence[o].request
                  /\ e.occurrence[o].status =
                         IF s = "ferme" /\ d.occurrence[o].intervention = i
                         THEN "completed" ELSE d.occurrence[o].status
<1> DEFINE e == SyncStatusLog(d, i, s, late)
<1>1. e.intervention = [d.intervention EXCEPT ![i].status = s]
  BY DEF SyncStatusLog, Database
<1>2. e.occurrence = [o \in Occurrences |->
                         IF s = "ferme" /\ d.occurrence[o].intervention = i
                         THEN [d.occurrence[o] EXCEPT !.status = "completed"]
                         ELSE d.occurrence[o]]
  BY DEF SyncStatusLog, Database
<1> HIDE DEF e
<1>3. \A j \in Interventions :
          /\ e.intervention[j].plan = d.intervention[j].plan
          /\ e.intervention[j].actions = d.intervention[j].actions
  BY <1>1 DEF Database, InterventionRow
<1>4. \A o \in Occurrences :
          /\ e.occurrence[o].request = d.occurrence[o].request
          /\ e.occurrence[o].status =
                 IF s = "ferme" /\ d.occurrence[o].intervention = i
                 THEN "completed" ELSE d.occurrence[o].status
  BY <1>2 DEF Database, OccurrenceRow
<1> QED BY <1>3, <1>4 DEF e

LEMMA AttachRows ==
    ASSUME NEW d \in Database, NEW i \in Interventions, NEW o \in Occurrences
    PROVE  LET e == AttachOccurrence(d, o, i) IN
           /\ \A p \in Occurrences : p # o => e.occurrence[p] = d.occurrence[p]
           /\ e.occurrence[o].request = d.occurrence[o].request
           /\ e.occurrence[o].intervention = i
           /\ e.occurrence[o].status = "in_progress"
           /\ \A t \in Tasks :
                  /\ e.task[t].status = d.task[t].status
                  /\ e.task[t].optional = d.task[t].optional
                  /\ e.task[t].occurrence = d.task[t].occurrence
                  /\ e.task[t].tagged = d.task[t].tagged
                  /\ e.task[t].intervention =
                         IF d.task[t].occurrence = o /\ d.task[t].intervention = Null
                         THEN i ELSE d.task[t].intervention
                  /\ d.task[t].intervention # Null => e.task[t] = d.task[t]
<1> DEFINE e == AttachOccurrence(d, o, i)
           row == [d.occurrence[o] EXCEPT !.intervention = i, !.status = "in_progress"]
<1>0. o # Null
  BY TablesAssumption
<1>1. e.occurrence = [d.occurrence EXCEPT ![o] = row]
  BY <1>0 DEF AttachOccurrence, Database
<1>2. e.task = [t \in Tasks |->
                   IF d.task[t].occurrence = o /\ d.task[t].intervention = Null
                   THEN [d.task[t] EXCEPT !.intervention = i]
                   ELSE d.task[t]]
  BY <1>0 DEF AttachOccurrence, Database
<1>3. /\ row.request = d.occurrence[o].request
      /\ row.intervention = i /\ row.status = "in_progress"
  BY DEF Database, OccurrenceRow
<1> HIDE DEF e, row
<1>4. /\ \A p \in Occurrences : p # o => e.occurrence[p] = d.occurrence[p]
      /\ e.occurrence[o] = row
  BY <1>1 DEF Database
<1>5. \A t \in Tasks :
          /\ e.task[t].status = d.task[t].status
          /\ e.task[t].optional = d.task[t].optional
          /\ e.task[t].occurrence = d.task[t].occurrence
          /\ e.task[t].tagged = d.task[t].tagged
          /\ e.task[t].intervention =
                 IF d.task[t].occurrence = o /\ d.task[t].intervention = Null
                 THEN i ELSE d.task[t].intervention
  BY <1>2 DEF Database, TaskRow
<1>6. \A t \in Tasks : d.task[t].intervention # Null => e.task[t] = d.task[t]
  BY <1>2
<1> QED BY <1>3, <1>4, <1>5, <1>6 DEF e

LEMMA CompleteRows ==
    ASSUME NEW d \in Database, NEW i, NEW r
    PROVE  LET e == CompleteOccurrences(d, i, r) IN
           \A o \in Occurrences :
               /\ e.occurrence[o].request = d.occurrence[o].request
               /\ e.occurrence[o].intervention = d.occurrence[o].intervention
               /\ e.occurrence[o].status =
                      IF /\ d.occurrence[o].status \notin {"completed", "skipped"}
                         /\ \/ r # Null /\ d.occurrence[o].request = r
                            \/ i # Null /\ d.occurrence[o].intervention = i
                      THEN "completed" ELSE d.occurrence[o].status
BY DEF CompleteOccurrences, Database, OccurrenceRow

LEMMA GenerateRows ==
    ASSUME NEW d \in Database, NEW o \in Occurrences, NEW r \in Requests
    PROVE  LET e == GenerateTx(d, o, r) IN
           /\ e.request = InsertRequest(d, r).request
           /\ e.intervention = d.intervention
           /\ \A p \in Occurrences : p # o => e.occurrence[p] = d.occurrence[p]
           /\ e.occurrence[o].status = "generated"
           /\ e.occurrence[o].request = r
           /\ e.occurrence[o].intervention = Null
           /\ \A t \in Tasks :
                  /\ t \in {o} \X Steps => /\ e.task[t].occurrence = o
                                           /\ e.task[t].intervention = Null
                  /\ t \notin {o} \X Steps => e.task[t] = d.task[t]
<1> DEFINE c == InsertRequest(d, r)
           row == [NoOccurrence EXCEPT !.status = "generated", !.request = r]
           new(t) == [NoTask EXCEPT !.status = "todo", !.occurrence = o,
                                    !.optional = t[2] \in OptionalSteps]
           task == [t \in Tasks |-> IF t \in {o} \X Steps THEN new(t) ELSE d.task[t]]
<1>1. c \in Database /\ c.intervention = d.intervention /\ c.occurrence = d.occurrence
  BY InsertRequestEffect
<1>2. row.status = "generated" /\ row.request = r /\ row.intervention = Null
  BY DEF NoOccurrence
<1>3. \A t : new(t).occurrence = o /\ new(t).intervention = Null
  BY DEF NoTask
<1>4. GenerateTx(d, o, r) = [c EXCEPT !.occurrence[o] = row, !.task = task]
  BY DEF GenerateTx
<1>5. \A t \in Tasks : task[t] = IF t \in {o} \X Steps THEN new(t) ELSE d.task[t]
  OBVIOUS
<1> HIDE DEF c, row, task, new
<1>6. LET e == GenerateTx(d, o, r) IN
      /\ e.request = c.request /\ e.intervention = c.intervention
      /\ e.occurrence = [c.occurrence EXCEPT ![o] = row] /\ e.task = task
  BY <1>1, <1>4 DEF Database
<1>7. \A p \in Occurrences : p # o => [c.occurrence EXCEPT ![o] = row][p] = d.occurrence[p]
  BY <1>1 DEF Database
<1>8. [c.occurrence EXCEPT ![o] = row][o] = row
  BY <1>1 DEF Database
<1> QED BY <1>1, <1>2, <1>3, <1>5, <1>6, <1>7, <1>8 DEF c

LEMMA RejectRows ==
    ASSUME NEW d \in Database, NEW r \in Requests, NEW late
    PROVE  LET e == RejectTx(d, r, late) IN
           /\ e.intervention = d.intervention
           /\ e.task = d.task
           /\ \A q \in Requests : q # r => e.request[q] = d.request[q]
           /\ e.request[r].statut = "rejetee"
           /\ e.request[r].intervention = d.request[r].intervention
           /\ r \notin late => e.request[r].logged = "rejetee"
           /\ \A o \in Occurrences :
                  /\ e.occurrence[o].intervention = d.occurrence[o].intervention
                  /\ d.occurrence[o].request # r => e.occurrence[o] = d.occurrence[o]
                  /\ d.occurrence[o].request = r => /\ e.occurrence[o].request = Null
                                                    /\ e.occurrence[o].status = "pending"
<1> DEFINE occurrence == [o \in Occurrences |->
                             IF d.occurrence[o].request = r
                             THEN [d.occurrence[o] EXCEPT !.status = "pending",
                                                          !.request = Null]
                             ELSE d.occurrence[o]]
           freed == [d EXCEPT !.occurrence = occurrence]
<1>1. /\ occurrence \in [Occurrences -> OccurrenceRow]
      /\ \A o \in Occurrences :
             /\ occurrence[o].intervention = d.occurrence[o].intervention
             /\ d.occurrence[o].request # r => occurrence[o] = d.occurrence[o]
             /\ d.occurrence[o].request = r => /\ occurrence[o].request = Null
                                               /\ occurrence[o].status = "pending"
  BY ZenonT(60) DEF Database, OccurrenceRow, OccurrenceStatuses, ActiveOccurrence
<1> HIDE DEF occurrence
<1>2. /\ freed \in Database
      /\ freed.request = d.request /\ freed.intervention = d.intervention
      /\ freed.task = d.task /\ freed.occurrence = occurrence
  BY <1>1 DEF Database
<1>3. RejectTx(d, r, late) = LogRequest(freed, r, "rejetee", late) /\ "rejetee" \in Statuts
  BY DEF RejectTx, occurrence, Statuts
<1> HIDE DEF freed
<1> QED BY <1>1, <1>2, <1>3, LogRequestEffect

\* What e has of request r taken in charge in d.
Taken(d, e, r, i, planned, o, late) ==
    /\ \A q \in Requests : q # r => e.request[q] = d.request[q]
    /\ e.request[r].statut = "acceptee"
    /\ e.request[r].intervention = i
    /\ r \notin late => e.request[r].logged = "acceptee"
    /\ \A j \in Interventions : j # i => e.intervention[j] = d.intervention[j]
    /\ e.intervention[i].status = "ouvert"
    /\ e.intervention[i].plan = planned
    /\ e.intervention[i].actions = FALSE
    /\ \A p \in Occurrences : p # o => e.occurrence[p] = d.occurrence[p]
    /\ o # Null => /\ e.occurrence[o].request = d.occurrence[o].request
                   /\ e.occurrence[o].intervention = i
                   /\ e.occurrence[o].status = "in_progress"
    /\ o = Null => e.task = d.task
    /\ \A t \in Tasks :
           /\ e.task[t].status = d.task[t].status
           /\ e.task[t].optional = d.task[t].optional
           /\ e.task[t].occurrence = d.task[t].occurrence
           /\ e.task[t].tagged = d.task[t].tagged
           /\ d.task[t].intervention # Null => e.task[t] = d.task[t]
           /\ o # Null =>
                 e.task[t].intervention =
                     IF d.task[t].occurrence = o /\ d.task[t].intervention = Null
                     THEN i ELSE d.task[t].intervention

LEMMA TakeInChargeRows ==
    ASSUME NEW d \in Database, NEW r \in Requests, NEW i \in Interventions,
           NEW planned \in BOOLEAN, NEW o \in Occurrences \cup {Null}, NEW late
    PROVE  Taken(d, TakeInCharge(d, r, i, planned, o, late), r, i, planned, o, late)
<1> DEFINE inserted == InsertIntervention(d, i, planned)
           logged == LogRequest(inserted, r, "acceptee", late)
           linked == LinkTo(logged, r, i)
           e == AttachOccurrence(linked, o, i)
<1>0. "acceptee" \in Statuts
  BY DEF Statuts
<1>1. /\ inserted \in Database
      /\ inserted.request = d.request
      /\ inserted.occurrence = d.occurrence
      /\ inserted.task = d.task
      /\ \A j \in Interventions : j # i => inserted.intervention[j] = d.intervention[j]
      /\ inserted.intervention[i].status = "ouvert"
  BY InsertInterventionEffect
<1>1a. /\ inserted.intervention[i].plan = planned
      /\ inserted.intervention[i].actions = FALSE
  BY InsertedRow
<1> HIDE DEF inserted
<1>2. /\ logged \in Database
      /\ logged.intervention = inserted.intervention
      /\ logged.occurrence = inserted.occurrence
      /\ logged.task = inserted.task
      /\ \A q \in Requests : q # r => logged.request[q] = inserted.request[q]
      /\ logged.request[r].statut = "acceptee"
      /\ r \notin late => logged.request[r].logged = "acceptee"
  BY <1>0, <1>1, LogRequestEffect
<1> HIDE DEF logged
<1>3. /\ linked \in Database
      /\ linked.intervention = logged.intervention
      /\ linked.occurrence = logged.occurrence
      /\ linked.task = logged.task
      /\ \A q \in Requests : q # r => linked.request[q] = logged.request[q]
      /\ linked.request[r].statut = logged.request[r].statut
      /\ linked.request[r].logged = logged.request[r].logged
      /\ linked.request[r].intervention = i
  BY <1>2, LinkEffect
<1> HIDE DEF linked
<1>4. TakeInCharge(d, r, i, planned, o, late) = e
  BY DEF TakeInCharge, inserted, logged, linked
<1>5. e.request = linked.request /\ e.intervention = linked.intervention
  BY <1>3, AttachOccurrenceEffect
<1>6. CASE o = Null
  <2>1. e = linked
    BY <1>6 DEF AttachOccurrence
  <2> HIDE DEF e
  <2> QED BY <1>1, <1>1a, <1>2, <1>3, <1>4, <1>6, <2>1 DEF Taken
<1>7. CASE o # Null
  <2>1. o \in Occurrences
    BY <1>7
  <2>2. /\ \A p \in Occurrences : p # o => e.occurrence[p] = d.occurrence[p]
        /\ e.occurrence[o].request = d.occurrence[o].request
        /\ e.occurrence[o].intervention = i
        /\ e.occurrence[o].status = "in_progress"
        /\ \A t \in Tasks :
               /\ e.task[t].status = d.task[t].status
               /\ e.task[t].optional = d.task[t].optional
               /\ e.task[t].occurrence = d.task[t].occurrence
               /\ e.task[t].tagged = d.task[t].tagged
               /\ e.task[t].intervention =
                      IF d.task[t].occurrence = o /\ d.task[t].intervention = Null
                      THEN i ELSE d.task[t].intervention
               /\ d.task[t].intervention # Null => e.task[t] = d.task[t]
    BY <1>1, <1>2, <1>3, <2>1, AttachRows
  <2> HIDE DEF e
  <2> QED BY <1>1, <1>1a, <1>2, <1>3, <1>4, <1>5, <1>7, <2>2 DEF Taken
<1> QED BY <1>6, <1>7

LEMMA DeleteRows ==
    ASSUME NEW d \in Database, NEW i \in Interventions
    PROVE  LET e == DeleteInterventionTx(d, i) IN
           /\ e.task = d.task
           /\ \A j \in Interventions : j # i => e.intervention[j] = d.intervention[j]
           /\ e.intervention[i] = [NoIntervention EXCEPT !.status = "deleted"]
           /\ \A r \in Requests :
                  /\ e.request[r].statut = d.request[r].statut
                  /\ e.request[r].logged = d.request[r].logged
                  /\ e.request[r].intervention = IF d.request[r].intervention = i THEN Null
                                                 ELSE d.request[r].intervention
           /\ \A o \in Occurrences :
                  /\ e.occurrence[o].status = d.occurrence[o].status
                  /\ e.occurrence[o].request = d.occurrence[o].request
                  /\ e.occurrence[o].intervention =
                         IF d.occurrence[o].intervention = i THEN Null
                         ELSE d.occurrence[o].intervention
<1> DEFINE e == DeleteInterventionTx(d, i)
<1>1. /\ e.task = d.task
      /\ e.intervention = [d.intervention EXCEPT
                              ![i] = [NoIntervention EXCEPT !.status = "deleted"]]
      /\ e.request = [r \in Requests |->
                         IF d.request[r].intervention = i
                         THEN [d.request[r] EXCEPT !.intervention = Null]
                         ELSE d.request[r]]
      /\ e.occurrence = [o \in Occurrences |->
                            IF d.occurrence[o].intervention = i
                            THEN [d.occurrence[o] EXCEPT !.intervention = Null]
                            ELSE d.occurrence[o]]
  BY DEF DeleteInterventionTx, Database
<1> HIDE DEF e
<1>2. /\ \A j \in Interventions : j # i => e.intervention[j] = d.intervention[j]
      /\ e.intervention[i] = [NoIntervention EXCEPT !.status = "deleted"]
  BY <1>1 DEF Database
<1>3. \A r \in Requests :
          /\ e.request[r].statut = d.request[r].statut
          /\ e.request[r].logged = d.request[r].logged
          /\ e.request[r].intervention = IF d.request[r].intervention = i THEN Null
                                         ELSE d.request[r].intervention
  <2> SUFFICES ASSUME NEW r \in Requests
               PROVE  /\ e.request[r].statut = d.request[r].statut
                      /\ e.request[r].logged = d.request[r].logged
                      /\ e.request[r].intervention = IF d.request[r].intervention = i
                                                     THEN Null ELSE d.request[r].intervention
    OBVIOUS
  <2>1. e.request[r] = IF d.request[r].intervention = i
                       THEN [d.request[r] EXCEPT !.intervention = Null]
                       ELSE d.request[r]
    BY <1>1
  <2>2. d.request[r] \in RequestRow
    BY DEF Database
  <2> QED BY <2>1, <2>2 DEF RequestRow
<1>4. \A o \in Occurrences :
          /\ e.occurrence[o].status = d.occurrence[o].status
          /\ e.occurrence[o].request = d.occurrence[o].request
          /\ e.occurrence[o].intervention = IF d.occurrence[o].intervention = i THEN Null
                                            ELSE d.occurrence[o].intervention
  BY <1>1 DEF Database, OccurrenceRow
<1> QED BY <1>1, <1>2, <1>3, <1>4 DEF e

\* The transactions on one task
LEMMA TaskRows ==
    ASSUME NEW d \in Database, NEW t \in Tasks, NEW i, NEW optional, NEW s,
           NEW e \in {CreateTaskTx(d, t, i, optional), PatchTaskTx(d, t, s),
                      DeleteTaskTx(d, t)}
    PROVE  /\ e.request = d.request
           /\ e.occurrence = d.occurrence
           /\ \A u \in Tasks : u # t => e.task[u] = d.task[u]
<1>1. /\ CreateTaskTx(d, t, i, optional) =
             [d EXCEPT !.task[t] = [NoTask EXCEPT !.status = "todo", !.optional = optional,
                                                  !.intervention = i]]
      /\ DeleteTaskTx(d, t) = [d EXCEPT !.task[t] = [NoTask EXCEPT !.status = "deleted"]]
  BY DEF CreateTaskTx, DeleteTaskTx
<1>2. ASSUME NEW row
      PROVE  LET c == [d EXCEPT !.task[t] = row] IN
             /\ c.request = d.request
             /\ c.occurrence = d.occurrence
             /\ \A u \in Tasks : u # t => c.task[u] = d.task[u]
  BY DEF Database
<1>3. CASE e = CreateTaskTx(d, t, i, optional)
  BY <1>1, <1>2, <1>3
<1>4. CASE e = DeleteTaskTx(d, t)
  BY <1>1, <1>2, <1>4
<1>5. CASE e = PatchTaskTx(d, t, s)
  BY <1>5 DEF PatchTaskTx, Database
<1> QED BY <1>3, <1>4, <1>5

LEMMA CreateTaskRow ==
    ASSUME NEW d \in Database, NEW t \in Tasks, NEW i \in Interventions,
           NEW optional \in BOOLEAN
    PROVE  LET e == CreateTaskTx(d, t, i, optional) IN
           e.task[t].occurrence = Null /\ e.task[t].intervention = i
BY DEF CreateTaskTx, NoTask, Database

LEMMA PatchTaskRow ==
    ASSUME NEW d \in Database, NEW t \in Tasks, NEW s
    PROVE  LET e == PatchTaskTx(d, t, s) IN
           /\ e.task[t].occurrence = d.task[t].occurrence
           /\ e.task[t].intervention = d.task[t].intervention
           /\ e.task[t].tagged = d.task[t].tagged
BY DEF PatchTaskTx, TaskRow, Database

LEMMA DeleteTaskRow ==
    ASSUME NEW d \in Database, NEW t \in Tasks
    PROVE  LET e == DeleteTaskTx(d, t) IN
           /\ e.task[t].occurrence = Null /\ e.task[t].intervention = Null
           /\ e.task[t].status = "deleted"
BY DEF DeleteTaskTx, NoTask, Database

\* What e has of an action recorded in d on intervention i and on the tasks of T.
Acted(d, e, i, T) ==
    /\ e.request = d.request /\ e.occurrence = d.occurrence
    /\ \A t \in Tasks :
           /\ e.task[t].occurrence = d.task[t].occurrence
           /\ e.task[t].intervention = d.task[t].intervention
           /\ e.task[t].optional = d.task[t].optional
           /\ t \in T => e.task[t].tagged = TRUE
           /\ t \notin T => e.task[t] = d.task[t]
    /\ \A j \in Interventions :
           /\ e.intervention[j].status = d.intervention[j].status
           /\ e.intervention[j].plan = d.intervention[j].plan
           /\ j # i => e.intervention[j].actions = d.intervention[j].actions

LEMMA TagParts ==
    ASSUME NEW d \in Database, NEW i, NEW tags, NEW e, e = TagTx(d, i, tags)
    PROVE  /\ e.request = d.request /\ e.occurrence = d.occurrence
           /\ \A t \in Tasks :
                  e.task[t] = IF t \in DOMAIN tags THEN Tagged(d.task[t], tags[t])
                              ELSE d.task[t]
BY DEF TagTx, Database

LEMMA TagRow ==
    ASSUME NEW d \in Database, NEW i, NEW tags
    PROVE  Acted(d, TagTx(d, i, tags), i, DOMAIN tags)
<1> DEFINE e == TagTx(d, i, tags)
           T == DOMAIN tags
<1>1. /\ e.request = d.request /\ e.occurrence = d.occurrence
      /\ \A t \in Tasks :
             e.task[t] = IF t \in T THEN Tagged(d.task[t], tags[t]) ELSE d.task[t]
  <2> HIDE DEF e
  <2>1. e = TagTx(d, i, tags)
    BY DEF e
  <2> QED BY <2>1, TagParts
<1>2. e.intervention = [d.intervention EXCEPT ![i].actions = TRUE]
  BY DEF TagTx, Database
<1> HIDE DEF e, T
<1>3. ASSUME NEW t \in Tasks
      PROVE  /\ e.task[t].occurrence = d.task[t].occurrence
             /\ e.task[t].intervention = d.task[t].intervention
             /\ e.task[t].optional = d.task[t].optional
             /\ t \in T => e.task[t].tagged = TRUE
             /\ t \notin T => e.task[t] = d.task[t]
  <2>1. d.task[t] \in TaskRow
    BY DEF Database
  <2>2. \A mode : LET row == Tagged(d.task[t], mode)
                  IN /\ row.occurrence = d.task[t].occurrence
                     /\ row.intervention = d.task[t].intervention
                     /\ row.optional = d.task[t].optional
                     /\ row.tagged = TRUE
    BY <2>1 DEF TaskRow, Tagged
  <2> QED BY <1>1, <2>2
<1>4. ASSUME NEW j \in Interventions
      PROVE  /\ e.intervention[j].status = d.intervention[j].status
             /\ e.intervention[j].plan = d.intervention[j].plan
             /\ j # i => e.intervention[j].actions = d.intervention[j].actions
  <2>1. e.intervention[j] = IF j = i THEN [d.intervention[j] EXCEPT !.actions = TRUE]
                            ELSE d.intervention[j]
    BY <1>2 DEF Database
  <2>2. d.intervention[j] \in InterventionRow
    BY DEF Database
  <2> QED BY <2>1, <2>2 DEF InterventionRow
<1>5. Acted(d, e, i, T)
  BY <1>1, <1>3, <1>4, Zenon DEF Acted
<1> QED BY <1>5 DEF e, T

------------------------------------------------------------------------------
(* The transactions keep the database consistent *)

Consistent(d) == d \in Database /\ AcceptedOpen(d) /\ ReferencesLive(d)

\* A change that leaves interventions alone, breaks links but makes none, and
\* accepts no request.
LEMMA FewerReferences ==
    ASSUME NEW d, NEW e, Consistent(d), e \in Database,
           \A j \in Interventions :
               e.intervention[j].status = d.intervention[j].status,
           \A q \in Requests :
               /\ e.request[q].intervention \in {d.request[q].intervention, Null}
               /\ \/ e.request[q].statut = d.request[q].statut
                  \/ e.request[q].statut # "acceptee"
                  \/ e.request[q].intervention = Null,
           \A o \in Occurrences :
               e.occurrence[o].intervention \in {d.occurrence[o].intervention, Null},
           \A t \in Tasks : e.task[t].intervention \in {d.task[t].intervention, Null}
    PROVE  Consistent(e)
<1>1. \A i \in Interventions : i # Null
  BY TablesAssumption
<1>2. AcceptedOpen(e)
  BY <1>1 DEF Consistent, AcceptedOpen
<1>3. ReferencesLive(e)
  BY <1>1 DEF Consistent, ReferencesLive, LiveIntervention, RequestsLinkedTo
<1> QED BY <1>2, <1>3 DEF Consistent

LEMMA HoldConsistent ==
    ASSUME NEW d, Consistent(d), NEW r \in Requests, NEW late
    PROVE  Consistent(HoldTx(d, r, late))
<1>1. d \in Database /\ "en_attente" \in Statuts
  BY DEF Consistent, Statuts
<1> QED BY <1>1, LogRequestEffect, FewerReferences DEF HoldTx

LEMMA InsertRequestConsistent ==
    ASSUME NEW d, Consistent(d), NEW r \in Requests
    PROVE  Consistent(InsertRequest(d, r))
<1>1. d \in Database
  BY DEF Consistent
<1> QED BY <1>1, InsertRequestEffect, FewerReferences, SMTT(30)

LEMMA RejectConsistent ==
    ASSUME NEW d, Consistent(d), NEW r \in Requests, NEW late
    PROVE  Consistent(RejectTx(d, r, late))
<1> DEFINE occurrence == [o \in Occurrences |->
                             IF d.occurrence[o].request = r
                             THEN [d.occurrence[o] EXCEPT !.status = "pending",
                                                          !.request = Null]
                             ELSE d.occurrence[o]]
           freed == [d EXCEPT !.occurrence = occurrence]
<1>1. d \in Database /\ "rejetee" \in Statuts
  BY DEF Consistent, Statuts
<1>2. /\ occurrence \in [Occurrences -> OccurrenceRow]
      /\ \A o \in Occurrences : occurrence[o].intervention = d.occurrence[o].intervention
  BY ZenonT(60), <1>1 DEF Database, OccurrenceRow, OccurrenceStatuses, ActiveOccurrence
<1> HIDE DEF occurrence
<1>3. /\ freed \in Database
      /\ freed.request = d.request /\ freed.intervention = d.intervention
      /\ freed.task = d.task /\ freed.occurrence = occurrence
  BY <1>1, <1>2 DEF Database
<1>4. RejectTx(d, r, late) = LogRequest(freed, r, "rejetee", late)
  BY DEF RejectTx, occurrence
<1> HIDE DEF freed
<1> QED BY <1>1, <1>2, <1>3, <1>4, LogRequestEffect, FewerReferences

LEMMA SkipConsistent ==
    ASSUME NEW d, Consistent(d), NEW o \in Occurrences
    PROVE  Consistent(SkipTx(d, o))
<1>1. d \in Database
  BY DEF Consistent
<1>2. LET e == SkipTx(d, o) IN
      /\ e \in Database
      /\ e.request = d.request /\ e.intervention = d.intervention /\ e.task = d.task
      /\ \A p \in Occurrences : e.occurrence[p].intervention = d.occurrence[p].intervention
  BY ZenonT(60), <1>1 DEF SkipTx, Database, OccurrenceRow, OccurrenceStatuses
<1> QED BY <1>1, <1>2, FewerReferences

LEMMA GenerateConsistent ==
    ASSUME NEW d, Consistent(d), NEW o \in Occurrences, NEW r \in Requests
    PROVE  Consistent(GenerateTx(d, o, r))
<1> DEFINE c == InsertRequest(d, r)
           row == [NoOccurrence EXCEPT !.status = "generated", !.request = r]
           task == [t \in Tasks |->
                       IF t \in {o} \X Steps
                       THEN [NoTask EXCEPT !.status = "todo", !.occurrence = o,
                                           !.optional = t[2] \in OptionalSteps]
                       ELSE d.task[t]]
<1>1. Consistent(c) /\ c \in Database /\ c.task = d.task
  BY InsertRequestConsistent, InsertRequestEffect DEF Consistent
<1>2. row \in OccurrenceRow /\ row.intervention = Null
  BY DEF NoOccurrence, OccurrenceRow, OccurrenceStatuses, ActiveOccurrence
<1>3. /\ task \in [Tasks -> TaskRow]
      /\ \A t \in Tasks : task[t].intervention \in {d.task[t].intervention, Null}
  <2> SUFFICES ASSUME NEW t \in Tasks
               PROVE  /\ task[t] \in TaskRow
                      /\ task[t].intervention \in {d.task[t].intervention, Null}
    OBVIOUS
  <2>1. CASE t \in {o} \X Steps
    <3>1. task[t] = [NoTask EXCEPT !.status = "todo", !.occurrence = o,
                                   !.optional = t[2] \in OptionalSteps]
      BY <2>1
    <3>2. ASSUME NEW b \in BOOLEAN
          PROVE  LET new == [NoTask EXCEPT !.status = "todo", !.occurrence = o,
                                           !.optional = b]
                 IN new \in TaskRow /\ new.intervention = Null
      BY DEF NoTask, TaskRow, TaskStatuses, PendingTask
    <3>3. (t[2] \in OptionalSteps) \in BOOLEAN
      OBVIOUS
    <3> HIDE DEF task
    <3> QED BY <3>1, <3>2, <3>3
  <2>2. CASE t \notin {o} \X Steps
    <3>1. task[t] = d.task[t] /\ d.task[t] \in TaskRow
      BY <2>2 DEF Consistent, Database
    <3> QED BY <3>1
  <2> QED BY <2>1, <2>2
<1>4. GenerateTx(d, o, r) = [c EXCEPT !.occurrence[o] = row, !.task = task]
  BY DEF GenerateTx
<1> HIDE DEF c, row, task
<1>5. LET e == GenerateTx(d, o, r) IN
      /\ e \in Database
      /\ e.request = c.request /\ e.intervention = c.intervention /\ e.task = task
      /\ \A p \in Occurrences :
             e.occurrence[p].intervention \in {c.occurrence[p].intervention, Null}
  BY ZenonT(60), <1>1, <1>2, <1>3, <1>4 DEF Database
<1> QED BY <1>1, <1>3, <1>5, FewerReferences

LEMMA TakeInChargeConsistent ==
    ASSUME NEW d, Consistent(d), NEW r \in Requests, NEW i \in Interventions,
           NEW planned \in BOOLEAN, NEW o \in Occurrences \cup {Null}, NEW late
    PROVE  Consistent(TakeInCharge(d, r, i, planned, o, late))
<1> DEFINE inserted == InsertIntervention(d, i, planned)
           logged == LogRequest(inserted, r, "acceptee", late)
           linked == LinkTo(logged, r, i)
           e == AttachOccurrence(linked, o, i)
<1>0. d \in Database /\ "acceptee" \in Statuts
  BY DEF Consistent, Statuts
<1>1. /\ inserted \in Database
      /\ inserted.request = d.request
      /\ inserted.occurrence = d.occurrence
      /\ inserted.task = d.task
      /\ \A j \in Interventions : j # i => inserted.intervention[j] = d.intervention[j]
      /\ inserted.intervention[i].status = "ouvert"
  BY <1>0, InsertInterventionEffect
<1> HIDE DEF inserted
<1>2. /\ logged \in Database
      /\ logged.intervention = inserted.intervention
      /\ logged.occurrence = inserted.occurrence
      /\ logged.task = inserted.task
      /\ \A q \in Requests : q # r => logged.request[q] = inserted.request[q]
  BY <1>0, <1>1, LogRequestEffect
<1> HIDE DEF logged
<1>3. /\ linked \in Database
      /\ linked.intervention = logged.intervention
      /\ linked.occurrence = logged.occurrence
      /\ linked.task = logged.task
      /\ \A q \in Requests : q # r => linked.request[q] = logged.request[q]
      /\ linked.request[r].intervention = i
  BY <1>2, LinkEffect
<1> HIDE DEF linked
<1>4. /\ e \in Database
      /\ e.request = linked.request
      /\ e.intervention = linked.intervention
      /\ \A p \in Occurrences :
             e.occurrence[p].intervention \in {linked.occurrence[p].intervention, i}
      /\ \A t \in Tasks :
             \/ e.task[t] = linked.task[t]
             \/ linked.task[t].intervention = Null /\ e.task[t].intervention = i
  BY <1>3, AttachOccurrenceEffect
<1>5. TakeInCharge(d, r, i, planned, o, late) = e
  BY DEF TakeInCharge, inserted, logged, linked
<1> HIDE DEF e
<1>6. /\ \A q \in Requests : q # r => e.request[q] = d.request[q]
      /\ e.request[r].intervention = i
      /\ e.intervention[i].status = "ouvert"
      /\ \A j \in Interventions : j # i => e.intervention[j] = d.intervention[j]
      /\ \A p \in Occurrences : e.occurrence[p].intervention \in {d.occurrence[p].intervention, i}
      /\ \A t \in Tasks : e.task[t].intervention \in {d.task[t].intervention, i}
  BY <1>1, <1>2, <1>3, <1>4
<1>7. AcceptedOpen(e)
  BY <1>6 DEF Consistent, AcceptedOpen, OpenStatuses
<1>8. ReferencesLive(e)
  BY <1>6 DEF Consistent, ReferencesLive, LiveIntervention, RequestsLinkedTo,
              InterventionStatuses, OpenStatuses
<1> QED BY <1>4, <1>5, <1>7, <1>8 DEF Consistent

LEMMA SyncStatusLogConsistent ==
    ASSUME NEW d, Consistent(d), NEW i \in Interventions,
           NEW s \in InterventionStatuses, NEW late
    PROVE  Consistent(SyncStatusLog(d, i, s, late))
<1> DEFINE e == SyncStatusLog(d, i, s, late)
<1>0. d \in Database
  BY DEF Consistent
<1>1. /\ e \in Database
      /\ e.task = d.task
      /\ \A j \in Interventions : j # i => e.intervention[j] = d.intervention[j]
      /\ e.intervention[i].status = s
      /\ \A o \in Occurrences :
             e.occurrence[o].intervention = d.occurrence[o].intervention
      /\ \A r \in Requests :
             /\ r \in RequestsClosedWith(d, i, s) =>
                    /\ e.request[r].statut = "cloturee"
                    /\ e.request[r].intervention = d.request[r].intervention
             /\ r \notin RequestsClosedWith(d, i, s) => e.request[r] = d.request[r]
  BY <1>0, SyncStatusLogEffect
<1> HIDE DEF e
<1>2. \A r \in Requests : e.request[r].intervention = d.request[r].intervention
  BY <1>1
<1>3. ASSUME NEW r \in Requests, NEW j \in Interventions,
             e.request[r].statut = "acceptee", e.request[r].intervention = j
      PROVE  e.intervention[j].status \in OpenStatuses
  <2>1. r \notin RequestsClosedWith(d, i, s) /\ d.request[r].statut = "acceptee"
    BY <1>1, <1>3
  <2>2. d.request[r].intervention = j
    BY <1>2, <1>3
  <2>3. CASE j = i
    <3>1. s # "ferme"
      BY <2>1, <2>2, <2>3 DEF RequestsClosedWith, RequestsLinkedTo
    <3> QED BY <1>1, <2>3, <3>1 DEF InterventionStatuses
  <2>4. CASE j # i
    BY <1>1, <2>1, <2>2, <2>4 DEF Consistent, AcceptedOpen
  <2> QED BY <2>3, <2>4
<1>4. AcceptedOpen(e)
  BY <1>3 DEF AcceptedOpen
<1>5. ReferencesLive(e)
  BY <1>1, <1>2 DEF Consistent, ReferencesLive, LiveIntervention, RequestsLinkedTo
<1> QED BY <1>1, <1>4, <1>5 DEF Consistent, e

LEMMA UpdateStatusConsistent ==
    ASSUME NEW d, Consistent(d), NEW i \in Interventions,
           NEW s \in InterventionStatuses, NEW late
    PROVE  Consistent(UpdateStatus(d, i, s, late))
BY SyncStatusLogConsistent DEF UpdateStatus

LEMMA LogConsistent ==
    ASSUME NEW d, Consistent(d), NEW r \in Requests, NEW to \in Statuts, NEW late,
           to # "acceptee"
    PROVE  Consistent(LogRequest(d, r, to, late))
<1>1. d \in Database
  BY DEF Consistent
<1> QED BY <1>1, LogRequestEffect, FewerReferences

LEMMA CompleteOccurrencesConsistent ==
    ASSUME NEW d, Consistent(d), NEW i, NEW r
    PROVE  Consistent(CompleteOccurrences(d, i, r))
<1>1. d \in Database
  BY DEF Consistent
<1> QED BY <1>1, CompleteOccurrencesEffect, FewerReferences

LEMMA CloseConsistent ==
    ASSUME NEW d, Consistent(d), NEW r \in Requests,
           NEW i \in Interventions \cup {Null}, NEW late
    PROVE  Consistent(CloseTx(d, r, i, late))
<1>1. Consistent(CloseLinked(d, i, late))
  BY UpdateStatusConsistent DEF CloseLinked, InterventionStatuses
<1>2. Consistent(CompleteOccurrences(CloseLinked(d, i, late), i, r))
  BY <1>1, CompleteOccurrencesConsistent
<1>3. "cloturee" \in Statuts
  BY DEF Statuts
<1> QED BY <1>2, <1>3, LogConsistent DEF CloseTx

LEMMA CascadeConsistent ==
    ASSUME NEW d, Consistent(d), NEW i \in Interventions,
           NEW r \in Requests \cup {Null}, NEW relink \in BOOLEAN, NEW di, NEW late,
           relink => r # Null,
           ~CascadeRefused(d, i, r, relink)
    PROVE  Consistent(CascadeTx(d, i, r, relink, di, late))
<1> DEFINE linked == IF relink THEN LinkTo(d, r, i) ELSE d
           closed == LogRequest(linked, r, "cloturee", late)
<1>0. d \in Database /\ "cloturee" \in Statuts
  BY DEF Consistent, Statuts
<1>1. CASE r = Null
  BY <1>1, CompleteOccurrencesConsistent DEF CascadeTx
<1>2. CASE r # Null
  <2>1. r \in Requests
    BY <1>2
  <2>2. /\ linked \in Database
        /\ linked.intervention = d.intervention
        /\ linked.occurrence = d.occurrence
        /\ linked.task = d.task
        /\ \A q \in Requests : q # r => linked.request[q] = d.request[q]
        /\ linked.request[r].intervention
               = IF relink THEN i ELSE d.request[r].intervention
    BY <1>0, <2>1, LinkEffect
  <2> HIDE DEF linked
  <2>3. /\ closed \in Database
        /\ closed.intervention = linked.intervention
        /\ closed.occurrence = linked.occurrence
        /\ closed.task = linked.task
        /\ \A q \in Requests : q # r => closed.request[q] = linked.request[q]
        /\ closed.request[r].statut = "cloturee"
        /\ closed.request[r].intervention = linked.request[r].intervention
    BY <1>0, <2>1, <2>2, LogRequestEffect
  <2> HIDE DEF closed
  <2>4. AcceptedOpen(closed)
    BY <2>2, <2>3 DEF Consistent, AcceptedOpen
  <2>5. relink => LiveIntervention(d, i)
    BY DEF CascadeRefused
  <2>6. ASSUME NEW q \in Requests, NEW j \in Interventions,
               closed.request[q].intervention = j
        PROVE  LiveIntervention(closed, j)
    <3>1. CASE q = r /\ relink
      BY <2>2, <2>3, <2>5, <2>6, <3>1 DEF LiveIntervention
    <3>2. CASE ~(q = r /\ relink)
      <4>1. d.request[q].intervention = j
        BY <2>2, <2>3, <2>6, <3>2
      <4> QED BY <2>2, <2>3, <4>1
              DEF Consistent, ReferencesLive, RequestsLinkedTo, LiveIntervention
    <3> QED BY <3>1, <3>2
  <2>7. ReferencesLive(closed)
    BY <2>2, <2>3, <2>6
    DEF Consistent, ReferencesLive, RequestsLinkedTo, LiveIntervention
  <2>8. Consistent(closed)
    BY <2>3, <2>4, <2>7 DEF Consistent
  <2>9. CascadeTx(d, i, r, relink, di, late) = CompleteOccurrences(closed, i, di)
    BY <1>2 DEF CascadeTx, closed, linked
  <2> QED BY <2>8, <2>9, CompleteOccurrencesConsistent
<1> QED BY <1>1, <1>2

LEMMA DeleteConsistent ==
    ASSUME NEW d, Consistent(d), NEW i \in Interventions, ~DeleteRefused(d, i)
    PROVE  Consistent(DeleteInterventionTx(d, i))
<1> DEFINE e == DeleteInterventionTx(d, i)
           request == [r \in Requests |->
                          IF d.request[r].intervention = i
                          THEN [d.request[r] EXCEPT !.intervention = Null]
                          ELSE d.request[r]]
           occurrence == [o \in Occurrences |->
                             IF d.occurrence[o].intervention = i
                             THEN [d.occurrence[o] EXCEPT !.intervention = Null]
                             ELSE d.occurrence[o]]
           row == [NoIntervention EXCEPT !.status = "deleted"]
<1>0. d \in Database
  BY DEF Consistent
<1>1. row \in InterventionRow
  BY DEF NoIntervention, InterventionRow, InterventionStatuses, OpenStatuses
<1>2. /\ request \in [Requests -> RequestRow]
      /\ \A r \in Requests :
             /\ request[r].statut = d.request[r].statut
             /\ request[r].intervention = IF d.request[r].intervention = i THEN Null
                                          ELSE d.request[r].intervention
  BY <1>0 DEF Database, RequestRow
<1>3. /\ occurrence \in [Occurrences -> OccurrenceRow]
      /\ \A o \in Occurrences :
             occurrence[o].intervention = IF d.occurrence[o].intervention = i THEN Null
                                          ELSE d.occurrence[o].intervention
  BY <1>0 DEF Database, OccurrenceRow
<1>4. e = [d EXCEPT !.intervention[i] = row, !.request = request,
                    !.occurrence = occurrence]
  BY DEF DeleteInterventionTx
<1> HIDE DEF row, request, occurrence, e
<1>5. /\ e \in Database
      /\ e.request = request /\ e.occurrence = occurrence /\ e.task = d.task
      /\ \A j \in Interventions : j # i => e.intervention[j] = d.intervention[j]
  BY <1>0, <1>1, <1>2, <1>3, <1>4 DEF Database
<1>6. i # Null
  BY TablesAssumption
<1>7. \A t \in Tasks : d.task[t].intervention # i
  BY DEF DeleteRefused
<1>8. AcceptedOpen(e)
  BY <1>2, <1>5, <1>6, TablesAssumption DEF Consistent, AcceptedOpen
<1>9. ReferencesLive(e)
  <2> SUFFICES ASSUME NEW j \in Interventions,
                      \/ \E r \in Requests : e.request[r].intervention = j
                      \/ \E o \in Occurrences : e.occurrence[o].intervention = j
                      \/ \E t \in Tasks : e.task[t].intervention = j
               PROVE  LiveIntervention(e, j)
    BY DEF ReferencesLive, RequestsLinkedTo
  <2>1. j # Null
    BY TablesAssumption
  <2>2. j # i
    BY <1>2, <1>3, <1>5, <1>6, <1>7
  <2>3. LiveIntervention(d, j)
    BY <1>2, <1>3, <1>5, <2>1 DEF Consistent, ReferencesLive, RequestsLinkedTo
  <2> QED BY <1>5, <2>2, <2>3 DEF LiveIntervention
<1> QED BY <1>5, <1>8, <1>9 DEF Consistent, e

LEMMA CreateTaskConsistent ==
    ASSUME NEW d, Consistent(d), NEW t \in Tasks, NEW i \in Interventions,
           NEW optional \in BOOLEAN, LiveIntervention(d, i)
    PROVE  Consistent(CreateTaskTx(d, t, i, optional))
<1> DEFINE row == [NoTask EXCEPT !.status = "todo", !.optional = optional,
                                 !.intervention = i]
           e == CreateTaskTx(d, t, i, optional)
<1>1. row \in TaskRow /\ row.intervention = i
  BY DEF NoTask, TaskRow, TaskStatuses, PendingTask
<1>2. e = [d EXCEPT !.task[t] = row]
  BY DEF CreateTaskTx
<1> HIDE DEF row, e
<1>3. /\ e \in Database
      /\ e.request = d.request /\ e.intervention = d.intervention
      /\ e.occurrence = d.occurrence
      /\ e.task[t].intervention = i
      /\ \A u \in Tasks : u # t => e.task[u] = d.task[u]
  BY <1>1, <1>2 DEF Consistent, Database
<1>4. AcceptedOpen(e)
  BY <1>3 DEF Consistent, AcceptedOpen
<1>5. ReferencesLive(e)
  BY <1>3 DEF Consistent, ReferencesLive, RequestsLinkedTo, LiveIntervention
<1> QED BY <1>3, <1>4, <1>5 DEF Consistent, e

LEMMA PatchTaskConsistent ==
    ASSUME NEW d, Consistent(d), NEW t \in Tasks, NEW s \in TaskStatuses
    PROVE  Consistent(PatchTaskTx(d, t, s))
<1>1. CASE d.task[t].status \in TaskStatuses
  <2> DEFINE row == [d.task[t] EXCEPT !.status = s]
  <2>1. row \in TaskRow /\ row.intervention = d.task[t].intervention
    BY DEF Consistent, Database, TaskRow
  <2>2. PatchTaskTx(d, t, s) = [d EXCEPT !.task[t] = row]
    BY <1>1 DEF PatchTaskTx, Consistent, Database
  <2> HIDE DEF row
  <2>3. LET e == PatchTaskTx(d, t, s) IN
        /\ e \in Database
        /\ e.request = d.request /\ e.intervention = d.intervention
        /\ e.occurrence = d.occurrence
        /\ \A u \in Tasks : e.task[u].intervention = d.task[u].intervention
    BY <2>1, <2>2 DEF Consistent, Database
  <2> QED BY <2>3, FewerReferences
<1>2. CASE d.task[t].status \notin TaskStatuses
  BY <1>2 DEF PatchTaskTx
<1> QED BY <1>1, <1>2

LEMMA DeleteTaskConsistent ==
    ASSUME NEW d, Consistent(d), NEW t \in Tasks
    PROVE  Consistent(DeleteTaskTx(d, t))
<1> DEFINE row == [NoTask EXCEPT !.status = "deleted"]
<1>1. row \in TaskRow /\ row.intervention = Null
  BY DEF NoTask, TaskRow
<1>2. DeleteTaskTx(d, t) = [d EXCEPT !.task[t] = row]
  BY DEF DeleteTaskTx
<1> HIDE DEF row
<1>3. LET e == DeleteTaskTx(d, t) IN
      /\ e \in Database
      /\ e.request = d.request /\ e.intervention = d.intervention
      /\ e.occurrence = d.occurrence
      /\ \A u \in Tasks : e.task[u].intervention \in {d.task[u].intervention, Null}
  BY <1>1, <1>2 DEF Consistent, Database
<1> QED BY <1>3, FewerReferences

LEMMA TagConsistent ==
    ASSUME NEW d, Consistent(d), NEW i, NEW tags,
           \A t \in DOMAIN tags : /\ tags[t] \in TaskStatuses
                                  /\ d.task[t].status \in TaskStatuses
    PROVE  Consistent(TagTx(d, i, tags))
<1> DEFINE e == TagTx(d, i, tags)
           intervention == [d.intervention EXCEPT ![i].actions = TRUE]
           task == [t \in Tasks |->
                       IF t \in DOMAIN tags THEN Tagged(d.task[t], tags[t]) ELSE d.task[t]]
<1>0. d \in Database
  BY DEF Consistent
<1>1. /\ intervention \in [Interventions -> InterventionRow]
      /\ \A j \in Interventions : intervention[j].status = d.intervention[j].status
  BY <1>0, ZenonT(60) DEF Database, InterventionRow
<1>2. ASSUME NEW t \in Tasks
      PROVE  task[t] \in TaskRow /\ task[t].intervention = d.task[t].intervention
  <2>1. d.task[t] \in TaskRow
    BY <1>0 DEF Database
  <2>2. \A mode : TaskAfterAction(d.task[t].status, mode) \in TaskStatuses =>
            LET row == Tagged(d.task[t], mode)
            IN row \in TaskRow /\ row.intervention = d.task[t].intervention
    BY <2>1 DEF TaskRow, Tagged
  <2>3. t \in DOMAIN tags => TaskAfterAction(d.task[t].status, tags[t]) \in TaskStatuses
    BY DEF TaskAfterAction
  <2> QED BY <2>1, <2>2, <2>3
<1>3. e = [d EXCEPT !.intervention = intervention, !.task = task]
  BY <1>0 DEF TagTx, Database
<1>4. task \in [Tasks -> TaskRow]
  BY <1>2
<1> HIDE DEF intervention, task, e
<1>5. /\ e \in Database
      /\ e.request = d.request /\ e.intervention = intervention
      /\ e.occurrence = d.occurrence /\ e.task = task
  BY <1>0, <1>1, <1>3, <1>4 DEF Database
<1>6. Consistent(e)
  BY <1>1, <1>2, <1>5, FewerReferences
<1> QED BY <1>6 DEF e

LEMMA ActionConsistent ==
    ASSUME NEW d, Consistent(d), NEW t \in Tasks, NEW mode \in TaskStatuses,
           d.task[t].status \in TaskStatuses
    PROVE  Consistent(ActionTx(d, t, mode))
<1> DEFINE tags == [u \in {t} |-> mode]
<1>1. DOMAIN tags = {t} /\ tags[t] = mode
  OBVIOUS
<1>2. ActionTx(d, t, mode) = TagTx(d, d.task[t].intervention, tags)
  BY DEF ActionTx
<1> HIDE DEF tags
<1> QED BY <1>1, <1>2, TagConsistent

LEMMA EmptyConsistent == Consistent(EmptyDatabase)
<1>1. 0 \in 0 .. MaxClosings /\ \A i \in Interventions : i # Null
  BY TablesAssumption
<1>2. EmptyDatabase \in Database
  BY <1>1 DEF EmptyDatabase, Database, NoRequest, RequestRow, NoIntervention,
      InterventionRow, NoOccurrence, OccurrenceRow, NoTask, TaskRow
<1>3. AcceptedOpen(EmptyDatabase) /\ ReferencesLive(EmptyDatabase)
  BY <1>1 DEF EmptyDatabase, AcceptedOpen, ReferencesLive, RequestsLinkedTo,
      NoRequest, NoOccurrence, NoTask
<1> QED BY <1>2, <1>3 DEF Consistent

------------------------------------------------------------------------------
(* The transactions close a preventive intervention only once its gamme is done *)

GammeChecked(d, e) ==
    \A i \in Interventions :
        (/\ d.intervention[i].plan
         /\ d.intervention[i].status # "ferme"
         /\ e.intervention[i].status = "ferme") => ~Blocking(d, i)

\* Most transactions do not write the intervention table.
LEMMA ArrivalsUntouched ==
    ASSUME NEW d \in Database, NEW r \in Requests, NEW o \in Occurrences
    PROVE  /\ InsertRequest(d, r).intervention = d.intervention
           /\ GenerateTx(d, o, r).intervention = d.intervention
           /\ SkipTx(d, o).intervention = d.intervention
<1>1. InsertRequest(d, r).intervention = d.intervention
  BY InsertRequestEffect
<1>2. GenerateTx(d, o, r).intervention = InsertRequest(d, r).intervention
  BY InsertRequestEffect DEF GenerateTx, Database
<1>3. SkipTx(d, o).intervention = d.intervention
  BY DEF SkipTx, Database
<1> QED BY <1>1, <1>2, <1>3

LEMMA DecisionsUntouched ==
    ASSUME NEW d \in Database, NEW r \in Requests, NEW late
    PROVE  /\ HoldTx(d, r, late).intervention = d.intervention
           /\ RejectTx(d, r, late).intervention = d.intervention
<1>1. \A c, to : c \in Database => LogRequest(c, r, to, late).intervention = c.intervention
  BY DEF LogRequest, Database
<1>2. HoldTx(d, r, late).intervention = d.intervention
  BY <1>1 DEF HoldTx
<1>3. RejectTx(d, r, late).intervention = d.intervention
  BY DEF RejectTx, LogRequest, Database
<1> QED BY <1>2, <1>3

LEMMA TaskTxUntouched ==
    ASSUME NEW d \in Database, NEW t \in Tasks, NEW i, NEW optional, NEW s
    PROVE  /\ CreateTaskTx(d, t, i, optional).intervention = d.intervention
           /\ PatchTaskTx(d, t, s).intervention = d.intervention
           /\ DeleteTaskTx(d, t).intervention = d.intervention
           /\ \A j \in Interventions :
                  ActionTx(d, t, s).intervention[j].status = d.intervention[j].status
<1>1. CreateTaskTx(d, t, i, optional).intervention = d.intervention
  BY DEF CreateTaskTx, Database
<1>2. PatchTaskTx(d, t, s).intervention = d.intervention
  BY DEF PatchTaskTx, Database
<1>3. DeleteTaskTx(d, t).intervention = d.intervention
  BY DEF DeleteTaskTx, Database
<1>4. ASSUME NEW j \in Interventions
      PROVE  ActionTx(d, t, s).intervention[j].status = d.intervention[j].status
  <2> DEFINE tags == [u \in {t} |-> s]
  <2>1. ActionTx(d, t, s) = TagTx(d, d.task[t].intervention, tags)
    BY DEF ActionTx
  <2> HIDE DEF tags
  <2>2. Acted(d, ActionTx(d, t, s), d.task[t].intervention, DOMAIN tags)
    BY <2>1, TagRow
  <2> QED BY <2>2 DEF Acted
<1> QED BY <1>1, <1>2, <1>3, <1>4

LEMMA CascadeUntouched ==
    ASSUME NEW d \in Database, NEW i \in Interventions, NEW r \in Requests \cup {Null},
           NEW relink \in BOOLEAN, NEW di, NEW late, relink => r # Null
    PROVE  CascadeTx(d, i, r, relink, di, late).intervention = d.intervention
<1> DEFINE linked == IF relink THEN LinkTo(d, r, i) ELSE d
           closed == IF r = Null THEN d ELSE LogRequest(linked, r, "cloturee", late)
<1>1. linked \in Database /\ linked.intervention = d.intervention
  BY LinkEffect
<1> HIDE DEF linked
<1>2. closed \in Database /\ closed.intervention = d.intervention
  BY <1>1, LogRequestEffect DEF Statuts
<1>3. CascadeTx(d, i, r, relink, di, late) = CompleteOccurrences(closed, i, di)
  BY DEF CascadeTx, linked
<1> HIDE DEF closed
<1> QED BY <1>2, <1>3, CompleteOccurrencesEffect

LEMMA TakeInChargeOpens ==
    ASSUME NEW d \in Database, NEW r \in Requests, NEW i \in Interventions,
           NEW planned \in BOOLEAN, NEW o \in Occurrences \cup {Null}, NEW late
    PROVE  LET e == TakeInCharge(d, r, i, planned, o, late) IN
           /\ e.intervention[i].status = "ouvert"
           /\ \A j \in Interventions : j # i => e.intervention[j] = d.intervention[j]
<1> DEFINE inserted == InsertIntervention(d, i, planned)
           logged == LogRequest(inserted, r, "acceptee", late)
           linked == LinkTo(logged, r, i)
<1>1. /\ inserted \in Database
      /\ inserted.intervention[i].status = "ouvert"
      /\ \A j \in Interventions : j # i => inserted.intervention[j] = d.intervention[j]
  BY InsertInterventionEffect
<1> HIDE DEF inserted
<1>2. logged \in Database /\ logged.intervention = inserted.intervention
  BY <1>1, LogRequestEffect DEF Statuts
<1> HIDE DEF logged
<1>3. linked \in Database /\ linked.intervention = logged.intervention
  BY <1>2, LinkEffect
<1> HIDE DEF linked
<1>4. AttachOccurrence(linked, o, i).intervention = linked.intervention
  BY <1>3, AttachOccurrenceEffect
<1>5. TakeInCharge(d, r, i, planned, o, late) = AttachOccurrence(linked, o, i)
  BY DEF TakeInCharge, inserted, logged, linked
<1> QED BY <1>1, <1>2, <1>3, <1>4, <1>5

LEMMA SyncGammeChecked ==
    ASSUME NEW d \in Database, NEW i \in Interventions,
           NEW s \in InterventionStatuses, NEW late, ~GammeIncomplete(d, i, s)
    PROVE  GammeChecked(d, SyncStatusLog(d, i, s, late))
BY SyncStatusLogEffect DEF GammeChecked, GammeIncomplete

LEMMA UpdateGammeChecked ==
    ASSUME NEW d \in Database, NEW i \in Interventions,
           NEW s \in InterventionStatuses, NEW late, ~UpdateRefused(d, i, s)
    PROVE  GammeChecked(d, UpdateStatus(d, i, s, late))
<1>1. CASE d.intervention[i].status = s
  BY <1>1 DEF UpdateStatus, GammeChecked
<1>2. CASE d.intervention[i].status # s
  BY <1>2, SyncGammeChecked DEF UpdateStatus, UpdateRefused, InsertLogRefused
<1> QED BY <1>1, <1>2

LEMMA CloseGammeChecked ==
    ASSUME NEW d, Consistent(d), NEW r \in Requests,
           NEW i \in Interventions \cup {Null}, NEW late, ~CloseRefused(d, i)
    PROVE  GammeChecked(d, CloseTx(d, r, i, late))
<1> DEFINE linked == CloseLinked(d, i, late)
           completed == CompleteOccurrences(linked, i, r)
<1>0. d \in Database
  BY DEF Consistent
<1>1. linked \in Database /\ GammeChecked(d, linked)
  <2>1. CASE i # Null /\ LiveIntervention(d, i)
    <3>1. i \in Interventions /\ ~UpdateRefused(d, i, "ferme") /\ "ferme" \in InterventionStatuses
      BY <2>1 DEF CloseRefused, InterventionStatuses
    <3>2. Consistent(UpdateStatus(d, i, "ferme", late))
      BY <3>1, UpdateStatusConsistent
    <3>3. GammeChecked(d, UpdateStatus(d, i, "ferme", late))
      BY <1>0, <3>1, UpdateGammeChecked
    <3> QED BY <2>1, <3>2, <3>3 DEF CloseLinked, Consistent
  <2>2. CASE ~(i # Null /\ LiveIntervention(d, i))
    BY <1>0, <2>2 DEF CloseLinked, GammeChecked
  <2> QED BY <2>1, <2>2
<1> HIDE DEF linked
<1>2. completed \in Database /\ completed.intervention = linked.intervention
  BY <1>1, CompleteOccurrencesEffect
<1> HIDE DEF completed
<1>3. LogRequest(completed, r, "cloturee", late).intervention = linked.intervention
  BY <1>2, LogRequestEffect DEF Statuts
<1>4. CloseTx(d, r, i, late) = LogRequest(completed, r, "cloturee", late)
  BY DEF CloseTx, linked, completed
<1> QED BY <1>1, <1>3, <1>4 DEF GammeChecked

LEMMA DeleteGammeChecked ==
    ASSUME NEW d \in Database, NEW i \in Interventions
    PROVE  GammeChecked(d, DeleteInterventionTx(d, i))
<1>1. \A j \in Interventions :
          DeleteInterventionTx(d, i).intervention[j].status
              \in {d.intervention[j].status, "deleted"}
  BY DEF DeleteInterventionTx, NoIntervention, Database
<1> QED BY <1>1 DEF GammeChecked

------------------------------------------------------------------------------
(* The transactions take no task away from its intervention *)

\* What e keeps of the tasks of d: a task moves only from no intervention to one,
\* with its occurrence, unless it is deleted, created by hand or generated.
TasksHeld(d, e) ==
    /\ \A o \in Occurrences :
           e.occurrence[o].status = "none" => d.occurrence[o].status = "none"
    /\ \A t \in Tasks :
           \/ /\ e.task[t].occurrence = d.task[t].occurrence
              /\ \/ e.task[t].intervention = d.task[t].intervention
                 \/ d.task[t].occurrence # Null /\ d.task[t].intervention = Null
           \/ /\ e.task[t].occurrence = Null
              /\ e.task[t].intervention = Null
              /\ e.task[t].status = "deleted"
           \/ t \in ManualTasks /\ d.task[t].intervention = Null
           \/ /\ t \in PlanTasks
              /\ d.occurrence[t[1]].status = "none"
              /\ e.occurrence[t[1]].status # "none"

\* Most transactions write no task.
LEMMA SameTasksHeld ==
    ASSUME NEW d, NEW e, e.task = d.task,
           \A o \in Occurrences :
               e.occurrence[o].status = "none" => d.occurrence[o].status = "none"
    PROVE  TasksHeld(d, e)
BY DEF TasksHeld

LEMMA SyncTasksHeld ==
    ASSUME NEW d \in Database, NEW i \in Interventions,
           NEW s \in InterventionStatuses, NEW late
    PROVE  TasksHeld(d, SyncStatusLog(d, i, s, late))
BY SyncRows, SyncStatusLogEffect, SameTasksHeld

LEMMA UpdateTasksHeld ==
    ASSUME NEW d \in Database, NEW i \in Interventions,
           NEW s \in InterventionStatuses, NEW late
    PROVE  TasksHeld(d, UpdateStatus(d, i, s, late))
BY SyncTasksHeld, SameTasksHeld DEF UpdateStatus

LEMMA DecisionTasksHeld ==
    ASSUME NEW d \in Database, NEW r \in Requests, NEW late
    PROVE  /\ TasksHeld(d, HoldTx(d, r, late))
           /\ TasksHeld(d, RejectTx(d, r, late))
           /\ TasksHeld(d, InsertRequest(d, r))
<1>1. TasksHeld(d, HoldTx(d, r, late))
  BY LogRequestEffect, SameTasksHeld DEF HoldTx, Statuts
<1>2. TasksHeld(d, RejectTx(d, r, late))
  BY RejectRows, SameTasksHeld
<1>3. TasksHeld(d, InsertRequest(d, r))
  BY InsertRequestEffect, SameTasksHeld
<1> QED BY <1>1, <1>2, <1>3

LEMMA CloseTasksHeld ==
    ASSUME NEW d, Consistent(d), NEW r \in Requests,
           NEW i \in Interventions \cup {Null}, NEW late
    PROVE  TasksHeld(d, CloseTx(d, r, i, late))
<1> DEFINE linked == CloseLinked(d, i, late)
           completed == CompleteOccurrences(linked, i, r)
           closed == LogRequest(completed, r, "cloturee", late)
           none(c) == \A o \in Occurrences :
                          c.occurrence[o].status = "none" => d.occurrence[o].status = "none"
<1>0. d \in Database
  BY DEF Consistent
<1>1. linked \in Database /\ linked.task = d.task /\ none(linked)
  <2>1. CASE i # Null /\ LiveIntervention(d, i)
    <3>1. i \in Interventions /\ "ferme" \in InterventionStatuses
      BY <2>1 DEF InterventionStatuses
    <3>2. /\ SyncStatusLog(d, i, "ferme", late) \in Database
          /\ SyncStatusLog(d, i, "ferme", late).task = d.task
          /\ none(SyncStatusLog(d, i, "ferme", late))
      BY <1>0, <3>1, SyncStatusLogEffect, SyncRows
    <3> QED BY <1>0, <2>1, <3>2 DEF CloseLinked, UpdateStatus
  <2>2. CASE ~(i # Null /\ LiveIntervention(d, i))
    BY <1>0, <2>2 DEF CloseLinked
  <2> QED BY <2>1, <2>2
<1> HIDE DEF linked
<1>2. completed \in Database /\ completed.task = d.task /\ none(completed)
  BY <1>1, CompleteOccurrencesEffect, CompleteRows
<1> HIDE DEF completed
<1>3. closed.task = d.task /\ none(closed)
  BY <1>2, LogRequestEffect DEF Statuts
<1>4. CloseTx(d, r, i, late) = closed
  BY DEF CloseTx, linked, completed
<1> HIDE DEF closed
<1> QED BY <1>3, <1>4, SameTasksHeld

LEMMA CascadeTasksHeld ==
    ASSUME NEW d \in Database, NEW i \in Interventions, NEW r \in Requests \cup {Null},
           NEW relink \in BOOLEAN, NEW di, NEW late, relink => r # Null
    PROVE  TasksHeld(d, CascadeTx(d, i, r, relink, di, late))
<1> DEFINE linked == IF relink THEN LinkTo(d, r, i) ELSE d
           closed == IF r = Null THEN d ELSE LogRequest(linked, r, "cloturee", late)
           completed == CompleteOccurrences(closed, i, di)
<1>1. /\ linked \in Database
      /\ linked.task = d.task
      /\ linked.occurrence = d.occurrence
  BY LinkEffect
<1> HIDE DEF linked
<1>2. /\ closed \in Database
      /\ closed.task = d.task
      /\ closed.occurrence = d.occurrence
  BY <1>1, LogRequestEffect DEF Statuts
<1>3. CascadeTx(d, i, r, relink, di, late) = completed
  BY DEF CascadeTx, linked
<1> HIDE DEF closed
<1>4. /\ completed.task = d.task
      /\ \A o \in Occurrences :
             completed.occurrence[o].status = "none" => d.occurrence[o].status = "none"
  BY <1>2, CompleteOccurrencesEffect, CompleteRows
<1> HIDE DEF completed
<1> QED BY <1>3, <1>4, SameTasksHeld

\* The tasks the intervention takes are those of the occurrence that have none.
LEMMA TakenTasksHeld ==
    ASSUME NEW d \in Database, NEW r \in Requests, NEW i \in Interventions,
           NEW planned \in BOOLEAN, NEW o \in Occurrences \cup {Null}, NEW late
    PROVE  TasksHeld(d, TakeInCharge(d, r, i, planned, o, late))
<1> DEFINE e == TakeInCharge(d, r, i, planned, o, late)
<1>1. Taken(d, e, r, i, planned, o, late)
  BY TakeInChargeRows
<1> SUFFICES TasksHeld(d, e)
  OBVIOUS
<1> HIDE DEF e
<1>2. /\ \A p \in Occurrences : p # o => e.occurrence[p] = d.occurrence[p]
      /\ o # Null => e.occurrence[o].status = "in_progress"
      /\ o = Null => e.task = d.task
      /\ \A t \in Tasks :
             /\ e.task[t].occurrence = d.task[t].occurrence
             /\ o # Null =>
                   e.task[t].intervention =
                       IF d.task[t].occurrence = o /\ d.task[t].intervention = Null
                       THEN i ELSE d.task[t].intervention
  BY <1>1, Zenon DEF Taken
<1>3. CASE o = Null
  <2>1. \A p \in Occurrences : p # o
    BY <1>3, TablesAssumption
  <2>2. \A p \in Occurrences : e.occurrence[p] = d.occurrence[p]
    BY <1>2, <2>1, Zenon
  <2>3. e.task = d.task
    BY <1>2, <1>3
  <2> QED BY <2>2, <2>3, SameTasksHeld
<1>4. CASE o \in Occurrences
  <2>1. o # Null
    BY <1>4, TablesAssumption
  <2>2. ASSUME NEW p \in Occurrences, e.occurrence[p].status = "none"
        PROVE  d.occurrence[p].status = "none"
    <3>1. CASE p = o
      BY <1>2, <2>1, <2>2, <3>1
    <3>2. CASE p # o
      BY <1>2, <2>2, <3>2
    <3> QED BY <3>1, <3>2
  <2>3. ASSUME NEW t \in Tasks
        PROVE  /\ e.task[t].occurrence = d.task[t].occurrence
               /\ \/ e.task[t].intervention = d.task[t].intervention
                  \/ d.task[t].occurrence # Null /\ d.task[t].intervention = Null
    BY <1>2, <2>1
  <2> QED BY <2>2, <2>3 DEF TasksHeld
<1> QED BY <1>3, <1>4

LEMMA GenerateTasksHeld ==
    ASSUME NEW d \in Database, NEW o \in Occurrences, NEW r \in Requests,
           d.occurrence[o].status = "none"
    PROVE  TasksHeld(d, GenerateTx(d, o, r))
<1> DEFINE e == GenerateTx(d, o, r)
<1>1. /\ \A p \in Occurrences : p # o => e.occurrence[p] = d.occurrence[p]
      /\ e.occurrence[o].status = "generated"
      /\ \A t \in Tasks : t \notin {o} \X Steps => e.task[t] = d.task[t]
  BY GenerateRows
<1> HIDE DEF e
<1>2. \A t \in {o} \X Steps : t \in PlanTasks /\ t[1] = o
  BY DEF PlanTasks
<1>3. TasksHeld(d, e)
  BY <1>1, <1>2 DEF TasksHeld
<1> QED BY <1>3 DEF e

LEMMA SkipTasksHeld ==
    ASSUME NEW d \in Database, NEW o \in Occurrences
    PROVE  TasksHeld(d, SkipTx(d, o))
<1>1. /\ SkipTx(d, o).task = d.task
      /\ \A p \in Occurrences :
             SkipTx(d, o).occurrence[p].status \in {d.occurrence[p].status, "skipped"}
  BY DEF SkipTx, Database, OccurrenceRow
<1> QED BY <1>1, SameTasksHeld

LEMMA DeleteTasksHeld ==
    ASSUME NEW d \in Database, NEW i \in Interventions
    PROVE  TasksHeld(d, DeleteInterventionTx(d, i))
BY DeleteRows, SameTasksHeld

\* A task row that is written, or created by hand, and no other.
LEMMA OneTaskHeld ==
    ASSUME NEW d, NEW e, NEW t \in Tasks,
           e.occurrence = d.occurrence,
           \A u \in Tasks : u # t => e.task[u] = d.task[u],
           \/ /\ e.task[t].occurrence = d.task[t].occurrence
              /\ e.task[t].intervention = d.task[t].intervention
           \/ /\ e.task[t].occurrence = Null
              /\ e.task[t].intervention = Null
              /\ e.task[t].status = "deleted"
           \/ t \in ManualTasks /\ d.task[t].intervention = Null
    PROVE  TasksHeld(d, e)
BY DEF TasksHeld

LEMMA CreateTaskHeld ==
    ASSUME NEW d \in Database, NEW t \in ManualTasks, NEW i, NEW optional,
           d.task[t].intervention = Null
    PROVE  TasksHeld(d, CreateTaskTx(d, t, i, optional))
<1> DEFINE e == CreateTaskTx(d, t, i, optional)
<1>1. t \in Tasks
  BY DEF Tasks
<1>2. /\ e.occurrence = d.occurrence
      /\ \A u \in Tasks : u # t => e.task[u] = d.task[u]
  BY <1>1, TaskRows
<1> HIDE DEF e
<1>3. TasksHeld(d, e)
  BY <1>1, <1>2, OneTaskHeld
<1> QED BY <1>3 DEF e

LEMMA PatchTaskHeld ==
    ASSUME NEW d \in Database, NEW t \in Tasks, NEW s
    PROVE  TasksHeld(d, PatchTaskTx(d, t, s))
<1> DEFINE e == PatchTaskTx(d, t, s)
<1>1. /\ e.occurrence = d.occurrence
      /\ \A u \in Tasks : u # t => e.task[u] = d.task[u]
  BY TaskRows
<1>2. \/ /\ e.task[t].occurrence = d.task[t].occurrence
         /\ e.task[t].intervention = d.task[t].intervention
      \/ /\ e.task[t].occurrence = Null
         /\ e.task[t].intervention = Null
         /\ e.task[t].status = "deleted"
  BY PatchTaskRow
<1> HIDE DEF e
<1>3. TasksHeld(d, e)
  BY <1>1, <1>2, OneTaskHeld
<1> QED BY <1>3 DEF e

LEMMA DeleteTaskHeld ==
    ASSUME NEW d \in Database, NEW t \in Tasks
    PROVE  TasksHeld(d, DeleteTaskTx(d, t))
<1> DEFINE e == DeleteTaskTx(d, t)
<1>1. /\ e.occurrence = d.occurrence
      /\ \A u \in Tasks : u # t => e.task[u] = d.task[u]
  BY TaskRows
<1>2. \/ /\ e.task[t].occurrence = d.task[t].occurrence
         /\ e.task[t].intervention = d.task[t].intervention
      \/ /\ e.task[t].occurrence = Null
         /\ e.task[t].intervention = Null
         /\ e.task[t].status = "deleted"
  BY DeleteTaskRow
<1> HIDE DEF e
<1>3. TasksHeld(d, e)
  BY <1>1, <1>2, OneTaskHeld
<1> QED BY <1>3 DEF e

LEMMA ActionTaskHeld ==
    ASSUME NEW d \in Database, NEW t \in Tasks, NEW mode
    PROVE  TasksHeld(d, ActionTx(d, t, mode))
<1> DEFINE e == ActionTx(d, t, mode)
           tags == [u \in {t} |-> mode]
<1>1. DOMAIN tags = {t} /\ e = TagTx(d, d.task[t].intervention, tags)
  BY DEF ActionTx
<1> HIDE DEF tags
<1>2. Acted(d, e, d.task[t].intervention, {t})
  BY <1>1, TagRow
<1>3. /\ e.occurrence = d.occurrence
      /\ \A u \in Tasks : u # t => e.task[u] = d.task[u]
      /\ e.task[t].occurrence = d.task[t].occurrence
      /\ e.task[t].intervention = d.task[t].intervention
  BY <1>2 DEF Acted
<1> HIDE DEF e
<1>4. TasksHeld(d, e)
  BY <1>3, OneTaskHeld
<1> QED BY <1>4 DEF e

==============================================================================

----------------------- MODULE MaintenanceWorkflow_proofs -----------------------
(***************************************************************************)
(* Invariance proofs for MaintenanceWorkflow, for any number of requests,  *)
(* interventions, occurrences and tasks: what the endpoints guarantee when *)
(* every call runs alone.                                                  *)
(***************************************************************************)
EXTENDS MaintenanceWorkflow, MaintenanceTables_proofs

\* Nothing refers to an occurrence that was not generated.
FreshOccurrences ==
    \A o \in Occurrences :
        db.occurrence[o].status = "none" =>
            /\ db.occurrence[o].request = Null /\ db.occurrence[o].intervention = Null
            /\ \A s \in Steps : /\ db.task[<<o, s>>].occurrence = Null
                              /\ db.task[<<o, s>>].intervention = Null
            /\ \A t \in Tasks : db.task[t].occurrence # o

\* A request answers one occurrence at most.
OneOccurrencePerRequest ==
    \A o, p \in Occurrences :
        (db.occurrence[o].request = db.occurrence[p].request
            /\ db.occurrence[o].request # Null) => o = p

\* The properties are not inductive alone: to accept a request is to look for its
\* one occurrence, and to generate an occurrence is to find its id unused.
IInv ==
    /\ Consistent(db)
    /\ FreshOccurrences /\ OneOccurrencePerRequest
    /\ LinkedOnlyOnceAccepted /\ OneRequestPerIntervention
    /\ OccurrenceFollowsRequest /\ LogEndsInStatut
    /\ GammeFollowsOccurrence /\ ClosedGammeComplete /\ ActionKeepsTask

LEMMA InitInv == Init => IInv
<1> SUFFICES ASSUME Init PROVE IInv
  OBVIOUS
<1>1. /\ \A r \in Requests : db.request[r] = NoRequest
      /\ \A i \in Interventions : db.intervention[i] = NoIntervention
      /\ \A o \in Occurrences : db.occurrence[o] = NoOccurrence
      /\ \A t \in Tasks : db.task[t] = NoTask
  BY DEF Init, EmptyDatabase
<1>2. \A o \in Occurrences, s \in Steps : <<o, s>> \in Tasks
  BY DEF Tasks, PlanTasks
<1>3. Consistent(db)
  BY EmptyConsistent DEF Init
<1>4. /\ \A i \in Interventions : i # Null
      /\ \A o \in Occurrences : o # Null
  BY TablesAssumption
<1>5. FreshOccurrences /\ OneOccurrencePerRequest
  BY <1>1, <1>2, <1>4 DEF FreshOccurrences, OneOccurrencePerRequest, NoOccurrence, NoTask
<1>6. LinkedOnlyOnceAccepted /\ OneRequestPerIntervention /\ OccurrenceFollowsRequest /\ LogEndsInStatut
  BY <1>1, <1>4 DEF LinkedOnlyOnceAccepted, OneRequestPerIntervention, OccurrenceFollowsRequest,
      LogEndsInStatut, NoRequest, NoIntervention, NoOccurrence, LiveIntervention,
      InterventionStatuses, OpenStatuses
<1>7. GammeFollowsOccurrence /\ ClosedGammeComplete /\ ActionKeepsTask
  BY <1>1, <1>4 DEF GammeFollowsOccurrence, ClosedGammeComplete, ActionKeepsTask, NoIntervention, NoTask
<1> QED BY <1>3, <1>5, <1>6, <1>7 DEF IInv

LEMMA IInvStutters == IInv /\ UNCHANGED db => IInv'
<1> SUFFICES ASSUME IInv, db' = db PROVE IInv'
  OBVIOUS
<1>1. Consistent(db)'
  BY DEF IInv
<1>2. (FreshOccurrences /\ OneOccurrencePerRequest)'
  BY DEF IInv, FreshOccurrences, OneOccurrencePerRequest
<1>3. (LinkedOnlyOnceAccepted /\ OneRequestPerIntervention)'
  BY DEF IInv, LinkedOnlyOnceAccepted, OneRequestPerIntervention
<1>4. (OccurrenceFollowsRequest /\ LogEndsInStatut)'
  BY DEF IInv, OccurrenceFollowsRequest, LogEndsInStatut
<1>5. (GammeFollowsOccurrence /\ ClosedGammeComplete /\ ActionKeepsTask)'
  BY DEF IInv, GammeFollowsOccurrence, ClosedGammeComplete, ActionKeepsTask
<1> QED BY <1>1, <1>2, <1>3, <1>4, <1>5 DEF IInv

LEMMA Rows ==
    ASSUME IInv
    PROVE  /\ \A o \in Occurrences :
                  /\ db.occurrence[o].status \in OccurrenceStatuses \cup {"none"}
                  /\ db.occurrence[o].request \in Requests \cup {Null}
                  /\ db.occurrence[o].intervention \in Interventions \cup {Null}
           /\ \A r \in Requests : db.request[r].intervention \in Interventions \cup {Null}
           /\ \A t \in Tasks :
                  /\ db.task[t].occurrence \in Occurrences \cup {Null}
                  /\ db.task[t].intervention \in Interventions \cup {Null}
           /\ \A i \in Interventions : i # Null
           /\ \A o \in Occurrences : o # Null
           /\ \A r \in Requests : r # Null
BY TablesAssumption DEF IInv, Consistent, Database, OccurrenceRow, RequestRow, TaskRow

\* The occurrence of a request tells its status.
LEMMA RequestOfOccurrence ==
    ASSUME IInv, NEW o \in Occurrences, NEW r \in Requests, db.occurrence[o].request = r
    PROVE  \/ /\ db.occurrence[o].status = "generated"
              /\ db.request[r].statut \in {"nouvelle", "en_attente"}
           \/ /\ db.occurrence[o].status = "in_progress"
              /\ db.request[r].statut = "acceptee"
              /\ db.request[r].intervention = db.occurrence[o].intervention
           \/ /\ db.occurrence[o].status = "completed"
              /\ db.request[r].statut = "cloturee"
              /\ db.request[r].intervention = db.occurrence[o].intervention
BY Rows DEF IInv, OccurrenceFollowsRequest, FreshOccurrences, OccurrenceStatuses, ActiveOccurrence

Follows(o) ==
    LET occ == db.occurrence[o] IN
    /\ occ.status \in {"pending", "skipped"} => occ.request = Null /\ occ.intervention = Null
    /\ occ.status = "generated" =>
           /\ occ.request # Null /\ occ.intervention = Null
           /\ db.request[occ.request].statut \in {"nouvelle", "en_attente"}
    /\ occ.status \in {"in_progress", "completed"} =>
           /\ occ.request # Null
           /\ db.request[occ.request].intervention = occ.intervention
           /\ db.request[occ.request].statut =
                  (IF occ.status = "in_progress" THEN "acceptee" ELSE "cloturee")

\* An occurrence follows its request as long as neither row changes.
LEMMA StillFollows ==
    ASSUME NEW o \in Occurrences, Follows(o), db'.occurrence[o] = db.occurrence[o],
           db.occurrence[o].request # Null =>
               db'.request[db.occurrence[o].request] = db.request[db.occurrence[o].request]
    PROVE  Follows(o)'
BY DEF Follows

LEMMA CreateRequestInv ==
    ASSUME IInv, NEW r \in Requests, CreateRequest(r)
    PROVE  IInv'
<1>1. /\ db'.intervention = db.intervention
      /\ db'.occurrence = db.occurrence
      /\ db'.task = db.task
      /\ \A q \in Requests : q # r => db'.request[q] = db.request[q]
      /\ db'.request[r].statut = "nouvelle"
      /\ db'.request[r].logged = "nouvelle"
      /\ db'.request[r].intervention = Null
  BY InsertRequestEffect DEF IInv, Consistent, CreateRequest
<1>2. db.request[r].statut = "none" /\ db.request[r].intervention = Null
  BY DEF CreateRequest, NoRequest
<1>3. \A o \in Occurrences : db.occurrence[o].request # r
  BY <1>2, RequestOfOccurrence
<1>4. Consistent(db)'
  BY InsertRequestConsistent DEF IInv, CreateRequest
<1>5. (FreshOccurrences /\ OneOccurrencePerRequest)'
  BY <1>1 DEF IInv, FreshOccurrences, OneOccurrencePerRequest
<1>6. (LinkedOnlyOnceAccepted /\ OneRequestPerIntervention)'
  BY <1>1, <1>2, Rows DEF IInv, LinkedOnlyOnceAccepted, OneRequestPerIntervention,
     RequestsLinkedTo, LiveIntervention
<1>7. (OccurrenceFollowsRequest /\ LogEndsInStatut)'
  <2>1. LogEndsInStatut'
    BY <1>1 DEF IInv, LogEndsInStatut
  <2>2. OccurrenceFollowsRequest'
    <3> SUFFICES ASSUME NEW o \in Occurrences PROVE Follows(o)'
      BY DEF OccurrenceFollowsRequest, Follows
    <3>1. Follows(o)
      BY DEF IInv, OccurrenceFollowsRequest, Follows
    <3>2. /\ db'.occurrence[o] = db.occurrence[o]
          /\ db.occurrence[o].request # Null =>
                 db'.request[db.occurrence[o].request] = db.request[db.occurrence[o].request]
      BY <1>1, <1>3, Rows
    <3> QED BY <3>1, <3>2, StillFollows
  <2> QED BY <2>1, <2>2
<1>8. (GammeFollowsOccurrence /\ ClosedGammeComplete /\ ActionKeepsTask)'
  BY <1>1 DEF IInv, GammeFollowsOccurrence, ClosedGammeComplete, ActionKeepsTask, Blocking
<1> QED BY <1>4, <1>5, <1>6, <1>7, <1>8 DEF IInv

LEMMA GenerateInv ==
    ASSUME IInv, NEW o \in Occurrences, NEW r \in Requests, Generate(o, r)
    PROVE  IInv'
<1>1. /\ db'.intervention = db.intervention
      /\ \A q \in Requests : q # r => db'.request[q] = db.request[q]
      /\ db'.request[r].statut = "nouvelle"
      /\ db'.request[r].logged = "nouvelle"
      /\ db'.request[r].intervention = Null
      /\ \A p \in Occurrences : p # o => db'.occurrence[p] = db.occurrence[p]
      /\ db'.occurrence[o].status = "generated"
      /\ db'.occurrence[o].request = r
      /\ db'.occurrence[o].intervention = Null
      /\ \A t \in Tasks :
             /\ t \in {o} \X Steps => /\ db'.task[t].occurrence = o
                                      /\ db'.task[t].intervention = Null
             /\ t \notin {o} \X Steps => db'.task[t] = db.task[t]
  BY InsertRequestEffect, GenerateRows DEF IInv, Consistent, Generate
<1>2. /\ db.request[r].statut = "none" /\ db.request[r].intervention = Null
      /\ db.occurrence[o].status = "none"
  BY DEF Generate, NoRequest, NoOccurrence
<1>3. \A p \in Occurrences : db.occurrence[p].request # r
  BY <1>2, RequestOfOccurrence
<1>4. /\ \A t \in Tasks : db.task[t].occurrence # o
      /\ \A t \in {o} \X Steps : t \in Tasks /\ db.task[t].intervention = Null
  BY <1>2 DEF IInv, FreshOccurrences, Tasks, PlanTasks
<1>5. Consistent(db)'
  BY GenerateConsistent DEF IInv, Generate
<1>6. FreshOccurrences'
  <2> SUFFICES ASSUME NEW p \in Occurrences, db'.occurrence[p].status = "none"
               PROVE  /\ db'.occurrence[p].request = Null
                      /\ db'.occurrence[p].intervention = Null
                      /\ \A s \in Steps : /\ db'.task[<<p, s>>].occurrence = Null
                                        /\ db'.task[<<p, s>>].intervention = Null
                      /\ \A t \in Tasks : db'.task[t].occurrence # p
    BY DEF FreshOccurrences
  <2>1. p # o /\ db'.occurrence[p] = db.occurrence[p]
    BY <1>1
  <2>2. \A s \in Steps : <<p, s>> \in Tasks /\ <<p, s>> \notin {o} \X Steps
    BY <2>1 DEF Tasks, PlanTasks
  <2> QED BY <1>1, <2>1, <2>2 DEF IInv, FreshOccurrences
<1>7. OneOccurrencePerRequest'
  BY <1>1, <1>3 DEF IInv, OneOccurrencePerRequest
<1>8. (LinkedOnlyOnceAccepted /\ OneRequestPerIntervention)'
  BY <1>1, <1>2, Rows DEF IInv, LinkedOnlyOnceAccepted, OneRequestPerIntervention,
     RequestsLinkedTo, LiveIntervention
<1>9. (OccurrenceFollowsRequest /\ LogEndsInStatut)'
  <2>1. LogEndsInStatut'
    BY <1>1 DEF IInv, LogEndsInStatut
  <2>2. OccurrenceFollowsRequest'
    <3> SUFFICES ASSUME NEW p \in Occurrences
                 PROVE  Follows(p)'
      BY DEF OccurrenceFollowsRequest, Follows
    <3>1. CASE p = o
      BY <1>1, <3>1, Rows DEF Follows
    <3>2. CASE p # o
      <4>1. /\ Follows(p) /\ db'.occurrence[p] = db.occurrence[p]
            /\ db.occurrence[p].request # r
        BY <1>1, <1>3, <3>2 DEF IInv, OccurrenceFollowsRequest, Follows
      <4>2. \/ db.occurrence[p].request = Null
            \/ db'.request[db.occurrence[p].request] = db.request[db.occurrence[p].request]
        BY <1>1, <4>1, Rows
      <4> QED BY <4>1, <4>2, Rows DEF Follows
    <3> QED BY <3>1, <3>2
  <2> QED BY <2>1, <2>2
<1>10. GammeFollowsOccurrence'
  BY <1>1, <1>4, Rows DEF IInv, GammeFollowsOccurrence
<1>11. ClosedGammeComplete'
  BY <1>1, Rows DEF IInv, ClosedGammeComplete, Blocking
<1>12. ActionKeepsTask'
  BY <1>1, <1>4, Rows DEF IInv, ActionKeepsTask
<1> QED BY <1>5, <1>6, <1>7, <1>8, <1>9, <1>10, <1>11, <1>12 DEF IInv

LEMMA SkipInv ==
    ASSUME IInv, NEW o \in Occurrences, Skip(o)
    PROVE  IInv'
<1>1. /\ db'.request = db.request
      /\ db'.intervention = db.intervention
      /\ db'.task = db.task
      /\ \A p \in Occurrences : p # o => db'.occurrence[p] = db.occurrence[p]
      /\ db'.occurrence[o].status = "skipped"
      /\ db'.occurrence[o].request = db.occurrence[o].request
      /\ db'.occurrence[o].intervention = db.occurrence[o].intervention
  BY DEF IInv, Consistent, Skip, SkipTx, Database, OccurrenceRow
<1>2. db.occurrence[o].status = "pending"
  BY DEF Skip
<1>3. Consistent(db)'
  BY SkipConsistent DEF IInv, Skip
<1>4. (FreshOccurrences /\ OneOccurrencePerRequest)'
  BY <1>1 DEF IInv, FreshOccurrences, OneOccurrencePerRequest
<1>5. (LinkedOnlyOnceAccepted /\ OneRequestPerIntervention /\ LogEndsInStatut)'
  BY <1>1 DEF IInv, LinkedOnlyOnceAccepted, OneRequestPerIntervention,
     RequestsLinkedTo, LiveIntervention, LogEndsInStatut
<1>6. OccurrenceFollowsRequest'
  BY <1>1, <1>2 DEF IInv, OccurrenceFollowsRequest
<1>7. (GammeFollowsOccurrence /\ ClosedGammeComplete /\ ActionKeepsTask)'
  <2>1. GammeFollowsOccurrence'
    <3>1. \A p \in Occurrences : db'.occurrence[p].intervention = db.occurrence[p].intervention
      BY <1>1
    <3> QED BY <1>1, <3>1, Rows DEF IInv, GammeFollowsOccurrence
  <2>2. ClosedGammeComplete'
    BY <1>1 DEF IInv, ClosedGammeComplete, Blocking
  <2>3. ActionKeepsTask'
    BY <1>1 DEF IInv, ActionKeepsTask
  <2> QED BY <2>1, <2>2, <2>3
<1> QED BY <1>3, <1>4, <1>5, <1>6, <1>7 DEF IInv

LEMMA HoldInv ==
    ASSUME IInv, NEW r \in Requests, Hold(r)
    PROVE  IInv'
<1>1. /\ db'.intervention = db.intervention
      /\ db'.occurrence = db.occurrence
      /\ db'.task = db.task
      /\ \A q \in Requests : q # r => db'.request[q] = db.request[q]
      /\ db'.request[r].statut = "en_attente"
      /\ db'.request[r].logged = "en_attente"
      /\ db'.request[r].intervention = db.request[r].intervention
  BY LogRequestEffect DEF IInv, Consistent, Hold, HoldTx, Statuts
<1>2. db.request[r].statut = "nouvelle"
  BY DEF Hold, TransitionValid, AllowedTransitions, Statuts
<1>3. db.request[r].intervention = Null
  BY <1>2 DEF IInv, LinkedOnlyOnceAccepted
<1>4. Consistent(db)'
  BY HoldConsistent DEF IInv, Hold
<1>5. (FreshOccurrences /\ OneOccurrencePerRequest)'
  BY <1>1 DEF IInv, FreshOccurrences, OneOccurrencePerRequest
<1>6. (LinkedOnlyOnceAccepted /\ OneRequestPerIntervention)'
  BY <1>1, <1>3, Rows DEF IInv, LinkedOnlyOnceAccepted, OneRequestPerIntervention,
     RequestsLinkedTo, LiveIntervention
<1>7. (OccurrenceFollowsRequest /\ LogEndsInStatut)'
  <2>1. \A o \in Occurrences : db.occurrence[o].request = r => db.occurrence[o].status = "generated"
    BY <1>2, RequestOfOccurrence
  <2>2. LogEndsInStatut'
    BY <1>1 DEF IInv, LogEndsInStatut
  <2>3. OccurrenceFollowsRequest'
    <3> SUFFICES ASSUME NEW o \in Occurrences PROVE Follows(o)'
      BY DEF OccurrenceFollowsRequest, Follows
    <3>1. Follows(o)
      BY DEF IInv, OccurrenceFollowsRequest, Follows
    <3>2. CASE db.occurrence[o].request = r
      BY <1>1, <2>1, <3>1, <3>2 DEF Follows
    <3>3. CASE db.occurrence[o].request # r
      <4>1. /\ db'.occurrence[o] = db.occurrence[o]
            /\ db.occurrence[o].request # Null =>
                   db'.request[db.occurrence[o].request] = db.request[db.occurrence[o].request]
        BY <1>1, <3>3, Rows
      <4> QED BY <3>1, <4>1, StillFollows
    <3> QED BY <3>2, <3>3
  <2> QED BY <2>2, <2>3
<1>8. (GammeFollowsOccurrence /\ ClosedGammeComplete /\ ActionKeepsTask)'
  BY <1>1 DEF IInv, GammeFollowsOccurrence, ClosedGammeComplete, ActionKeepsTask, Blocking
<1> QED BY <1>4, <1>5, <1>6, <1>7, <1>8 DEF IInv

LEMMA RejectInv ==
    ASSUME IInv, NEW r \in Requests, Reject(r)
    PROVE  IInv'
<1>1. /\ db'.intervention = db.intervention
      /\ db'.task = db.task
      /\ \A q \in Requests : q # r => db'.request[q] = db.request[q]
      /\ db'.request[r].statut = "rejetee"
      /\ db'.request[r].logged = "rejetee"
      /\ db'.request[r].intervention = db.request[r].intervention
      /\ \A o \in Occurrences :
             /\ db'.occurrence[o].intervention = db.occurrence[o].intervention
             /\ db.occurrence[o].request # r => db'.occurrence[o] = db.occurrence[o]
             /\ db.occurrence[o].request = r => /\ db'.occurrence[o].request = Null
                                                /\ db'.occurrence[o].status = "pending"
  BY RejectRows DEF IInv, Consistent, Reject
<1>2. db.request[r].statut \in {"nouvelle", "en_attente"}
  BY DEF Reject, TransitionValid, AllowedTransitions, Statuts
<1>3. db.request[r].intervention = Null
  BY <1>2 DEF IInv, LinkedOnlyOnceAccepted
<1>4. Consistent(db)'
  BY RejectConsistent DEF IInv, Reject
<1>5. (FreshOccurrences /\ OneOccurrencePerRequest)'
  BY <1>1, Rows DEF IInv, FreshOccurrences, OneOccurrencePerRequest
<1>6. (LinkedOnlyOnceAccepted /\ OneRequestPerIntervention)'
  BY <1>1, <1>3, Rows DEF IInv, LinkedOnlyOnceAccepted, OneRequestPerIntervention,
     RequestsLinkedTo, LiveIntervention
<1>7. (OccurrenceFollowsRequest /\ LogEndsInStatut)'
  <2>1. \A o \in Occurrences :
            db.occurrence[o].request = r => /\ db.occurrence[o].status = "generated"
                                            /\ db.occurrence[o].intervention = Null
    BY <1>2, RequestOfOccurrence DEF IInv, OccurrenceFollowsRequest
  <2>2. LogEndsInStatut'
    BY <1>1 DEF IInv, LogEndsInStatut
  <2>3. OccurrenceFollowsRequest'
    <3> SUFFICES ASSUME NEW o \in Occurrences PROVE Follows(o)'
      BY DEF OccurrenceFollowsRequest, Follows
    <3>1. Follows(o)
      BY DEF IInv, OccurrenceFollowsRequest, Follows
    <3>2. CASE db.occurrence[o].request = r
      BY <1>1, <2>1, <3>2 DEF Follows
    <3>3. CASE db.occurrence[o].request # r
      <4>1. /\ db'.occurrence[o] = db.occurrence[o]
            /\ db.occurrence[o].request # Null
                   => db'.request[db.occurrence[o].request] = db.request[db.occurrence[o].request]
        BY <1>1, <3>3, Rows
      <4> QED BY <3>1, <4>1, StillFollows
    <3> QED BY <3>2, <3>3
  <2> QED BY <2>2, <2>3
<1>8. (GammeFollowsOccurrence /\ ClosedGammeComplete /\ ActionKeepsTask)'
  <2>1. GammeFollowsOccurrence'
    BY <1>1, Rows DEF IInv, GammeFollowsOccurrence
  <2>2. ClosedGammeComplete'
    BY <1>1 DEF IInv, ClosedGammeComplete, Blocking
  <2>3. ActionKeepsTask'
    BY <1>1 DEF IInv, ActionKeepsTask
  <2> QED BY <2>1, <2>2, <2>3
<1> QED BY <1>4, <1>5, <1>6, <1>7, <1>8 DEF IInv

LEMMA TakeInChargeInv ==
    ASSUME IInv, NEW r \in Requests, NEW i \in Interventions,
           db.request[r].statut \in {"nouvelle", "en_attente"},
           db.request[r].intervention = Null,
           db.intervention[i] = NoIntervention,
           NEW o \in Picks(OccurrencesOfRequest(db, r)), NEW planned \in BOOLEAN,
           o # Null => planned,
           db' = TakeInCharge(db, r, i, planned, o, {})
    PROVE  IInv'
<1>0. o \in Occurrences \cup {Null}
  BY DEF Picks, OccurrencesOfRequest
<1>1. Taken(db, db', r, i, planned, o, {})
  BY <1>0, TakeInChargeRows DEF IInv, Consistent
<1>1r. /\ \A q \in Requests : q # r => db'.request[q] = db.request[q]
       /\ db'.request[r].statut = "acceptee"
       /\ db'.request[r].intervention = i
       /\ db'.request[r].logged = "acceptee"
  BY <1>1 DEF Taken
<1>1i. /\ \A j \in Interventions : j # i => db'.intervention[j] = db.intervention[j]
       /\ db'.intervention[i].status = "ouvert"
       /\ o # Null => db'.intervention[i].plan
       /\ ~db'.intervention[i].actions
  BY <1>1 DEF Taken
<1>1o. /\ \A p \in Occurrences : p # o => db'.occurrence[p] = db.occurrence[p]
       /\ o # Null => /\ db'.occurrence[o].request = db.occurrence[o].request
                      /\ db'.occurrence[o].intervention = i
                      /\ db'.occurrence[o].status = "in_progress"
  BY <1>1 DEF Taken
<1>1t. \A t \in Tasks :
           /\ db'.task[t].status = db.task[t].status
           /\ db'.task[t].optional = db.task[t].optional
           /\ db'.task[t].occurrence = db.task[t].occurrence
           /\ db'.task[t].tagged = db.task[t].tagged
           /\ db'.task[t].intervention =
                  IF o # Null /\ db.task[t].occurrence = o /\ db.task[t].intervention = Null
                  THEN i ELSE db.task[t].intervention
  BY <1>1 DEF Taken
<1>2. /\ \A q \in Requests : db.request[q].intervention # i
      /\ \A p \in Occurrences : db.occurrence[p].intervention # i
      /\ \A t \in Tasks : db.task[t].intervention # i
  BY DEF IInv, Consistent, ReferencesLive, RequestsLinkedTo, LiveIntervention, NoIntervention,
         InterventionStatuses, OpenStatuses
<1>3. \A p \in Occurrences :
          db.occurrence[p].request = r => /\ p = o
                                          /\ db.occurrence[p].status = "generated"
                                          /\ db.occurrence[p].intervention = Null
  <2> SUFFICES ASSUME NEW p \in Occurrences, db.occurrence[p].request = r
               PROVE  /\ p = o
                      /\ db.occurrence[p].status = "generated"
                      /\ db.occurrence[p].intervention = Null
    OBVIOUS
  <2>1. db.occurrence[p].status = "generated"
    BY RequestOfOccurrence
  <2>2. o \in Occurrences /\ db.occurrence[o].request = r
    BY DEF Picks, OccurrencesOfRequest
  <2>3. p = o
    BY <2>2, Rows DEF IInv, OneOccurrencePerRequest
  <2>4. db.occurrence[p].intervention = Null
    BY <2>1 DEF IInv, OccurrenceFollowsRequest
  <2> QED BY <2>1, <2>3, <2>4
<1>4. o # Null => o \in Occurrences /\ db.occurrence[o].request = r
  BY DEF Picks, OccurrencesOfRequest
<1>5. Consistent(db)'
  BY <1>0, TakeInChargeConsistent DEF IInv
<1>6. FreshOccurrences'
  <2> SUFFICES ASSUME NEW p \in Occurrences, db'.occurrence[p].status = "none"
               PROVE  /\ db'.occurrence[p].request = Null
                      /\ db'.occurrence[p].intervention = Null
                      /\ \A s \in Steps : /\ db'.task[<<p, s>>].occurrence = Null
                                        /\ db'.task[<<p, s>>].intervention = Null
                      /\ \A t \in Tasks : db'.task[t].occurrence # p
    BY DEF FreshOccurrences
  <2>1. p # o /\ db'.occurrence[p] = db.occurrence[p]
    BY <1>1o, <1>4, Rows
  <2>2. \A s \in Steps : <<p, s>> \in Tasks
    BY DEF Tasks, PlanTasks
  <2>3. CASE o = Null
    BY <1>1t, <2>1, <2>2, <2>3 DEF IInv, FreshOccurrences
  <2>4. CASE o # Null
    <3>1. \A s \in Steps : /\ db.task[<<p, s>>].occurrence = Null
                          /\ db.task[<<p, s>>].intervention = Null
      BY <2>1 DEF IInv, FreshOccurrences
    <3>2. \A t \in Tasks : db'.task[t].occurrence # p
      BY <1>1t, <2>1 DEF IInv, FreshOccurrences
    <3>3. \A s \in Steps : /\ db'.task[<<p, s>>].occurrence = Null
                          /\ db'.task[<<p, s>>].intervention = Null
      BY <1>1t, <2>2, <2>4, <3>1, ZenonT(60)
    <3> QED BY <2>1, <3>2, <3>3 DEF IInv, FreshOccurrences
  <2> QED BY <2>3, <2>4
<1>7. OneOccurrencePerRequest'
  <2>1. \A p \in Occurrences : db'.occurrence[p].request = db.occurrence[p].request
    <3> SUFFICES ASSUME NEW p \in Occurrences
                 PROVE  db'.occurrence[p].request = db.occurrence[p].request
      OBVIOUS
    <3>1. CASE p = o
      BY <1>1o, <3>1, Rows
    <3>2. CASE p # o
      BY <1>1o, <3>2
    <3> QED BY <3>1, <3>2
  <2> QED BY <2>1 DEF IInv, OneOccurrencePerRequest
<1>8. LinkedOnlyOnceAccepted' /\ LogEndsInStatut'
  BY <1>1r DEF IInv, LinkedOnlyOnceAccepted, LogEndsInStatut
<1>9. OneRequestPerIntervention'
  BY <1>1r, <1>1i, <1>2, Rows DEF IInv, OneRequestPerIntervention, RequestsLinkedTo, LiveIntervention
<1>10. OccurrenceFollowsRequest'
  <2> SUFFICES ASSUME NEW p \in Occurrences PROVE Follows(p)'
    BY DEF OccurrenceFollowsRequest, Follows
  <2>1. Follows(p)
    BY DEF IInv, OccurrenceFollowsRequest, Follows
  <2>2. CASE p = o
    BY <1>1r, <1>1o, <1>4, <2>2, Rows DEF Follows
  <2>3. CASE p # o
    <3>1. db.occurrence[p].request # r /\ db'.occurrence[p] = db.occurrence[p]
      BY <1>1o, <1>3, <2>3
    <3>2. db.occurrence[p].request # Null
              => db'.request[db.occurrence[p].request] = db.request[db.occurrence[p].request]
      BY <1>1r, <3>1, Rows
    <3> QED BY <2>1, <3>1, <3>2, StillFollows
  <2> QED BY <2>2, <2>3
<1>11. GammeFollowsOccurrence'
  BY <1>1i, <1>1o, <1>1t, <1>2, <1>3, <1>4, Rows, SMTT(20), ZenonT(30) DEF IInv, GammeFollowsOccurrence
<1>12. ClosedGammeComplete'
  BY <1>1i, <1>1t, <1>2, Rows DEF IInv, ClosedGammeComplete, Blocking
<1>13. ActionKeepsTask'
  BY <1>1i, <1>1t, <1>2, Rows DEF IInv, ActionKeepsTask
<1> QED BY <1>5, <1>6, <1>7, <1>8, <1>9, <1>10, <1>11, <1>12, <1>13 DEF IInv

LEMMA AcceptInv ==
    ASSUME IInv, NEW r \in Requests, NEW i \in Interventions, Accept(r, i)
    PROVE  IInv'
<1> DEFINE planned == OccurrencesOfRequest(db, r) # {}
<1>1. PICK o \in Picks(OccurrencesOfRequest(db, r)) :
          db' = TakeInCharge(db, r, i, planned, o, {})
  BY DEF Accept, AcceptTx
<1>2. /\ db.request[r].statut \in {"nouvelle", "en_attente"}
      /\ db.request[r].intervention = Null
      /\ db.intervention[i] = NoIntervention
  BY DEF Accept, TransitionValid, AllowedTransitions, Statuts
<1>3. planned \in BOOLEAN /\ (o # Null => planned)
  BY DEF Picks
<1> HIDE DEF planned
<1> QED BY <1>1, <1>2, <1>3, TakeInChargeInv

LEMMA CreateInterventionInv ==
    ASSUME IInv, NEW r \in Requests, NEW i \in Interventions, CreateIntervention(r, i)
    PROVE  IInv'
<1>1. PICK o \in Picks(UnattachedOccurrences(db, r)) :
          db' = LinkTx(db, r, i, OccurrencesOfRequest(db, r) # {}, o, {})
  BY DEF CreateIntervention
<1>2. /\ db.request[r].statut \in {"nouvelle", "en_attente"}
      /\ db.request[r].intervention = Null
      /\ db.intervention[i] = NoIntervention
  BY DEF CreateIntervention, Linkable
<1>3. UnattachedOccurrences(db, r) = OccurrencesOfRequest(db, r)
  <2>1. ASSUME NEW x \in Occurrences, db.occurrence[x].request = r
        PROVE  db.occurrence[x].intervention = Null
    BY <1>2, <2>1, RequestOfOccurrence DEF IInv, OccurrenceFollowsRequest
  <2> QED BY <2>1 DEF UnattachedOccurrences, OccurrencesOfRequest
<1> DEFINE planned == (OccurrencesOfRequest(db, r) # {}) \/ o # Null
<1>4. db' = TakeInCharge(db, r, i, planned, o, {})
  BY <1>1 DEF LinkTx
<1>5. planned \in BOOLEAN /\ (o # Null => planned)
  OBVIOUS
<1>6. o \in Picks(OccurrencesOfRequest(db, r))
  BY <1>1, <1>3
<1> HIDE DEF planned
<1> QED BY <1>2, <1>4, <1>5, <1>6, TakeInChargeInv

\* What e has of d when intervention i takes status s: on 'ferme' its occurrences are
\* completed and its accepted requests closed.
StatusSet(d, e, i, s) ==
    /\ e.task = d.task
    /\ \A j \in Interventions : j # i => e.intervention[j] = d.intervention[j]
    /\ e.intervention[i].status = s
    /\ e.intervention[i].plan = d.intervention[i].plan
    /\ e.intervention[i].actions = d.intervention[i].actions
    /\ \A o \in Occurrences :
           /\ e.occurrence[o].request = d.occurrence[o].request
           /\ e.occurrence[o].intervention = d.occurrence[o].intervention
           /\ e.occurrence[o].status =
                  IF s = "ferme" /\ d.occurrence[o].intervention = i
                  THEN "completed" ELSE d.occurrence[o].status
    /\ \A r \in Requests :
           /\ e.request[r].intervention = d.request[r].intervention
           /\ r \in RequestsClosedWith(d, i, s) => /\ e.request[r].statut = "cloturee"
                                                   /\ e.request[r].logged = "cloturee"
           /\ r \notin RequestsClosedWith(d, i, s) =>
                  /\ e.request[r].statut = d.request[r].statut
                  /\ e.request[r].logged = d.request[r].logged

LEMMA StatusInv ==
    ASSUME IInv, NEW i \in Interventions, NEW s \in InterventionStatuses,
           LiveIntervention(db, i),
           (s = "ferme" /\ db.intervention[i].plan) => ~Blocking(db, i),
           StatusSet(db, db', i, s), Consistent(db)'
    PROVE  IInv'
<1>1. /\ db'.task = db.task
      /\ \A j \in Interventions : j # i => db'.intervention[j] = db.intervention[j]
      /\ db'.intervention[i].status = s
  BY DEF StatusSet
<1>2. db'.intervention[i].plan = db.intervention[i].plan
  BY DEF StatusSet
<1>3. db'.intervention[i].actions = db.intervention[i].actions
  BY DEF StatusSet
<1>4. \A o \in Occurrences :
          /\ db'.occurrence[o].request = db.occurrence[o].request
          /\ db'.occurrence[o].intervention = db.occurrence[o].intervention
          /\ db'.occurrence[o].status =
                 IF s = "ferme" /\ db.occurrence[o].intervention = i
                 THEN "completed" ELSE db.occurrence[o].status
  BY DEF StatusSet
<1>5. \A r \in Requests :
          /\ db'.request[r].intervention = db.request[r].intervention
          /\ IF s = "ferme" /\ db.request[r].intervention = i /\ db.request[r].statut = "acceptee"
             THEN db'.request[r].statut = "cloturee" /\ db'.request[r].logged = "cloturee"
             ELSE /\ db'.request[r].statut = db.request[r].statut
                  /\ db'.request[r].logged = db.request[r].logged
  BY DEF StatusSet, RequestsClosedWith, RequestsLinkedTo
<1>6. \A o \in Occurrences :
          db.occurrence[o].intervention = i =>
              /\ db.occurrence[o].status \in {"in_progress", "completed"}
              /\ db.occurrence[o].request \in Requests
              /\ db.request[db.occurrence[o].request].intervention = i
  BY Rows DEF IInv, FreshOccurrences, OccurrenceFollowsRequest, OccurrenceStatuses,
     ActiveOccurrence
<1>7. FreshOccurrences'
  BY <1>1, <1>4 DEF IInv, FreshOccurrences
<1>8. OneOccurrencePerRequest'
  BY <1>4 DEF IInv, OneOccurrencePerRequest
<1>9. (LinkedOnlyOnceAccepted /\ LogEndsInStatut)'
  BY <1>5 DEF IInv, LinkedOnlyOnceAccepted, LogEndsInStatut
<1>10. OneRequestPerIntervention'
  <2>1. \A j \in Interventions : RequestsLinkedTo(db', j) = RequestsLinkedTo(db, j)
    BY <1>5 DEF RequestsLinkedTo
  <2> QED BY <1>1, <2>1 DEF IInv, OneRequestPerIntervention, LiveIntervention
<1>11. OccurrenceFollowsRequest'
  <2> SUFFICES ASSUME NEW o \in Occurrences
               PROVE  Follows(o)'
    BY DEF OccurrenceFollowsRequest, Follows
  <2>1. Follows(o)
    BY DEF IInv, OccurrenceFollowsRequest, Follows
  <2>2. CASE db.occurrence[o].intervention = i
    BY <1>4, <1>5, <1>6, <2>1, <2>2, Rows DEF Follows
  <2>3. CASE db.occurrence[o].intervention # i
    <3>1. /\ db'.occurrence[o].status = db.occurrence[o].status
          /\ db'.occurrence[o].request = db.occurrence[o].request
          /\ db'.occurrence[o].intervention = db.occurrence[o].intervention
      BY <1>4, <2>3
    <3>2. CASE db.occurrence[o].request = Null
      BY <2>1, <3>1, <3>2 DEF Follows
    <3>3. CASE db.occurrence[o].request \in Requests
      <4>1. \/ db.occurrence[o].status = "generated"
            \/ db.request[db.occurrence[o].request].intervention # i
            \/ db.request[db.occurrence[o].request].statut = "cloturee"
        BY <2>3, <3>3, RequestOfOccurrence
      <4>2. db.occurrence[o].status = "generated" =>
                db.request[db.occurrence[o].request].statut # "acceptee"
        BY <2>1 DEF Follows
      <4>3. /\ db'.request[db.occurrence[o].request].statut
                   = db.request[db.occurrence[o].request].statut
            /\ db'.request[db.occurrence[o].request].intervention
                   = db.request[db.occurrence[o].request].intervention
        BY <1>5, <3>3, <4>1, <4>2
      <4> QED BY <2>1, <3>1, <4>3 DEF Follows
    <3> QED BY <3>2, <3>3, Rows
  <2> QED BY <2>2, <2>3
<1>12. GammeFollowsOccurrence'
  BY <1>1, <1>2, <1>4, Rows DEF IInv, GammeFollowsOccurrence
<1>13. ClosedGammeComplete'
  BY <1>1, <1>2 DEF IInv, ClosedGammeComplete, Blocking
<1>14. ActionKeepsTask'
  BY <1>1, <1>3 DEF IInv, ActionKeepsTask
<1> QED BY <1>7, <1>8, <1>9, <1>10, <1>11, <1>12, <1>13, <1>14 DEF IInv

LEMMA SyncStatusSet ==
    ASSUME IInv, NEW i \in Interventions, NEW s \in InterventionStatuses
    PROVE  StatusSet(db, SyncStatusLog(db, i, s, {}), i, s)
<1> DEFINE e == SyncStatusLog(db, i, s, {})
<1>0. db \in Database
  BY DEF IInv, Consistent
<1>1. /\ e.task = db.task
      /\ \A j \in Interventions : j # i => e.intervention[j] = db.intervention[j]
      /\ e.intervention[i].status = s
      /\ \A o \in Occurrences :
             e.occurrence[o].intervention = db.occurrence[o].intervention
      /\ \A r \in Requests :
             /\ r \in RequestsClosedWith(db, i, s) =>
                    /\ e.request[r].statut = "cloturee"
                    /\ e.request[r].intervention = db.request[r].intervention
                    /\ e.request[r].logged = "cloturee"
             /\ r \notin RequestsClosedWith(db, i, s) => e.request[r] = db.request[r]
  BY <1>0, SyncStatusLogEffect
<1>2. \A o \in Occurrences :
          /\ e.occurrence[o].request = db.occurrence[o].request
          /\ e.occurrence[o].status =
                 IF s = "ferme" /\ db.occurrence[o].intervention = i
                 THEN "completed" ELSE db.occurrence[o].status
  BY <1>0, SyncRows
<1>3. e.intervention[i].plan = db.intervention[i].plan
  BY <1>0, SyncRows
<1>4. e.intervention[i].actions = db.intervention[i].actions
  BY <1>0, SyncRows
<1> HIDE DEF e
<1>5. \A r \in Requests :
          /\ e.request[r].intervention = db.request[r].intervention
          /\ r \in RequestsClosedWith(db, i, s) => /\ e.request[r].statut = "cloturee"
                                                   /\ e.request[r].logged = "cloturee"
          /\ r \notin RequestsClosedWith(db, i, s) =>
                 /\ e.request[r].statut = db.request[r].statut
                 /\ e.request[r].logged = db.request[r].logged
  BY <1>1
<1>6. StatusSet(db, e, i, s)
  BY <1>1, <1>2, <1>3, <1>4, <1>5, Zenon DEF StatusSet
<1> QED BY <1>6 DEF e

LEMMA LogStatusInv ==
    ASSUME IInv, NEW i \in Interventions, NEW s \in InterventionStatuses, LogStatus(i, s)
    PROVE  IInv'
<1>1. db' = SyncStatusLog(db, i, s, {})
  BY DEF LogStatus
<1>2. StatusSet(db, db', i, s) /\ Consistent(db)'
  BY <1>1, SyncStatusSet, SyncStatusLogConsistent DEF IInv
<1>3. (s = "ferme" /\ db.intervention[i].plan) => ~Blocking(db, i)
  BY DEF LogStatus, InsertLogRefused, GammeIncomplete, IInv, ClosedGammeComplete
<1>4. LiveIntervention(db, i)
  BY DEF LogStatus
<1> QED BY <1>2, <1>3, <1>4, StatusInv

LEMMA SetStatusInv ==
    ASSUME IInv, NEW i \in Interventions, NEW s \in InterventionStatuses, SetStatus(i, s)
    PROVE  IInv'
<1>1. CASE db.intervention[i].status = s
  BY <1>1, IInvStutters DEF SetStatus, UpdateStatus
<1>2. CASE db.intervention[i].status # s
  <2>1. db' = SyncStatusLog(db, i, s, {})
    BY <1>2 DEF SetStatus, UpdateStatus
  <2>2. StatusSet(db, db', i, s) /\ Consistent(db)'
    BY <2>1, SyncStatusSet, SyncStatusLogConsistent DEF IInv
  <2>3. LiveIntervention(db, i) /\ (s = "ferme" => ~Blocking(db, i))
    BY DEF SetStatus
  <2> QED BY <2>2, <2>3, StatusInv
<1> QED BY <1>1, <1>2

\* A closure that goes through the request: the trigger has closed the request and
\* completed its occurrence, the rest of the transaction repeats it.
LEMMA CloseLinkedSet ==
    ASSUME IInv, NEW r \in Requests, NEW i \in Interventions,
           db.request[r].statut = "acceptee", db.request[r].intervention = i,
           LiveIntervention(db, i)
    PROVE  StatusSet(db, CloseTx(db, r, i, {}), i, "ferme")
<1> DEFINE synced == SyncStatusLog(db, i, "ferme", {})
           completed == CompleteOccurrences(synced, i, r)
           e == LogRequest(completed, r, "cloturee", {})
<1>0. db \in Database /\ "cloturee" \in Statuts /\ "ferme" \in InterventionStatuses
  BY DEF IInv, Consistent, Statuts, InterventionStatuses
<1>1. db.intervention[i].status # "ferme"
  BY DEF IInv, Consistent, AcceptedOpen, OpenStatuses
<1>2. CloseTx(db, r, i, {}) = e
  BY <1>1, Rows DEF CloseTx, CloseLinked, UpdateStatus
<1>3. synced \in Database /\ StatusSet(db, synced, i, "ferme")
  BY <1>0, SyncStatusSet, SyncStatusLogEffect
<1> HIDE DEF synced
<1>4. /\ completed \in Database
      /\ completed.request = synced.request
      /\ completed.intervention = synced.intervention
      /\ completed.task = synced.task
  BY <1>3, CompleteOccurrencesEffect
<1>5. \A o \in Occurrences :
          /\ completed.occurrence[o].request = synced.occurrence[o].request
          /\ completed.occurrence[o].intervention = synced.occurrence[o].intervention
          /\ completed.occurrence[o].status = synced.occurrence[o].status
  <2> SUFFICES ASSUME NEW o \in Occurrences
               PROVE  /\ completed.occurrence[o].request = synced.occurrence[o].request
                      /\ completed.occurrence[o].intervention = synced.occurrence[o].intervention
                      /\ completed.occurrence[o].status = synced.occurrence[o].status
    OBVIOUS
  <2>1. /\ completed.occurrence[o].request = synced.occurrence[o].request
        /\ completed.occurrence[o].intervention = synced.occurrence[o].intervention
        /\ \/ completed.occurrence[o].status = synced.occurrence[o].status
           \/ /\ completed.occurrence[o].status = "completed"
              /\ \/ synced.occurrence[o].request = r
                 \/ synced.occurrence[o].intervention = i
    BY <1>3, CompleteRows
  <2>2. /\ synced.occurrence[o].request = db.occurrence[o].request
        /\ synced.occurrence[o].intervention = db.occurrence[o].intervention
        /\ db.occurrence[o].intervention = i => synced.occurrence[o].status = "completed"
    BY <1>3 DEF StatusSet
  <2>3. db.occurrence[o].request = r => db.occurrence[o].intervention = i
    BY RequestOfOccurrence
  <2> QED BY <2>1, <2>2, <2>3
<1> HIDE DEF completed
<1>6. /\ e.intervention = synced.intervention
      /\ e.occurrence = completed.occurrence
      /\ e.task = synced.task
      /\ \A q \in Requests : q # r => e.request[q] = synced.request[q]
      /\ e.request[r].statut = "cloturee"
      /\ e.request[r].intervention = synced.request[r].intervention
      /\ e.request[r].logged = "cloturee"
  BY <1>0, <1>4, LogRequestEffect
<1> HIDE DEF e
<1>7. r \in RequestsClosedWith(db, i, "ferme")
  BY DEF RequestsClosedWith, RequestsLinkedTo
<1>8. \A q \in Requests :
          /\ e.request[q].intervention = db.request[q].intervention
          /\ q \in RequestsClosedWith(db, i, "ferme") => /\ e.request[q].statut = "cloturee"
                                                         /\ e.request[q].logged = "cloturee"
          /\ q \notin RequestsClosedWith(db, i, "ferme") =>
                 /\ e.request[q].statut = db.request[q].statut
                 /\ e.request[q].logged = db.request[q].logged
  <2>1. \A q \in Requests :
            /\ synced.request[q].intervention = db.request[q].intervention
            /\ q \in RequestsClosedWith(db, i, "ferme") =>
                   synced.request[q].statut = "cloturee" /\ synced.request[q].logged = "cloturee"
            /\ q \notin RequestsClosedWith(db, i, "ferme") =>
                   /\ synced.request[q].statut = db.request[q].statut
                   /\ synced.request[q].logged = db.request[q].logged
    BY <1>3 DEF StatusSet
  <2> QED BY <1>6, <1>7, <2>1, ZenonT(60)
<1>10. \A o \in Occurrences :
           /\ e.occurrence[o].request = db.occurrence[o].request
           /\ e.occurrence[o].intervention = db.occurrence[o].intervention
           /\ e.occurrence[o].status =
                  IF "ferme" = "ferme" /\ db.occurrence[o].intervention = i
                  THEN "completed" ELSE db.occurrence[o].status
  BY <1>3, <1>5, <1>6 DEF StatusSet
<1>11. /\ e.task = db.task
       /\ \A j \in Interventions : j # i => e.intervention[j] = db.intervention[j]
       /\ e.intervention[i].status = "ferme"
  BY <1>3, <1>6 DEF StatusSet
<1>12. e.intervention[i].plan = db.intervention[i].plan
  BY <1>3, <1>6, Zenon DEF StatusSet
<1>13. e.intervention[i].actions = db.intervention[i].actions
  BY <1>3, <1>6, Zenon DEF StatusSet
<1>14. StatusSet(db, e, i, "ferme")
  BY <1>8, <1>10, <1>11, <1>12, <1>13, Zenon DEF StatusSet
<1> QED BY <1>2, <1>14

LEMMA CloseInv ==
    ASSUME IInv, NEW r \in Requests, Close(r)
    PROVE  IInv'
<1> DEFINE i == db.request[r].intervention
<1>0. /\ db.request[r].statut = "acceptee"
      /\ ~CloseRefused(db, i)
      /\ db' = CloseTx(db, r, i, {})
  BY DEF Close, TransitionValid, AllowedTransitions, Statuts
<1>1. i \in Interventions \cup {Null}
  BY Rows
<1>2. Consistent(db)'
  BY <1>0, <1>1, CloseConsistent DEF IInv
<1>3. CASE i \in Interventions
  <2>1. LiveIntervention(db, i) /\ db.intervention[i].status # "ferme"
    BY <1>0, <1>3 DEF IInv, Consistent, AcceptedOpen, LiveIntervention, InterventionStatuses,
       OpenStatuses
  <2>2. db.intervention[i].plan => ~Blocking(db, i)
    BY <1>0, <1>3, <2>1, Rows DEF CloseRefused, UpdateRefused, InsertLogRefused, GammeIncomplete
  <2>3. StatusSet(db, db', i, "ferme")
    BY <1>0, <1>3, <2>1, CloseLinkedSet
  <2>4. "ferme" \in InterventionStatuses
    BY DEF InterventionStatuses
  <2> HIDE DEF i
  <2> QED BY <1>2, <1>3, <2>1, <2>2, <2>3, <2>4, StatusInv
<1>4. CASE i = Null
  <2> DEFINE completed == CompleteOccurrences(db, Null, r)
  <2>0. db \in Database /\ "cloturee" \in Statuts
    BY DEF IInv, Consistent, Statuts
  <2>1. db' = LogRequest(completed, r, "cloturee", {})
    BY <1>0, <1>4 DEF CloseTx, CloseLinked
  <2>2. /\ completed \in Database
        /\ completed.request = db.request
        /\ completed.intervention = db.intervention
        /\ completed.task = db.task
    BY <2>0, CompleteOccurrencesEffect
  <2>3. \A o \in Occurrences :
            /\ completed.occurrence[o].request = db.occurrence[o].request
            /\ completed.occurrence[o].intervention = db.occurrence[o].intervention
            /\ completed.occurrence[o].status =
                   IF /\ db.occurrence[o].status \notin {"completed", "skipped"}
                      /\ db.occurrence[o].request = r
                   THEN "completed" ELSE db.occurrence[o].status
    BY <2>0, CompleteRows, Rows
  <2> HIDE DEF completed
  <2>4. /\ db'.intervention = db.intervention
        /\ db'.task = db.task
        /\ db'.occurrence = completed.occurrence
        /\ \A q \in Requests : q # r => db'.request[q] = db.request[q]
        /\ db'.request[r].statut = "cloturee"
        /\ db'.request[r].logged = "cloturee"
        /\ db'.request[r].intervention = db.request[r].intervention
    BY <2>0, <2>1, <2>2, LogRequestEffect
  <2>5. \A o \in Occurrences :
            db.occurrence[o].request = r => db.occurrence[o].status = "in_progress"
    BY <1>0, RequestOfOccurrence
  <2>6. (FreshOccurrences /\ OneOccurrencePerRequest)'
    BY <2>3, <2>4, <2>5 DEF IInv, FreshOccurrences, OneOccurrencePerRequest
  <2>7. (LinkedOnlyOnceAccepted /\ LogEndsInStatut)'
    BY <2>4 DEF IInv, LinkedOnlyOnceAccepted, LogEndsInStatut
  <2>8. OneRequestPerIntervention'
    <3>1. \A j \in Interventions : RequestsLinkedTo(db', j) = RequestsLinkedTo(db, j)
      BY <2>4 DEF RequestsLinkedTo
    <3> QED BY <2>4, <3>1 DEF IInv, OneRequestPerIntervention, LiveIntervention
  <2>9. OccurrenceFollowsRequest'
    <3> SUFFICES ASSUME NEW o \in Occurrences
                 PROVE  Follows(o)'
      BY DEF OccurrenceFollowsRequest, Follows
    <3>1. Follows(o)
      BY DEF IInv, OccurrenceFollowsRequest, Follows
    <3>2. CASE db.occurrence[o].request = r
      <4>1. /\ db'.occurrence[o].status = "completed"
            /\ db'.occurrence[o].request = r
            /\ db'.occurrence[o].intervention = db.request[r].intervention
        BY <2>3, <2>4, <2>5, <3>1, <3>2, Rows DEF Follows
      <4> QED BY <2>4, <4>1, Rows DEF Follows
    <3>3. CASE db.occurrence[o].request # r
      BY <2>3, <2>4, <3>1, <3>3, Rows DEF Follows
    <3> QED BY <3>2, <3>3
  <2>10. (GammeFollowsOccurrence /\ ClosedGammeComplete /\ ActionKeepsTask)'
    <3>1. GammeFollowsOccurrence'
      BY <2>3, <2>4, Rows DEF IInv, GammeFollowsOccurrence
    <3>2. ClosedGammeComplete'
      BY <2>3, <2>4 DEF IInv, ClosedGammeComplete, Blocking
    <3>3. ActionKeepsTask'
      BY <2>3, <2>4 DEF IInv, ActionKeepsTask
    <3> QED BY <3>1, <3>2, <3>3
  <2> QED BY <1>2, <2>6, <2>7, <2>8, <2>9, <2>10 DEF IInv
<1> QED BY <1>1, <1>3, <1>4

LEMMA DeleteInterventionInv ==
    ASSUME IInv, NEW i \in Interventions, DeleteIntervention(i)
    PROVE  IInv'
<1>0. /\ db \in Database
      /\ ~DeleteRefused(db, i)
      /\ db' = DeleteInterventionTx(db, i)
  BY DEF IInv, Consistent, DeleteIntervention
<1>1. /\ db'.task = db.task
      /\ \A j \in Interventions : j # i => db'.intervention[j] = db.intervention[j]
      /\ db'.intervention[i] = [NoIntervention EXCEPT !.status = "deleted"]
      /\ \A r \in Requests :
             /\ db'.request[r].statut = db.request[r].statut
             /\ db'.request[r].logged = db.request[r].logged
             /\ db'.request[r].intervention = IF db.request[r].intervention = i THEN Null
                                              ELSE db.request[r].intervention
      /\ \A o \in Occurrences :
             /\ db'.occurrence[o].status = db.occurrence[o].status
             /\ db'.occurrence[o].request = db.occurrence[o].request
             /\ db'.occurrence[o].intervention =
                    IF db.occurrence[o].intervention = i THEN Null
                    ELSE db.occurrence[o].intervention
  BY <1>0, DeleteRows
<1>2. \A t \in Tasks : db.task[t].intervention # i
  BY <1>0 DEF DeleteRefused
<1>3. /\ db'.intervention[i].status = "deleted"
      /\ ~db'.intervention[i].plan
      /\ ~db'.intervention[i].actions
  BY <1>1 DEF NoIntervention
<1>4. Consistent(db)'
  BY <1>0, DeleteConsistent DEF IInv
<1>5. (FreshOccurrences /\ OneOccurrencePerRequest)'
  BY <1>1 DEF IInv, FreshOccurrences, OneOccurrencePerRequest
<1>6. (LinkedOnlyOnceAccepted /\ LogEndsInStatut)'
  BY <1>1 DEF IInv, LinkedOnlyOnceAccepted, LogEndsInStatut
<1>7. OneRequestPerIntervention'
  <2> SUFFICES ASSUME NEW j \in Interventions, LiveIntervention(db', j)
               PROVE  \E r \in Requests : RequestsLinkedTo(db', j) = {r}
    BY DEF OneRequestPerIntervention
  <2>1. j # i /\ LiveIntervention(db, j)
    BY <1>1, <1>3 DEF LiveIntervention, InterventionStatuses, OpenStatuses
  <2>2. RequestsLinkedTo(db', j) = RequestsLinkedTo(db, j)
    BY <1>1, <2>1, Rows DEF RequestsLinkedTo
  <2> QED BY <2>1, <2>2 DEF IInv, OneRequestPerIntervention
<1>8. OccurrenceFollowsRequest'
  <2> SUFFICES ASSUME NEW o \in Occurrences
               PROVE  Follows(o)'
    BY DEF OccurrenceFollowsRequest, Follows
  <2>1. Follows(o)
    BY DEF IInv, OccurrenceFollowsRequest, Follows
  <2>2. /\ db'.occurrence[o].status = db.occurrence[o].status
        /\ db'.occurrence[o].request = db.occurrence[o].request
        /\ db'.occurrence[o].intervention = IF db.occurrence[o].intervention = i THEN Null
                                            ELSE db.occurrence[o].intervention
    BY <1>1
  <2>3. CASE db.occurrence[o].request = Null
    BY <2>1, <2>2, <2>3, Rows DEF Follows
  <2>4. CASE db.occurrence[o].request \in Requests
    BY <1>1, <2>1, <2>2, <2>4, Rows DEF Follows
  <2> QED BY <2>3, <2>4, Rows
<1>9. GammeFollowsOccurrence'
  <2> SUFFICES ASSUME NEW t \in Tasks, db'.task[t].occurrence # Null
               PROVE  LET o == db'.task[t].occurrence IN
                      /\ db'.task[t].intervention = db'.occurrence[o].intervention
                      /\ db'.task[t].intervention # Null =>
                             db'.intervention[db'.task[t].intervention].plan
    BY DEF GammeFollowsOccurrence
  <2>1. LET o == db.task[t].occurrence IN
        /\ o \in Occurrences
        /\ db.task[t].intervention = db.occurrence[o].intervention
        /\ db.task[t].intervention # Null => db.intervention[db.task[t].intervention].plan
    BY <1>1, Rows DEF IInv, GammeFollowsOccurrence
  <2>2. db.task[t].intervention # Null =>
            db'.intervention[db.task[t].intervention] = db.intervention[db.task[t].intervention]
    BY <1>1, <1>2, Rows
  <2> QED BY <1>1, <1>2, <2>1, <2>2, ZenonT(60)
<1>10. ClosedGammeComplete'
  <2> SUFFICES ASSUME NEW j \in Interventions,
                      db'.intervention[j].status = "ferme" /\ db'.intervention[j].plan
               PROVE  ~Blocking(db', j)
    BY DEF ClosedGammeComplete
  <2>1. j # i /\ db'.intervention[j] = db.intervention[j]
    BY <1>1, <1>3
  <2> QED BY <1>1, <2>1 DEF IInv, ClosedGammeComplete, Blocking
<1>11. ActionKeepsTask'
  <2> SUFFICES ASSUME NEW j \in Interventions, db'.intervention[j].actions
               PROVE  \E t \in Tasks : db'.task[t].intervention = j /\ db'.task[t].tagged
    BY DEF ActionKeepsTask
  <2>1. j # i /\ db'.intervention[j] = db.intervention[j]
    BY <1>1, <1>3
  <2> QED BY <1>1, <2>1 DEF IInv, ActionKeepsTask
<1> QED BY <1>4, <1>5, <1>6, <1>7, <1>8, <1>9, <1>10, <1>11 DEF IInv

\* One task changes, that of an open intervention or of none.
LEMMA TaskInv ==
    ASSUME IInv, NEW t \in Tasks, Consistent(db)',
           db'.request = db.request, db'.occurrence = db.occurrence,
           \A u \in Tasks : u # t => db'.task[u] = db.task[u],
           \A i \in Interventions :
               /\ db'.intervention[i].status = db.intervention[i].status
               /\ db'.intervention[i].plan = db.intervention[i].plan,
           \/ db'.task[t].occurrence = Null
           \/ /\ db'.task[t].occurrence = db.task[t].occurrence
              /\ db'.task[t].intervention = db.task[t].intervention,
           \/ t \in ManualTasks
           \/ db'.task[t].intervention \in {Null, db.task[t].intervention},
           db'.task[t].intervention # Null =>
               db.intervention[db'.task[t].intervention].status # "ferme",
           \A i \in Interventions :
               /\ db'.intervention[i].actions =>
                      \/ db.intervention[i].actions
                      \/ db'.task[t].intervention = i /\ db'.task[t].tagged
               /\ (db.task[t].intervention = i /\ db.task[t].tagged) =>
                      (db'.task[t].intervention = i /\ db'.task[t].tagged)
    PROVE  IInv'
<1>1. FreshOccurrences'
  <2> SUFFICES ASSUME NEW o \in Occurrences, db.occurrence[o].status = "none"
               PROVE  /\ \A s \in Steps : /\ db'.task[<<o, s>>].occurrence = Null
                                        /\ db'.task[<<o, s>>].intervention = Null
                      /\ \A u \in Tasks : db'.task[u].occurrence # o
    BY DEF IInv, FreshOccurrences
  <2>1. /\ \A s \in Steps : /\ db.task[<<o, s>>].occurrence = Null
                          /\ db.task[<<o, s>>].intervention = Null
        /\ \A u \in Tasks : db.task[u].occurrence # o
    BY ZenonT(60) DEF IInv, FreshOccurrences
  <2>2. \A s \in Steps : <<o, s>> \in Tasks /\ <<o, s>> \notin ManualTasks
    BY TablesAssumption DEF Tasks, PlanTasks
  <2>3. \A u \in Tasks : db'.task[u].occurrence # o
    BY <2>1, Rows
  <2> QED BY <2>1, <2>2, <2>3
<1>2. (OneOccurrencePerRequest /\ LinkedOnlyOnceAccepted /\ LogEndsInStatut)'
  BY DEF IInv, OneOccurrencePerRequest, LinkedOnlyOnceAccepted, LogEndsInStatut
<1>3. OneRequestPerIntervention'
  BY DEF IInv, OneRequestPerIntervention, RequestsLinkedTo, LiveIntervention
<1>4. OccurrenceFollowsRequest'
  <2> SUFFICES ASSUME NEW o \in Occurrences PROVE Follows(o)'
    BY Zenon DEF OccurrenceFollowsRequest, Follows
  <2>1. Follows(o)
    BY Zenon DEF IInv, OccurrenceFollowsRequest, Follows
  <2> QED BY <2>1, Zenon DEF Follows
<1>5. GammeFollowsOccurrence'
  <2> SUFFICES ASSUME NEW u \in Tasks, db'.task[u].occurrence # Null
               PROVE  LET o == db'.task[u].occurrence IN
                      /\ db'.task[u].intervention = db'.occurrence[o].intervention
                      /\ db'.task[u].intervention # Null =>
                             db'.intervention[db'.task[u].intervention].plan
    BY DEF GammeFollowsOccurrence
  <2>1. /\ db'.task[u].occurrence = db.task[u].occurrence
        /\ db'.task[u].intervention = db.task[u].intervention
    BY Zenon
  <2>2. LET o == db.task[u].occurrence IN
        /\ db.task[u].intervention = db.occurrence[o].intervention
        /\ db.task[u].intervention # Null => db.intervention[db.task[u].intervention].plan
    BY <2>1, Zenon DEF IInv, GammeFollowsOccurrence
  <2>3. db.task[u].intervention # Null =>
            db'.intervention[db.task[u].intervention].plan
                = db.intervention[db.task[u].intervention].plan
    BY Rows, Zenon
  <2> QED BY <2>1, <2>2, <2>3, Zenon
<1>6. ClosedGammeComplete'
  <2> SUFFICES ASSUME NEW i \in Interventions,
                      db'.intervention[i].status = "ferme", db'.intervention[i].plan,
                      NEW u \in Tasks, db'.task[u].intervention = i,
                      db'.task[u].status \in PendingTask, ~db'.task[u].optional
               PROVE  FALSE
    BY Zenon DEF ClosedGammeComplete, Blocking
  <2>1. db.intervention[i].status = "ferme" /\ ~Blocking(db, i)
    BY Zenon DEF IInv, ClosedGammeComplete
  <2>2. u # t
    BY <2>1, Rows
  <2>3. db'.task[u] = db.task[u]
    BY <2>2
  <2> QED BY <2>1, <2>3, Zenon DEF Blocking
<1>7. ActionKeepsTask'
  <2> SUFFICES ASSUME NEW i \in Interventions, db'.intervention[i].actions
               PROVE  \E u \in Tasks : db'.task[u].intervention = i /\ db'.task[u].tagged
    BY Zenon DEF ActionKeepsTask
  <2>1. CASE db.intervention[i].actions
    <3>1. PICK u \in Tasks : db.task[u].intervention = i /\ db.task[u].tagged
      BY <2>1, Zenon DEF IInv, ActionKeepsTask
    <3>2. db'.task[u].intervention = i /\ db'.task[u].tagged
      BY <3>1, Zenon
    <3> QED BY <3>2, Zenon
  <2>2. CASE db'.task[t].intervention = i /\ db'.task[t].tagged
    BY <2>2, Zenon
  <2> QED BY <2>1, <2>2, Zenon
<1> QED BY <1>1, <1>2, <1>3, <1>4, <1>5, <1>6, <1>7 DEF IInv

LEMMA CreateTaskInv ==
    ASSUME IInv, NEW t \in ManualTasks, NEW i \in Interventions, NEW optional \in BOOLEAN,
           CreateTask(t, i, optional)
    PROVE  IInv'
<1>0. /\ db \in Database /\ t \in Tasks
      /\ db' = CreateTaskTx(db, t, i, optional)
      /\ db.task[t] = NoTask
      /\ db.intervention[i].status \in OpenStatuses
  BY DEF IInv, Consistent, Tasks, CreateTask, Editable
<1>1. /\ db'.request = db.request /\ db'.occurrence = db.occurrence
      /\ \A u \in Tasks : u # t => db'.task[u] = db.task[u]
  BY <1>0, TaskRows
<1>2. db'.task[t].occurrence = Null /\ db'.task[t].intervention = i
  BY <1>0, CreateTaskRow
<1>3. db'.intervention = db.intervention
  BY <1>0 DEF CreateTaskTx, Database
<1>4. ~db.task[t].tagged
  BY <1>0 DEF NoTask
<1>5. Consistent(db)'
  BY <1>0, CreateTaskConsistent DEF IInv, LiveIntervention, InterventionStatuses
<1>6. db.intervention[i].status # "ferme"
  BY <1>0 DEF OpenStatuses
<1> QED BY <1>0, <1>1, <1>2, <1>3, <1>4, <1>5, <1>6, TaskInv

LEMMA EditableTask ==
    ASSUME IInv, NEW t \in Tasks, TaskEditable(t)
    PROVE  /\ db.task[t].status \in TaskStatuses
           /\ db.task[t].intervention \in Interventions
           /\ db.intervention[db.task[t].intervention].status # "ferme"
BY Rows DEF TaskEditable, Editable, OpenStatuses

LEMMA PatchTaskInv ==
    ASSUME IInv, NEW t \in Tasks, NEW s \in PatchStatuses, PatchTask(t, s)
    PROVE  IInv'
<1>0. /\ db \in Database /\ s \in TaskStatuses
      /\ db' = PatchTaskTx(db, t, s)
      /\ TaskEditable(t)
  BY DEF IInv, Consistent, PatchTask, PatchStatuses, TaskStatuses, PendingTask
<1>1. /\ db'.request = db.request /\ db'.occurrence = db.occurrence
      /\ \A u \in Tasks : u # t => db'.task[u] = db.task[u]
  BY <1>0, TaskRows
<1>2. /\ db'.task[t].occurrence = db.task[t].occurrence
      /\ db'.task[t].intervention = db.task[t].intervention
  BY <1>0, PatchTaskRow
<1>3. db'.task[t].tagged = db.task[t].tagged
  BY <1>0, PatchTaskRow
<1>4. db'.intervention = db.intervention
  BY <1>0 DEF PatchTaskTx, Database
<1>5. Consistent(db)'
  BY <1>0, PatchTaskConsistent DEF IInv
<1> QED BY <1>0, <1>1, <1>2, <1>3, <1>4, <1>5, EditableTask, TaskInv

LEMMA DeleteTaskInv ==
    ASSUME IInv, NEW t \in Tasks, DeleteTask(t)
    PROVE  IInv'
<1>0. /\ db \in Database
      /\ db' = DeleteTaskTx(db, t)
      /\ ~db.task[t].tagged
  BY DEF IInv, Consistent, DeleteTask
<1>1. /\ db'.request = db.request /\ db'.occurrence = db.occurrence
      /\ \A u \in Tasks : u # t => db'.task[u] = db.task[u]
  BY <1>0, TaskRows
<1>2. db'.task[t].occurrence = Null /\ db'.task[t].intervention = Null
  BY <1>0, DeleteTaskRow
<1>3. db'.intervention = db.intervention
  BY <1>0 DEF DeleteTaskTx, Database
<1>4. Consistent(db)'
  BY <1>0, DeleteTaskConsistent DEF IInv
<1> QED BY <1>0, <1>1, <1>2, <1>3, <1>4, TaskInv

LEMMA ActedOn ==
    ASSUME IInv, NEW i \in Interventions, NEW T \in SUBSET TasksOf(db, i),
           NEW tags \in [T -> ActionModes], AddAction(i, tags)
    PROVE  /\ db' = TagTx(db, i, tags)
           /\ Acted(db, db', i, T)
           /\ T \subseteq Tasks /\ T # {} /\ DOMAIN tags = T
           /\ db.intervention[i].status # "ferme"
           /\ \A t \in T : /\ db.task[t].intervention = i
                           /\ db.task[t].status \in TaskStatuses
                           /\ tags[t] \in TaskStatuses
<1>1. db \in Database /\ DOMAIN tags = T
  BY DEF IInv, Consistent
<1>2. db' = TagTx(db, i, tags)
  BY DEF AddAction
<1>3. Acted(db, db', i, T)
  BY <1>1, <1>2, TagRow
<1>4. /\ T \subseteq Tasks /\ T # {}
      /\ db.intervention[i].status # "ferme"
      /\ \A t \in T : db.task[t].intervention = i /\ db.task[t].status \in TaskStatuses
  BY <1>1 DEF AddAction, TasksOf, Editable, OpenStatuses, TaskStatuses
<1>5. \A t \in T : tags[t] \in TaskStatuses
  BY DEF ActionModes, TaskStatuses, PendingTask
<1> QED BY <1>1, <1>2, <1>3, <1>4, <1>5

LEMMA AddActionInv ==
    ASSUME IInv, NEW i \in Interventions, NEW T \in SUBSET TasksOf(db, i),
           NEW tags \in [T -> ActionModes], AddAction(i, tags)
    PROVE  IInv'
<1>0. /\ db' = TagTx(db, i, tags)
      /\ T \subseteq Tasks /\ T # {} /\ DOMAIN tags = T
      /\ db.intervention[i].status # "ferme"
      /\ \A t \in T : /\ db.task[t].intervention = i
                      /\ db.task[t].status \in TaskStatuses
                      /\ tags[t] \in TaskStatuses
  BY ActedOn
<1>1. /\ db'.request = db.request /\ db'.occurrence = db.occurrence
      /\ \A t \in Tasks :
             /\ db'.task[t].occurrence = db.task[t].occurrence
             /\ db'.task[t].intervention = db.task[t].intervention
             /\ t \in T => db'.task[t].tagged = TRUE
             /\ t \notin T => db'.task[t] = db.task[t]
      /\ \A j \in Interventions :
             /\ db'.intervention[j].status = db.intervention[j].status
             /\ db'.intervention[j].plan = db.intervention[j].plan
             /\ j # i => db'.intervention[j].actions = db.intervention[j].actions
  <2>1. Acted(db, db', i, T)
    BY ActedOn
  <2> QED BY <2>1 DEF Acted
<1>2. Consistent(db)'
  BY <1>0, TagConsistent DEF IInv
<1>3. FreshOccurrences'
  <2> SUFFICES ASSUME NEW o \in Occurrences, db.occurrence[o].status = "none"
               PROVE  /\ \A s \in Steps : /\ db'.task[<<o, s>>].occurrence = Null
                                        /\ db'.task[<<o, s>>].intervention = Null
                      /\ \A u \in Tasks : db'.task[u].occurrence # o
    BY <1>1 DEF IInv, FreshOccurrences
  <2>1. /\ \A s \in Steps : /\ db.task[<<o, s>>].occurrence = Null
                          /\ db.task[<<o, s>>].intervention = Null
        /\ \A u \in Tasks : db.task[u].occurrence # o
    BY ZenonT(60) DEF IInv, FreshOccurrences
  <2>2. \A s \in Steps : <<o, s>> \in Tasks
    BY DEF Tasks, PlanTasks
  <2> QED BY <1>1, <2>1, <2>2
<1>4. (OneOccurrencePerRequest /\ LinkedOnlyOnceAccepted /\ LogEndsInStatut)'
  BY <1>1 DEF IInv, OneOccurrencePerRequest, LinkedOnlyOnceAccepted, LogEndsInStatut
<1>5. OneRequestPerIntervention'
  BY <1>1 DEF IInv, OneRequestPerIntervention, RequestsLinkedTo, LiveIntervention
<1>6. OccurrenceFollowsRequest'
  <2> SUFFICES ASSUME NEW o \in Occurrences PROVE Follows(o)'
    BY Zenon DEF OccurrenceFollowsRequest, Follows
  <2>1. Follows(o)
    BY Zenon DEF IInv, OccurrenceFollowsRequest, Follows
  <2> QED BY <1>1, <2>1, Zenon DEF Follows
<1>7. GammeFollowsOccurrence'
  <2> SUFFICES ASSUME NEW u \in Tasks, db'.task[u].occurrence # Null
               PROVE  LET o == db'.task[u].occurrence IN
                      /\ db'.task[u].intervention = db'.occurrence[o].intervention
                      /\ db'.task[u].intervention # Null =>
                             db'.intervention[db'.task[u].intervention].plan
    BY DEF GammeFollowsOccurrence
  <2>1. /\ db'.task[u].occurrence = db.task[u].occurrence
        /\ db'.task[u].intervention = db.task[u].intervention
    BY <1>1, Zenon
  <2>2. LET o == db.task[u].occurrence IN
        /\ db.task[u].intervention = db.occurrence[o].intervention
        /\ db.task[u].intervention # Null => db.intervention[db.task[u].intervention].plan
    BY <2>1, Zenon DEF IInv, GammeFollowsOccurrence
  <2>3. db.task[u].intervention # Null =>
            db'.intervention[db.task[u].intervention].plan
                = db.intervention[db.task[u].intervention].plan
    BY <1>1, Rows, Zenon
  <2> QED BY <1>1, <2>1, <2>2, <2>3, Zenon
<1>8. ClosedGammeComplete'
  <2> SUFFICES ASSUME NEW j \in Interventions,
                      db'.intervention[j].status = "ferme", db'.intervention[j].plan,
                      NEW u \in Tasks, db'.task[u].intervention = j,
                      db'.task[u].status \in PendingTask, ~db'.task[u].optional
               PROVE  FALSE
    BY Zenon DEF ClosedGammeComplete, Blocking
  <2>1. db.intervention[j].status = "ferme" /\ ~Blocking(db, j)
    BY <1>1, Zenon DEF IInv, ClosedGammeComplete
  <2>2. u \notin T
    BY <1>0, <1>1, <2>1
  <2>3. db'.task[u] = db.task[u]
    BY <1>1, <2>2
  <2> QED BY <2>1, <2>3, Zenon DEF Blocking
<1>9. ActionKeepsTask'
  <2> SUFFICES ASSUME NEW j \in Interventions, db'.intervention[j].actions
               PROVE  \E u \in Tasks : db'.task[u].intervention = j /\ db'.task[u].tagged
    BY Zenon DEF ActionKeepsTask
  <2>1. CASE j # i
    <3>1. db.intervention[j].actions
      BY <1>1, <2>1, Zenon
    <3>2. PICK u \in Tasks : db.task[u].intervention = j /\ db.task[u].tagged
      BY <3>1, Zenon DEF IInv, ActionKeepsTask
    <3>3. db'.task[u].intervention = j /\ db'.task[u].tagged
      BY <1>1, <3>2, Zenon
    <3> QED BY <3>3, Zenon
  <2>2. CASE j = i
    <3>1. PICK u \in T : u \in Tasks
      BY <1>0
    <3>2. db'.task[u].intervention = j /\ db'.task[u].tagged
      BY <1>0, <1>1, <2>2, <3>1, Zenon
    <3> QED BY <3>1, <3>2, Zenon
  <2> QED BY <2>1, <2>2, Zenon
<1> QED BY <1>2, <1>3, <1>4, <1>5, <1>6, <1>7, <1>8, <1>9 DEF IInv

LEMMA NextInv == IInv /\ [Next]_db => IInv'
<1> SUFFICES ASSUME IInv, [Next]_db PROVE IInv'
  OBVIOUS
<1>1. ASSUME NEW r \in Requests, CreateRequest(r) \/ Hold(r) \/ Reject(r) \/ Close(r)
      PROVE  IInv'
  BY <1>1, CreateRequestInv, HoldInv, RejectInv, CloseInv
<1>2. ASSUME NEW r \in Requests, NEW i \in Interventions,
             Accept(r, i) \/ CreateIntervention(r, i)
      PROVE  IInv'
  BY <1>2, AcceptInv, CreateInterventionInv
<1>3. ASSUME NEW o \in Occurrences, Skip(o) \/ \E r \in Requests : Generate(o, r)
      PROVE  IInv'
  BY <1>3, SkipInv, GenerateInv
<1>4. ASSUME NEW i \in Interventions,
             \/ \E s \in InterventionStatuses : SetStatus(i, s) \/ LogStatus(i, s)
             \/ DeleteIntervention(i)
      PROVE  IInv'
  BY <1>4, SetStatusInv, LogStatusInv, DeleteInterventionInv
<1>5. ASSUME TaskNext
      PROVE  IInv'
  <2>1. CASE \E i \in Interventions : \E T \in SUBSET TasksOf(db, i) :
               \E tags \in [T -> ActionModes] : AddAction(i, tags)
    BY <2>1, AddActionInv
  <2> QED BY <1>5, <2>1, CreateTaskInv, PatchTaskInv, DeleteTaskInv DEF TaskNext
<1>6. CASE UNCHANGED db
  BY <1>6, IInvStutters
<1> QED BY <1>1, <1>2, <1>3, <1>4, <1>5, <1>6 DEF Next, RequestNext, InterventionNext


LEMMA Invariance == Spec => []IInv
BY InitInv, NextInv, PTL DEF Spec

\* Every row keeps the columns and the values the schema allows.
THEOREM TypeCorrect == Spec => []TypeOK
<1>1. IInv => TypeOK
  BY DEF IInv, Consistent, TypeOK
<1> QED BY <1>1, Invariance, PTL

\* With calls run one at a time, a request, its log, its occurrence and its
\* intervention always tell the same story, whoever moved them.
THEOREM LinksHold == Spec => []LinksAgree
<1>1. IInv => LinksAgree
  BY DEF IInv, LinksAgree
<1> QED BY <1>1, Invariance, PTL

\* With calls run one at a time, the tasks of an occurrence follow it into its
\* intervention and no intervention is closed over a mandatory task.
THEOREM TasksHold == Spec => []TasksAgree
<1>1. IInv => TasksAgree
  BY DEF IInv, TasksAgree
<1> QED BY <1>1, Invariance, PTL

------------------------------------------------------------------------------
(* What a step may never do *)

Moved(from, to) ==
    \/ to = from
    \/ from = "none" /\ to = "nouvelle"
    \/ from # "none" /\ to \in AllowedTransitions[from]

LEMMA Moves ==
    /\ \A from : Moved(from, from)
    /\ Moved("none", "nouvelle")
    /\ Moved("nouvelle", "en_attente")
    /\ \A from \in {"nouvelle", "en_attente"} :
           Moved(from, "acceptee") /\ Moved(from, "rejetee")
    /\ Moved("acceptee", "cloturee")
BY DEF Moved, AllowedTransitions

LEMMA SyncMoves ==
    ASSUME IInv, NEW i \in Interventions, NEW s \in InterventionStatuses,
           StatusSet(db, db', i, s), NEW q \in Requests
    PROVE  Moved(db.request[q].statut, db'.request[q].statut)
<1>1. \/ db'.request[q].statut = db.request[q].statut
      \/ db.request[q].statut = "acceptee" /\ db'.request[q].statut = "cloturee"
  BY DEF StatusSet, RequestsClosedWith
<1> QED BY <1>1, Moves

LEMMA RequestMoves ==
    ASSUME IInv, RequestNext \/ InterventionNext, NEW q \in Requests
    PROVE  Moved(db.request[q].statut, db'.request[q].statut)
<1>0. db \in Database
  BY DEF IInv, Consistent
<1>1. ASSUME NEW r \in Requests, CreateRequest(r) \/ \E o \in Occurrences : Generate(o, r)
      PROVE  Moved(db.request[q].statut, db'.request[q].statut)
  <2>1. /\ \A p \in Requests : p # r => db'.request[p] = db.request[p]
        /\ db'.request[r].statut = "nouvelle"
        /\ db.request[r].statut = "none"
    BY <1>0, <1>1, InsertRequestEffect, GenerateRows, SMTT(30) DEF CreateRequest, Generate, NoRequest
  <2> QED BY <2>1, Moves
<1>2. ASSUME NEW r \in Requests, Hold(r)
      PROVE  Moved(db.request[q].statut, db'.request[q].statut)
  <2>1. db.request[r].statut = "nouvelle" /\ "en_attente" \in Statuts
    BY <1>2 DEF Hold, TransitionValid, AllowedTransitions, Statuts
  <2>2. /\ \A p \in Requests : p # r => db'.request[p] = db.request[p]
        /\ db'.request[r].statut = "en_attente"
    BY <1>0, <1>2, <2>1, LogRequestEffect DEF Hold, HoldTx
  <2> QED BY <2>1, <2>2, Moves
<1>3. ASSUME NEW r \in Requests, Reject(r)
      PROVE  Moved(db.request[q].statut, db'.request[q].statut)
  <2>1. db.request[r].statut \in {"nouvelle", "en_attente"}
    BY <1>3 DEF Reject, TransitionValid, AllowedTransitions, Statuts
  <2>2. /\ \A p \in Requests : p # r => db'.request[p] = db.request[p]
        /\ db'.request[r].statut = "rejetee"
    BY <1>0, <1>3, RejectRows DEF Reject
  <2> QED BY <2>1, <2>2, Moves
<1>4. ASSUME NEW r \in Requests, Close(r)
      PROVE  Moved(db.request[q].statut, db'.request[q].statut)
  <2> DEFINE i == db.request[r].intervention
  <2>1. /\ db.request[r].statut = "acceptee"
        /\ db' = CloseTx(db, r, i, {})
    BY <1>4 DEF Close, TransitionValid, AllowedTransitions, Statuts
  <2>2. CASE i \in Interventions
    <3>1. LiveIntervention(db, i)
      BY <2>1, <2>2 DEF IInv, Consistent, AcceptedOpen, LiveIntervention, InterventionStatuses
    <3>2. StatusSet(db, db', i, "ferme") /\ "ferme" \in InterventionStatuses
      BY <2>1, <2>2, <3>1, CloseLinkedSet DEF InterventionStatuses
    <3> HIDE DEF i
    <3> QED BY <2>2, <3>2, SyncMoves
  <2>3. CASE i = Null
    <3> DEFINE completed == CompleteOccurrences(db, Null, r)
    <3>1. db' = LogRequest(completed, r, "cloturee", {}) /\ "cloturee" \in Statuts
      BY <2>1, <2>3 DEF CloseTx, CloseLinked, Statuts
    <3>2. completed \in Database /\ completed.request = db.request
      BY <1>0, CompleteOccurrencesEffect
    <3> HIDE DEF completed
    <3>3. /\ \A p \in Requests : p # r => db'.request[p] = db.request[p]
          /\ db'.request[r].statut = "cloturee"
      BY <3>1, <3>2, LogRequestEffect
    <3> QED BY <2>1, <3>3, Moves
  <2> QED BY <2>2, <2>3, Rows
<1>5. ASSUME NEW r \in Requests, NEW i \in Interventions,
             Accept(r, i) \/ CreateIntervention(r, i)
      PROVE  Moved(db.request[q].statut, db'.request[q].statut)
  <2>1. PICK o \in Occurrences \cup {Null}, planned \in BOOLEAN :
            db' = TakeInCharge(db, r, i, planned, o, {})
    BY <1>5 DEF Accept, AcceptTx, CreateIntervention, LinkTx, Picks, OccurrencesOfRequest,
       UnattachedOccurrences
  <2>2. Taken(db, db', r, i, planned, o, {})
    BY <1>0, <2>1, TakeInChargeRows
  <2>3. db.request[r].statut \in {"nouvelle", "en_attente"}
    BY <1>5 DEF Accept, TransitionValid, AllowedTransitions, Statuts, CreateIntervention, Linkable
  <2> QED BY <2>2, <2>3, Moves DEF Taken
<1>6. ASSUME NEW o \in Occurrences, Skip(o)
      PROVE  Moved(db.request[q].statut, db'.request[q].statut)
  <2>1. db'.request = db.request
    BY <1>0, <1>6 DEF Skip, SkipTx, Database
  <2> QED BY <2>1, Moves
<1>7. ASSUME NEW i \in Interventions, NEW s \in InterventionStatuses,
             SetStatus(i, s) \/ LogStatus(i, s)
      PROVE  Moved(db.request[q].statut, db'.request[q].statut)
  <2>1. CASE db' = db
    BY <2>1, Moves
  <2>2. CASE db' = SyncStatusLog(db, i, s, {})
    BY <2>2, SyncStatusSet, SyncMoves
  <2> QED BY <1>7, <2>1, <2>2 DEF SetStatus, LogStatus, UpdateStatus
<1>8. ASSUME NEW i \in Interventions, DeleteIntervention(i)
      PROVE  Moved(db.request[q].statut, db'.request[q].statut)
  <2>1. db'.request[q].statut = db.request[q].statut
    BY <1>0, <1>8, DeleteRows DEF DeleteIntervention
  <2> QED BY <2>1, Moves
<1> QED BY <1>1, <1>2, <1>3, <1>4, <1>5, <1>6, <1>7, <1>8 DEF RequestNext, InterventionNext

LEMMA TaskRequestsKept ==
    ASSUME IInv, TaskNext
    PROVE  db'.request = db.request /\ db'.occurrence = db.occurrence
<1>0. db \in Database
  BY DEF IInv, Consistent
<1>1. CASE \E t, i, optional, s :
               /\ t \in Tasks
               /\ db' \in {CreateTaskTx(db, t, i, optional), PatchTaskTx(db, t, s),
                           DeleteTaskTx(db, t)}
  BY <1>0, <1>1, TaskRows
<1>2. CASE \E i, tags : db' = TagTx(db, i, tags)
  BY <1>0, <1>2, TagParts
<1> QED BY <1>1, <1>2 DEF TaskNext, CreateTask, PatchTask, DeleteTask, AddAction, Tasks

MovesAlong ==
    \A r \in Requests :
        LET from == db.request[r].statut
            to == db'.request[r].statut
        IN \/ to = from
           \/ from = "none" /\ to = "nouvelle"
           \/ from # "none" /\ to \in AllowedTransitions[from]

LEMMA NextMoves == IInv /\ [Next]_db => [MovesAlong]_db
BY RequestMoves, TaskRequestsKept, Moves DEF Next, Moved, MovesAlong

\* A request only ever moves along ALLOWED_TRANSITIONS: no sequence of calls, the
\* triggers' own closures included, brings a final request back.
THEOREM StatutsMove == Spec => StatutFollowsTable
BY NextMoves, Invariance, PTL DEF Spec, StatutFollowsTable, MovesAlong

FrozenTasks ==
    \A i \in Interventions :
        (/\ db.intervention[i].status = "ferme"
         /\ db'.intervention[i].status = "ferme") =>
            \A t \in Tasks : (db.task[t].intervention = i \/ db'.task[t].intervention = i)
                                 => db'.task[t] = db.task[t]

LEMMA CloseTasks ==
    ASSUME IInv, NEW r \in Requests, NEW i \in Interventions \cup {Null}
    PROVE  CloseTx(db, r, i, {}).task = db.task
<1> DEFINE linked == CloseLinked(db, i, {})
           completed == CompleteOccurrences(linked, i, r)
<1>0. db \in Database /\ "cloturee" \in Statuts /\ "ferme" \in InterventionStatuses
  BY DEF IInv, Consistent, Statuts, InterventionStatuses
<1>1. linked \in Database /\ linked.task = db.task
  <2>1. linked = db \/ (i \in Interventions /\ linked = SyncStatusLog(db, i, "ferme", {}))
    BY DEF CloseLinked, UpdateStatus
  <2> HIDE DEF linked
  <2> QED BY <1>0, <2>1, SyncStatusLogEffect
<1> HIDE DEF linked
<1>2. completed \in Database /\ completed.task = linked.task
  BY <1>1, CompleteOccurrencesEffect
<1> HIDE DEF completed
<1>3. LogRequest(completed, r, "cloturee", {}).task = completed.task
  BY <1>0, <1>2, LogRequestEffect
<1> QED BY <1>1, <1>2, <1>3 DEF CloseTx, linked, completed

LEMMA StepFreezesTasks ==
    ASSUME IInv, Next
    PROVE  FrozenTasks
<1>0. db \in Database
  BY DEF IInv, Consistent
<1>1. CASE db'.task = db.task
  BY <1>1 DEF FrozenTasks
<1>2. ASSUME NEW r \in Requests, CreateRequest(r) \/ Hold(r) \/ Reject(r)
      PROVE  db'.task = db.task
  <2>1. CASE CreateRequest(r)
    BY <1>0, <2>1, InsertRequestEffect DEF CreateRequest
  <2>2. CASE Hold(r)
    BY <1>0, <2>2, LogRequestEffect DEF Hold, HoldTx, Statuts
  <2>3. CASE Reject(r)
    BY <1>0, <2>3, RejectRows DEF Reject
  <2> QED BY <1>2, <2>1, <2>2, <2>3
<1>3. ASSUME NEW r \in Requests, Close(r)
      PROVE  db'.task = db.task
  <2>1. /\ db' = CloseTx(db, r, db.request[r].intervention, {})
        /\ db.request[r].intervention \in Interventions \cup {Null}
    BY <1>3, Rows DEF Close
  <2> QED BY <1>0, <2>1, CloseTasks
<1>4. ASSUME NEW o \in Occurrences, NEW r \in Requests, Generate(o, r)
      PROVE  FrozenTasks
  <2>1. \A t \in Tasks :
            /\ t \in {o} \X Steps => db'.task[t].intervention = Null
            /\ t \notin {o} \X Steps => db'.task[t] = db.task[t]
    BY <1>0, <1>4, GenerateRows DEF Generate
  <2>2. \A t \in {o} \X Steps : db.task[t].intervention = Null
    BY <1>4 DEF IInv, FreshOccurrences, Generate, NoOccurrence
  <2> QED BY <2>1, <2>2, Rows DEF FrozenTasks
<1>5. ASSUME NEW r \in Requests, NEW i \in Interventions,
             Accept(r, i) \/ CreateIntervention(r, i)
      PROVE  FrozenTasks
  <2>1. PICK o \in Occurrences \cup {Null}, planned \in BOOLEAN :
            db' = TakeInCharge(db, r, i, planned, o, {})
    BY <1>5 DEF Accept, AcceptTx, CreateIntervention, LinkTx, Picks, OccurrencesOfRequest,
       UnattachedOccurrences
  <2>2. Taken(db, db', r, i, planned, o, {})
    BY <1>0, <2>1, TakeInChargeRows
  <2>3. db.intervention[i].status = "none"
    BY <1>5 DEF Accept, CreateIntervention, NoIntervention
  <2>4. \A t \in Tasks :
            /\ db.task[t].intervention # Null => db'.task[t] = db.task[t]
            /\ db.task[t].intervention = Null => db'.task[t].intervention \in {Null, i}
    BY <2>2 DEF Taken
  <2> QED BY <2>3, <2>4, Rows DEF FrozenTasks
<1>6. ASSUME NEW o \in Occurrences, Skip(o)
      PROVE  db'.task = db.task
  BY <1>0, <1>6 DEF Skip, SkipTx, Database
<1>7. ASSUME NEW i \in Interventions, NEW s \in InterventionStatuses,
             SetStatus(i, s) \/ LogStatus(i, s)
      PROVE  db'.task = db.task
  <2>1. db' = db \/ db' = SyncStatusLog(db, i, s, {})
    BY <1>7 DEF SetStatus, LogStatus, UpdateStatus
  <2> QED BY <1>0, <2>1, SyncStatusLogEffect
<1>8. ASSUME NEW i \in Interventions, DeleteIntervention(i)
      PROVE  db'.task = db.task
  BY <1>0, <1>8, DeleteRows DEF DeleteIntervention
<1>9. ASSUME NEW t \in Tasks, NEW i \in Interventions \cup {Null},
             \A u \in Tasks : u # t => db'.task[u] = db.task[u],
             i # Null => db.intervention[i].status # "ferme",
             db.task[t].intervention \in {i, Null},
             db'.task[t].intervention \in {i, Null}
      PROVE  FrozenTasks
  BY <1>9, Rows DEF FrozenTasks
<1>10. ASSUME NEW t \in ManualTasks, NEW i \in Interventions, NEW optional \in BOOLEAN,
              CreateTask(t, i, optional)
       PROVE  FrozenTasks
  <2>1. /\ t \in Tasks
        /\ db' = CreateTaskTx(db, t, i, optional)
        /\ db.intervention[i].status # "ferme"
        /\ db.task[t].intervention = Null
    BY <1>10 DEF CreateTask, Editable, OpenStatuses, Tasks, NoTask
  <2>2. /\ \A u \in Tasks : u # t => db'.task[u] = db.task[u]
        /\ db'.task[t].intervention = i
    BY <1>0, <2>1, TaskRows, CreateTaskRow
  <2> QED BY <1>9, <2>1, <2>2
<1>11. ASSUME NEW t \in Tasks, NEW s,
              PatchTask(t, s) \/ DeleteTask(t)
       PROVE  FrozenTasks
  <2>1. /\ db.task[t].intervention \in Interventions
        /\ db.intervention[db.task[t].intervention].status # "ferme"
    BY <1>11, EditableTask DEF PatchTask, DeleteTask
  <2>2. db' \in {PatchTaskTx(db, t, s), DeleteTaskTx(db, t)}
    BY <1>11 DEF PatchTask, DeleteTask
  <2>3. /\ \A u \in Tasks : u # t => db'.task[u] = db.task[u]
        /\ db'.task[t].intervention \in {db.task[t].intervention, Null}
    <3>1. PatchTaskTx(db, t, s).task[t].intervention = db.task[t].intervention
      BY <1>0, PatchTaskRow
    <3>2. DeleteTaskTx(db, t).task[t].intervention = Null
      BY <1>0, DeleteTaskRow
    <3>3. \A u \in Tasks : u # t => db'.task[u] = db.task[u]
      BY <1>0, <2>2, TaskRows
    <3> QED BY <2>2, <3>1, <3>2, <3>3
  <2> QED BY <1>9, <2>1, <2>3
<1>12. ASSUME NEW i \in Interventions, NEW T \in SUBSET TasksOf(db, i),
              NEW tags \in [T -> ActionModes], AddAction(i, tags)
       PROVE  FrozenTasks
  <2>1. /\ Acted(db, db', i, T)
        /\ db.intervention[i].status # "ferme"
        /\ \A t \in T : db.task[t].intervention = i
    BY <1>12, ActedOn
  <2>2. \A t \in Tasks : /\ db'.task[t].intervention = db.task[t].intervention
                         /\ t \notin T => db'.task[t] = db.task[t]
    BY <2>1 DEF Acted
  <2>3. ASSUME NEW j \in Interventions, db.intervention[j].status = "ferme",
               NEW t \in Tasks, db.task[t].intervention = j \/ db'.task[t].intervention = j
        PROVE  db'.task[t] = db.task[t]
    <3>1. t \notin T
      BY <2>1, <2>2, <2>3
    <3> QED BY <2>2, <3>1
  <2> QED BY <2>3, Zenon DEF FrozenTasks
<1>13. CASE RequestNext
  BY <1>1, <1>2, <1>3, <1>4, <1>5, <1>6, <1>13 DEF RequestNext
<1>14. CASE InterventionNext
  BY <1>1, <1>5, <1>7, <1>8, <1>14 DEF InterventionNext
<1>15. CASE TaskNext
  BY <1>10, <1>11, <1>12, <1>15 DEF TaskNext
<1> QED BY <1>13, <1>14, <1>15 DEF Next

LEMMA NextFreezes == IInv /\ [Next]_db => [FrozenTasks]_db
BY StepFreezesTasks

\* No call changes, adds or removes a task of an intervention that is closed and
\* stays closed.
THEOREM TasksFrozen == Spec => ClosedFreezesTasks
BY NextFreezes, Invariance, PTL DEF Spec, ClosedFreezesTasks, FrozenTasks

------------------------------------------------------------------------------
(* What the plan puts into the tables *)

\* An intervention that an occurrence has is one of its plan.
Planned ==
    \A o \in Occurrences :
        db.occurrence[o].intervention # Null
            => db.intervention[db.occurrence[o].intervention].plan

\* The tasks of an occurrence are those of the steps, as optional as the step.
GammeRows ==
    \A t \in Tasks :
        db.task[t].occurrence # Null =>
            /\ t \in PlanTasks
            /\ db.task[t].occurrence = t[1]
            /\ db.task[t].optional = (t[2] \in OptionalSteps)

PlanInv == Planned /\ GammeRows

LEMMA InitPlan == Init => PlanInv
BY DEF Init, EmptyDatabase, NoOccurrence, NoTask, PlanInv, Planned, GammeRows

\* A step that gives no occurrence an intervention and takes no plan away.
PlansKept(d, e) ==
    \A o \in Occurrences :
        \/ e.occurrence[o].intervention = Null
        \/ /\ e.occurrence[o].intervention = d.occurrence[o].intervention
           /\ e.intervention[e.occurrence[o].intervention].plan =
                  d.intervention[d.occurrence[o].intervention].plan

RowsKept(d, e) ==
    \A t \in Tasks :
        \/ e.task[t].occurrence = Null
        \/ /\ e.task[t].occurrence = d.task[t].occurrence
           /\ e.task[t].optional = d.task[t].optional

LEMMA PlanKept ==
    ASSUME PlanInv, PlansKept(db, db'), RowsKept(db, db')
    PROVE  PlanInv'
<1>1. Planned'
  BY DEF PlanInv, Planned, PlansKept
<1>2. GammeRows'
  <2> SUFFICES ASSUME NEW t \in Tasks, db'.task[t].occurrence # Null
               PROVE  /\ t \in PlanTasks
                      /\ db'.task[t].occurrence = t[1]
                      /\ db'.task[t].optional = (t[2] \in OptionalSteps)
    BY DEF GammeRows
  <2> QED BY DEF PlanInv, GammeRows, RowsKept
<1> QED BY <1>1, <1>2 DEF PlanInv

LEMMA SamePlans ==
    ASSUME NEW d, NEW e, e.occurrence = d.occurrence, e.intervention = d.intervention,
           e.task = d.task
    PROVE  PlansKept(d, e) /\ RowsKept(d, e)
BY DEF PlansKept, RowsKept

LEMMA GeneratePlans ==
    ASSUME IInv, PlanInv, NEW o \in Occurrences, NEW r \in Requests, Generate(o, r)
    PROVE  PlanInv'
<1>0. db \in Database /\ db' = GenerateTx(db, o, r)
  BY DEF IInv, Consistent, Generate
<1>1. /\ db'.intervention = db.intervention
      /\ \A p \in Occurrences : p # o => db'.occurrence[p] = db.occurrence[p]
      /\ db'.occurrence[o].intervention = Null
      /\ \A t \in Tasks :
             /\ t \in {o} \X Steps => db'.task[t].occurrence = o
             /\ t \notin {o} \X Steps => db'.task[t] = db.task[t]
  BY <1>0, GenerateRows
<1>2. Planned'
  BY <1>1 DEF PlanInv, Planned
<1>3. ASSUME NEW s \in Steps, <<o, s>> \in Tasks
      PROVE  db'.task[<<o, s>>].optional = (s \in OptionalSteps)
  <2> DEFINE new == [NoTask EXCEPT !.status = "todo", !.occurrence = o,
                                   !.optional = s \in OptionalSteps]
  <2>1. db'.task[<<o, s>>] = new
    <3>1. <<o, s>> \in {o} \X Steps
      OBVIOUS
    <3>2. db'.task = [t \in Tasks |->
              IF t \in {o} \X Steps
              THEN [NoTask EXCEPT !.status = "todo", !.occurrence = o,
                                  !.optional = t[2] \in OptionalSteps]
              ELSE db.task[t]]
      BY <1>0, InsertRequestEffect DEF GenerateTx, Database
    <3> QED BY <1>3, <3>1, <3>2
  <2>2. new.optional = (s \in OptionalSteps)
    BY DEF NoTask
  <2> QED BY <2>1, <2>2
<1>4. GammeRows'
  <2> SUFFICES ASSUME NEW t \in Tasks, db'.task[t].occurrence # Null
               PROVE  /\ t \in PlanTasks
                      /\ db'.task[t].occurrence = t[1]
                      /\ db'.task[t].optional = (t[2] \in OptionalSteps)
    BY DEF GammeRows
  <2>1. CASE t \notin {o} \X Steps
    BY <1>1, <2>1 DEF PlanInv, GammeRows
  <2>2. CASE t \in {o} \X Steps
    <3>1. PICK s \in Steps : t = <<o, s>>
      BY <2>2
    <3> QED BY <1>1, <1>3, <2>2, <3>1 DEF PlanTasks
  <2> QED BY <2>1, <2>2
<1> QED BY <1>2, <1>4 DEF PlanInv

LEMMA TakenPlans ==
    ASSUME IInv, PlanInv, NEW r \in Requests, NEW i \in Interventions,
           NEW o \in Occurrences \cup {Null}, NEW planned \in BOOLEAN,
           db' = TakeInCharge(db, r, i, planned, o, {}),
           db.intervention[i] = NoIntervention, o # Null => planned
    PROVE  PlanInv'
<1>1. Taken(db, db', r, i, planned, o, {})
  BY TakeInChargeRows DEF IInv, Consistent
<1>2. \A p \in Occurrences : db.occurrence[p].intervention # i
  BY DEF IInv, Consistent, ReferencesLive, LiveIntervention, NoIntervention,
     InterventionStatuses, OpenStatuses
<1>3. Planned'
  <2> SUFFICES ASSUME NEW p \in Occurrences, db'.occurrence[p].intervention # Null
               PROVE  db'.intervention[db'.occurrence[p].intervention].plan
    BY DEF Planned
  <2>1. CASE p = o
    BY <1>1, <2>1, Rows DEF Taken
  <2>2. CASE p # o
    <3>1. /\ db'.occurrence[p] = db.occurrence[p]
          /\ db.occurrence[p].intervention \in Interventions \ {i}
      BY <1>1, <1>2, <2>2, Rows DEF Taken
    <3>2. db'.intervention[db.occurrence[p].intervention]
              = db.intervention[db.occurrence[p].intervention]
      BY <1>1, <3>1 DEF Taken
    <3>3. db.intervention[db.occurrence[p].intervention].plan
      BY <3>1, Rows DEF PlanInv, Planned
    <3> QED BY <3>1, <3>2, <3>3
  <2> QED BY <2>1, <2>2
<1>4. GammeRows'
  BY <1>1 DEF PlanInv, GammeRows, Taken
<1> QED BY <1>3, <1>4 DEF PlanInv

LEMMA RequestPlans ==
    ASSUME IInv, PlanInv, RequestNext \/ InterventionNext
    PROVE  PlanInv'
<1>0. db \in Database
  BY DEF IInv, Consistent
<1>1. ASSUME NEW r \in Requests, CreateRequest(r)
      PROVE  PlanInv'
  BY <1>0, <1>1, InsertRequestEffect, SamePlans, PlanKept DEF CreateRequest
<1>2. ASSUME NEW r \in Requests, Hold(r)
      PROVE  PlanInv'
  BY <1>0, <1>2, LogRequestEffect, SamePlans, PlanKept DEF Hold, HoldTx, Statuts
<1>3. ASSUME NEW r \in Requests, Reject(r)
      PROVE  PlanInv'
  <2>1. PlansKept(db, db') /\ RowsKept(db, db')
    BY <1>0, <1>3, RejectRows DEF Reject, PlansKept, RowsKept
  <2> QED BY <2>1, PlanKept
<1>4. ASSUME NEW r \in Requests, Close(r)
      PROVE  PlanInv'
  <2> DEFINE i == db.request[r].intervention
  <2>1. /\ db.request[r].statut = "acceptee"
        /\ db' = CloseTx(db, r, i, {})
    BY <1>4 DEF Close, TransitionValid, AllowedTransitions, Statuts
  <2>2. CASE i \in Interventions
    <3>1. LiveIntervention(db, i)
      BY <2>1, <2>2 DEF IInv, Consistent, AcceptedOpen, LiveIntervention, InterventionStatuses
    <3>2. StatusSet(db, db', i, "ferme")
      BY <2>1, <2>2, <3>1, CloseLinkedSet
    <3> HIDE DEF i
    <3>3. PlansKept(db, db') /\ RowsKept(db, db')
      BY <2>2, <3>2, Rows DEF StatusSet, PlansKept, RowsKept
    <3> QED BY <3>3, PlanKept
  <2>3. CASE i = Null
    <3> DEFINE completed == CompleteOccurrences(db, Null, r)
    <3>1. db' = LogRequest(completed, r, "cloturee", {}) /\ "cloturee" \in Statuts
      BY <2>1, <2>3 DEF CloseTx, CloseLinked, Statuts
    <3>2. /\ completed \in Database /\ completed.intervention = db.intervention
          /\ completed.task = db.task
          /\ \A o \in Occurrences :
                 completed.occurrence[o].intervention = db.occurrence[o].intervention
      BY <1>0, CompleteOccurrencesEffect
    <3> HIDE DEF completed
    <3>3. /\ db'.intervention = completed.intervention /\ db'.occurrence = completed.occurrence
          /\ db'.task = completed.task
      BY <3>1, <3>2, LogRequestEffect
    <3>4. PlansKept(db, db') /\ RowsKept(db, db')
      BY <3>2, <3>3 DEF PlansKept, RowsKept
    <3> QED BY <3>4, PlanKept
  <2> QED BY <2>2, <2>3, Rows
<1>5. ASSUME NEW r \in Requests, NEW i \in Interventions,
             Accept(r, i) \/ CreateIntervention(r, i)
      PROVE  PlanInv'
  <2>1. PICK o \in Occurrences \cup {Null}, planned \in BOOLEAN :
            /\ db' = TakeInCharge(db, r, i, planned, o, {})
            /\ o # Null => planned
    <3>1. CASE Accept(r, i)
      <4>1. PICK o \in Picks(OccurrencesOfRequest(db, r)) : db' = AcceptTx(db, r, i, o, {})
        BY <3>1 DEF Accept
      <4>2. /\ o \in Occurrences \cup {Null}
            /\ o # Null => OccurrencesOfRequest(db, r) # {}
        BY <4>1 DEF Picks, OccurrencesOfRequest
      <4> QED BY <4>1, <4>2 DEF AcceptTx
    <3>2. CASE CreateIntervention(r, i)
      <4>1. PICK o \in Picks(UnattachedOccurrences(db, r)) :
                db' = LinkTx(db, r, i, OccurrencesOfRequest(db, r) # {}, o, {})
        BY <3>2 DEF CreateIntervention
      <4>2. o \in Occurrences \cup {Null}
        BY <4>1 DEF Picks, UnattachedOccurrences, OccurrencesOfRequest
      <4> QED BY <4>1, <4>2 DEF LinkTx
    <3> QED BY <1>5, <3>1, <3>2
  <2>2. db.intervention[i] = NoIntervention
    BY <1>5 DEF Accept, CreateIntervention
  <2> QED BY <2>1, <2>2, TakenPlans
<1>6. ASSUME NEW o \in Occurrences, Skip(o)
      PROVE  PlanInv'
  <2>1. PlansKept(db, db') /\ RowsKept(db, db')
    BY <1>0, <1>6 DEF Skip, SkipTx, Database, OccurrenceRow, PlansKept, RowsKept
  <2> QED BY <2>1, PlanKept
<1>7. ASSUME NEW i \in Interventions, NEW s \in InterventionStatuses,
             SetStatus(i, s) \/ LogStatus(i, s)
      PROVE  PlanInv'
  <2>1. CASE db' = db
    BY <2>1, SamePlans, PlanKept
  <2>2. CASE db' = SyncStatusLog(db, i, s, {})
    <3>1. StatusSet(db, db', i, s)
      BY <2>2, SyncStatusSet
    <3>2. PlansKept(db, db') /\ RowsKept(db, db')
      BY <3>1, Rows DEF StatusSet, PlansKept, RowsKept
    <3> QED BY <3>2, PlanKept
  <2> QED BY <1>7, <2>1, <2>2 DEF SetStatus, LogStatus, UpdateStatus
<1>8. ASSUME NEW i \in Interventions, DeleteIntervention(i)
      PROVE  PlanInv'
  <2>1. PlansKept(db, db') /\ RowsKept(db, db')
    BY <1>0, <1>8, DeleteRows, Rows DEF DeleteIntervention, PlansKept, RowsKept
  <2> QED BY <2>1, PlanKept
<1>9. ASSUME NEW o \in Occurrences, NEW r \in Requests, Generate(o, r)
      PROVE  PlanInv'
  BY <1>9, GeneratePlans
<1> QED BY <1>1, <1>2, <1>3, <1>4, <1>5, <1>6, <1>7, <1>8, <1>9 DEF RequestNext, InterventionNext

LEMMA TaskPlans ==
    ASSUME IInv, PlanInv, TaskNext
    PROVE  PlanInv'
<1>0. db \in Database /\ db'.occurrence = db.occurrence
  BY TaskRequestsKept DEF IInv, Consistent
<1>1. ASSUME NEW t \in Tasks, \A u \in Tasks : u # t => db'.task[u] = db.task[u],
             \A i \in Interventions : db'.intervention[i].plan = db.intervention[i].plan,
             \/ db'.task[t].occurrence = Null
             \/ /\ db'.task[t].occurrence = db.task[t].occurrence
                /\ db'.task[t].optional = db.task[t].optional
      PROVE  PlanInv'
  <2>1. PlansKept(db, db') /\ RowsKept(db, db')
    BY <1>0, <1>1, Rows DEF PlansKept, RowsKept
  <2> QED BY <2>1, PlanKept
<1>2. ASSUME NEW t \in ManualTasks, NEW i \in Interventions, NEW optional \in BOOLEAN,
             CreateTask(t, i, optional)
      PROVE  PlanInv'
  <2>1. db' = CreateTaskTx(db, t, i, optional) /\ t \in Tasks
    BY <1>2 DEF CreateTask, Tasks
  <2>2. db'.intervention = db.intervention
    BY <1>0, <2>1 DEF CreateTaskTx, Database
  <2>3. db'.task[t].occurrence = Null /\ \A u \in Tasks : u # t => db'.task[u] = db.task[u]
    BY <1>0, <2>1, CreateTaskRow, TaskRows
  <2> QED BY <1>1, <2>1, <2>2, <2>3
<1>3. ASSUME NEW t \in Tasks, NEW s \in PatchStatuses, PatchTask(t, s)
      PROVE  PlanInv'
  <2>1. db' = PatchTaskTx(db, t, s)
    BY <1>3 DEF PatchTask
  <2>2. /\ db'.intervention = db.intervention
        /\ db'.task[t].occurrence = db.task[t].occurrence
        /\ db'.task[t].optional = db.task[t].optional
    BY <1>0, <2>1 DEF PatchTaskTx, Database, TaskRow
  <2>3. \A u \in Tasks : u # t => db'.task[u] = db.task[u]
    BY <1>0, <2>1, TaskRows
  <2> QED BY <1>1, <2>2, <2>3
<1>4. ASSUME NEW t \in Tasks, DeleteTask(t)
      PROVE  PlanInv'
  <2>1. db' = DeleteTaskTx(db, t)
    BY <1>4 DEF DeleteTask
  <2>2. db'.intervention = db.intervention
    BY <1>0, <2>1 DEF DeleteTaskTx, Database
  <2>3. db'.task[t].occurrence = Null /\ \A u \in Tasks : u # t => db'.task[u] = db.task[u]
    BY <1>0, <2>1, DeleteTaskRow, TaskRows
  <2> QED BY <1>1, <2>2, <2>3
<1>5. ASSUME NEW i \in Interventions, NEW T \in SUBSET TasksOf(db, i),
             NEW tags \in [T -> ActionModes], AddAction(i, tags)
      PROVE  PlanInv'
  <2>1. /\ \A t \in Tasks : /\ db'.task[t].occurrence = db.task[t].occurrence
                            /\ db'.task[t].optional = db.task[t].optional
        /\ \A j \in Interventions : db'.intervention[j].plan = db.intervention[j].plan
    BY <1>5, ActedOn DEF Acted
  <2>2. PlansKept(db, db') /\ RowsKept(db, db')
    BY <1>0, <2>1, Rows DEF PlansKept, RowsKept
  <2> QED BY <2>2, PlanKept
<1> QED BY <1>2, <1>3, <1>4, <1>5 DEF TaskNext

LEMMA NextPlan == IInv /\ PlanInv /\ [Next]_db => PlanInv'
<1> SUFFICES ASSUME IInv, PlanInv, [Next]_db PROVE PlanInv'
  OBVIOUS
<1>1. ASSUME UNCHANGED db PROVE PlanInv'
  BY <1>1 DEF PlanInv, Planned, GammeRows
<1> QED BY <1>1, RequestPlans, TaskPlans DEF Next

===============================================================================

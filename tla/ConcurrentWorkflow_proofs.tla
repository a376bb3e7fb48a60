----------------------- MODULE ConcurrentWorkflow_proofs -----------------------
(***************************************************************************)
(* Proofs about ConcurrentWorkflow, for any tables and any subset of the   *)
(* endpoints.  First what holds whatever overlaps; then the refinement:    *)
(* with one worker the transactions implement the indivisible steps of     *)
(* MaintenanceWorkflow, since what a call has read still holds when it     *)
(* writes and the Python cascade after a closure finds nothing left to do, *)
(* and what MaintenanceWorkflow guarantees follows.  Last, that the repair *)
(* procedures bring damaged tables back to what these guarantees say.      *)
(***************************************************************************)
EXTENDS Repairs, MaintenanceTables_proofs

\* A frame holds what the next step of its stage will use.
FrameFits(f) ==
    /\ f \in Frame
    /\ f.at \in {"validated", "deciding"} => f.r \in Requests /\ f.s \in Statuts
    /\ f.at = "linking" => f.r \in Requests
    /\ f.at \in {"putting", "logging"} =>
           f.i \in Interventions /\ f.s \in InterventionStatuses
    /\ f.at \in {"rereading", "cascade", "cascading", "deleting", "creating"} =>
           f.i \in Interventions
    /\ f.at = "cascading" => (f.flag => f.r # Null)
    /\ f.at = "skipping" => f.o \in Occurrences
    /\ f.at \in {"patching", "acting"} => f.t \in Tasks /\ f.s \in TaskStatuses
    /\ f.at = "removing" => f.t \in Tasks

Fit == job \in [Workers -> Frame] /\ \A w \in Workers : FrameFits(job[w])

\* The inductive invariant: a transaction can only be trusted with arguments of
\* their types, and these come out of the frames.
IInv == Consistent(db) /\ Fit

LEMMA IdleFits == FrameFits(Idle)
BY DEF Idle, FrameFits, Frame, Stages

Redated(f, older, late) == [f EXCEPT !.older = older, !.late = late]

\* The bookkeeping of log dates does not touch what a stage uses.
LEMMA DatesFit ==
    ASSUME NEW f, FrameFits(f), NEW older \in SUBSET Workers, NEW late \in SUBSET Requests
    PROVE  FrameFits(Redated(f, older, late))
<1>1. f \in Frame
  BY DEF FrameFits
<1>2. LET g == Redated(f, older, late) IN
      /\ g \in Frame
      /\ g.at = f.at /\ g.r = f.r /\ g.i = f.i /\ g.o = f.o /\ g.t = f.t
      /\ g.s = f.s /\ g.flag = f.flag
  BY ZenonT(60), <1>1 DEF Redated, Frame
<1> QED BY <1>2 DEF FrameFits

LEMMA CommitsFit ==
    ASSUME Fit, NEW w \in Workers, NEW d, NEW rs \in SUBSET Requests, NEW before,
           NEW frame, FrameFits(frame), Commits(w, d, rs, before, frame)
    PROVE  Fit'
<1>1. ASSUME NEW v \in Workers
      PROVE  FrameFits(job'[v])
  <2>1. CASE v = w
    BY <2>1 DEF Commits
  <2>2. CASE v # w
    <3> DEFINE older == job[v].older \ {w}
               late == IF v \in before THEN job[v].late \cup rs ELSE job[v].late
    <3>1. job'[v] = Redated(job[v], older, late)
      BY <2>2 DEF Commits, Redated
    <3>2. FrameFits(job[v]) /\ older \in SUBSET Workers /\ late \in SUBSET Requests
      BY DEF Fit, Frame
    <3> HIDE DEF older, late
    <3> QED BY <3>1, <3>2, DatesFit
  <2> QED BY <2>1, <2>2
<1>2. job' = [v \in Workers |-> job'[v]]
  BY DEF Commits
<1> QED BY <1>1, <1>2 DEF Fit, FrameFits

LEMMA StartsFit ==
    ASSUME Fit, NEW w \in Workers, NEW endpoint, NEW frame, FrameFits(frame),
           Starts(w, endpoint, frame)
    PROVE  Fit'
BY DEF Starts, Fit, FrameFits

LEMMA BeginsFit ==
    ASSUME Fit, NEW w \in Workers, NEW frame, FrameFits(frame), Begins(w, frame)
    PROVE  Fit'
<1>1. Open \in SUBSET Workers
  BY DEF Open
<1>2. FrameFits(Redated(frame, Open, frame.late))
  BY <1>1, DatesFit DEF FrameFits, Frame
<1>3. [frame EXCEPT !.older = Open] = Redated(frame, Open, frame.late)
  BY DEF Redated, FrameFits, Frame
<1> QED BY <1>2, <1>3 DEF Begins, Fit, FrameFits

------------------------------------------------------------------------------
(* Reads: the database does not change and the new frame fits *)

LEMMA ArrivalsInv == ASSUME IInv, Arrivals PROVE IInv'
<1>1. ASSUME NEW r \in Requests, CreateRequest(r) PROVE IInv'
  BY <1>1, InsertRequestConsistent DEF CreateRequest, IInv, Fit, FrameFits
<1>2. ASSUME NEW r \in Requests, NEW o \in Occurrences, Generate(o, r) PROVE IInv'
  BY <1>2, GenerateConsistent DEF Generate, IInv, Fit, FrameFits
<1> QED BY <1>1, <1>2 DEF Arrivals

LEMMA StartsInv ==
    ASSUME IInv, NEW w \in Workers, NEW endpoint, NEW frame, FrameFits(frame),
           Starts(w, endpoint, frame)
    PROVE  IInv'
BY StartsFit DEF IInv, Starts

LEMMA BeginsInv ==
    ASSUME IInv, NEW w \in Workers, NEW frame, FrameFits(frame), Begins(w, frame)
    PROVE  IInv'
BY BeginsFit DEF IInv, Begins

LEMMA CommitsInv ==
    ASSUME IInv, NEW w \in Workers, NEW d, Consistent(d), NEW rs \in SUBSET Requests,
           NEW before, NEW frame, FrameFits(frame), Commits(w, d, rs, before, frame)
    PROVE  IInv'
<1>1. Fit'
  BY CommitsFit DEF IInv
<1>2. db' = d
  BY DEF Commits
<1> QED BY <1>1, <1>2 DEF IInv

Deciding(f, o) == [f EXCEPT !.at = "deciding", !.o = o]

LEMMA DecidingFits ==
    ASSUME NEW f, FrameFits(f), f.at = "validated", NEW o \in Occurrences \cup {Null}
    PROVE  FrameFits(Deciding(f, o))
<1>1. f \in Frame
  BY DEF FrameFits
<1>2. Deciding(f, o) \in Frame
  BY <1>1 DEF Deciding, Frame, Stages
<1>3. /\ Deciding(f, o).at = "deciding"
      /\ Deciding(f, o).r = f.r /\ Deciding(f, o).s = f.s
  BY <1>1 DEF Deciding, Frame
<1>4. f.r \in Requests /\ f.s \in Statuts
  BY DEF FrameFits
<1> QED BY <1>2, <1>3, <1>4 DEF FrameFits

LEMMA RequestReadsInv ==
    ASSUME IInv, NEW w \in Workers
    PROVE  /\ \A r \in Requests, to \in Statuts : TransitionRead(w, r, to) => IInv'
           /\ TransitionBegin(w) => IInv'
           /\ \A r \in Requests : LinkRead(w, r) => IInv'
           /\ \A o \in Occurrences : SkipRead(w, o) => IInv'
<1>1. ASSUME NEW r \in Requests, NEW to \in Statuts, TransitionRead(w, r, to) PROVE IInv'
  <2> DEFINE frame == [Idle EXCEPT !.at = "validated", !.r = r, !.s = to,
                                   !.i = db.request[r].intervention]
  <2>1. db.request[r].intervention \in Interventions \cup {Null}
    BY DEF IInv, Consistent, Database, RequestRow
  <2>2. FrameFits(frame)
    BY <2>1 DEF Idle, FrameFits, Frame, Stages
  <2> HIDE DEF frame
  <2>3. Starts(w, "transition", frame)
    BY <1>1 DEF TransitionRead, frame
  <2> QED BY <2>2, <2>3, StartsInv
<1>2. ASSUME TransitionBegin(w) PROVE IInv'
  <2>1. PICK o \in Occurrences \cup {Null} : Begins(w, Deciding(job[w], o))
    BY <1>2 DEF TransitionBegin, Picks, OccurrencesOfRequest, Deciding
  <2>2. job[w].at = "validated" /\ FrameFits(job[w])
    BY <1>2 DEF TransitionBegin, IInv, Fit
  <2>3. FrameFits(Deciding(job[w], o))
    BY <2>2, DecidingFits
  <2> QED BY <2>1, <2>3, BeginsInv
<1>3. ASSUME NEW r \in Requests, LinkRead(w, r) PROVE IInv'
  <2> DEFINE planned == OccurrencesOfRequest(db, r) # {}
             frame == [Idle EXCEPT !.at = "linking", !.r = r, !.flag = planned]
  <2>1. planned \in BOOLEAN
    OBVIOUS
  <2>2. ASSUME NEW b \in BOOLEAN
        PROVE  FrameFits([Idle EXCEPT !.at = "linking", !.r = r, !.flag = b])
    BY DEF Idle, FrameFits, Frame, Stages
  <2>3. FrameFits(frame)
    BY <2>1, <2>2
  <2>4. Begins(w, frame)
    BY <1>3 DEF LinkRead
  <2> QED BY <2>3, <2>4, BeginsInv
<1>4. ASSUME NEW o \in Occurrences, SkipRead(w, o) PROVE IInv'
  <2> DEFINE frame == [Idle EXCEPT !.at = "skipping", !.o = o]
  <2>1. FrameFits(frame)
    BY DEF Idle, FrameFits, Frame, Stages
  <2> HIDE DEF frame
  <2>2. Starts(w, "skip", frame)
    BY <1>4 DEF SkipRead, frame
  <2> QED BY <2>1, <2>2, StartsInv
<1> QED BY <1>1, <1>2, <1>3, <1>4

Cascading(f, r, di, relink) ==
    [f EXCEPT !.at = "cascading", !.r = r, !.di = di, !.flag = relink]

LEMMA CascadingFits ==
    ASSUME NEW f, FrameFits(f), f.i \in Interventions,
           NEW r \in Requests \cup {Null}, NEW di \in Requests \cup {Null}
    PROVE  /\ FrameFits(Cascading(f, r, di, FALSE))
           /\ r # Null => FrameFits(Cascading(f, r, di, TRUE))
<1>0. f \in Frame
  BY DEF FrameFits
<1>1. LET g == Cascading(f, r, di, TRUE) IN
      g \in Frame /\ g.at = "cascading" /\ g.i = f.i /\ g.r = r
  BY ZenonT(60), <1>0 DEF Cascading, Frame, Stages
<1>2. LET g == Cascading(f, r, di, FALSE) IN
      g \in Frame /\ g.at = "cascading" /\ g.i = f.i /\ g.flag = FALSE
  BY ZenonT(60), <1>0 DEF Cascading, Frame, Stages
<1> QED BY <1>1, <1>2 DEF FrameFits

LEMMA InterventionReadsInv ==
    ASSUME IInv, NEW w \in Workers
    PROVE  /\ \A i \in Interventions, s \in InterventionStatuses :
                  PutRead(w, i, s) \/ LogRead(w, i, s) => IInv'
           /\ \A i \in Interventions : DeleteRead(w, i) => IInv'
           /\ PutReread(w) => IInv'
           /\ CascadeBegin(w) => IInv'
<1>1. ASSUME NEW i \in Interventions, NEW s \in InterventionStatuses, PutRead(w, i, s)
      PROVE  IInv'
  <2> DEFINE was == db.intervention[i].status
             frame == [Idle EXCEPT !.at = "putting", !.i = i, !.s = s, !.was = was]
  <2>1. was \in InterventionStatuses
    BY <1>1 DEF PutRead, LiveIntervention
  <2>2. Starts(w, "put", frame)
    BY <1>1 DEF PutRead
  <2> HIDE DEF was
  <2>3. FrameFits(frame)
    BY <2>1 DEF Idle, FrameFits, Frame, Stages
  <2> QED BY <2>2, <2>3, StartsInv
<1>2. ASSUME NEW i \in Interventions, NEW s \in InterventionStatuses, LogRead(w, i, s)
      PROVE  IInv'
  <2>1. Starts(w, "log", [Idle EXCEPT !.at = "logging", !.i = i, !.s = s])
    BY <1>2 DEF LogRead
  <2>2. FrameFits([Idle EXCEPT !.at = "logging", !.i = i, !.s = s])
    BY DEF Idle, FrameFits, Frame, Stages
  <2> QED BY <2>1, <2>2, StartsInv
<1>3. ASSUME NEW i \in Interventions, DeleteRead(w, i) PROVE IInv'
  <2>1. Starts(w, "delete", [Idle EXCEPT !.at = "deleting", !.i = i])
    BY <1>3 DEF DeleteRead
  <2>2. FrameFits([Idle EXCEPT !.at = "deleting", !.i = i])
    BY DEF Idle, FrameFits, Frame, Stages
  <2> QED BY <2>1, <2>2, StartsInv
<1>4. ASSUME PutReread(w) PROVE IInv'
  <2> DEFINE frame == [Idle EXCEPT !.at = "cascade", !.i = job[w].i]
  <2>1. job[w].i \in Interventions
    BY <1>4 DEF PutReread, IInv, Fit, FrameFits
  <2>2. FrameFits(frame)
    BY <2>1 DEF Idle, FrameFits, Frame, Stages
  <2>3. /\ db' = db
        /\ job' = [job EXCEPT ![w] = frame] \/ job' = [job EXCEPT ![w] = Idle]
    BY <1>4 DEF PutReread
  <2> HIDE DEF frame
  <2> QED BY <2>2, <2>3, IdleFits DEF IInv, Fit, FrameFits
<1>5. ASSUME CascadeBegin(w) PROVE IInv'
  <2> DEFINE i == job[w].i
             direct == RequestsClosedWith(db, i, "ferme")
  <2>1. PICK r \in Requests \cup {Null}, di \in Requests \cup {Null} :
            Begins(w, [job[w] EXCEPT !.at = "cascading", !.r = r, !.di = di,
                                     !.flag = direct = {} /\ r # Null])
    BY <1>5 DEF CascadeBegin, Picks, RequestsClosedWith, RequestsLinkedTo,
                AcceptedThroughOccurrence
  <2>2. FrameFits(job[w]) /\ i \in Interventions
    BY <1>5 DEF CascadeBegin, IInv, Fit, FrameFits
  <2>3. CASE direct = {} /\ r # Null
    <3>1. Begins(w, Cascading(job[w], r, di, TRUE))
      BY <2>1, <2>3 DEF Cascading
    <3> QED BY <2>2, <2>3, <3>1, CascadingFits, BeginsInv
  <2>4. CASE ~(direct = {} /\ r # Null)
    <3>1. (direct = {} /\ r # Null) = FALSE
      BY <2>4
    <3>2. Begins(w, Cascading(job[w], r, di, FALSE))
      BY <2>1, <3>1 DEF Cascading
    <3> QED BY <2>2, <3>2, CascadingFits, BeginsInv
  <2> QED BY <2>3, <2>4
<1> QED BY <1>1, <1>2, <1>3, <1>4, <1>5

LEMMA TaskReadsInv ==
    ASSUME IInv, NEW w \in Workers
    PROVE  /\ \A i \in Interventions, optional \in BOOLEAN :
                  CreateTaskRead(w, i, optional) => IInv'
           /\ \A t \in Tasks :
                  /\ \A s \in PatchStatuses : PatchTaskRead(w, t, s) => IInv'
                  /\ \A mode \in ActionModes : ActionRead(w, t, mode) => IInv'
                  /\ DeleteTaskRead(w, t) => IInv'
<1>1. ASSUME NEW i \in Interventions, NEW optional \in BOOLEAN, CreateTaskRead(w, i, optional)
      PROVE  IInv'
  <2>1. Starts(w, "task", [Idle EXCEPT !.at = "creating", !.i = i, !.flag = optional])
    BY <1>1 DEF CreateTaskRead
  <2>2. FrameFits([Idle EXCEPT !.at = "creating", !.i = i, !.flag = optional])
    BY DEF Idle, FrameFits, Frame, Stages
  <2> QED BY <2>1, <2>2, StartsInv
<1>2. ASSUME NEW t \in Tasks, NEW s \in PatchStatuses, PatchTaskRead(w, t, s) PROVE IInv'
  <2>1. Starts(w, "task", [Idle EXCEPT !.at = "patching", !.t = t, !.s = s])
    BY <1>2 DEF PatchTaskRead
  <2>2. FrameFits([Idle EXCEPT !.at = "patching", !.t = t, !.s = s])
    BY DEF Idle, FrameFits, Frame, Stages, PatchStatuses, TaskStatuses, PendingTask
  <2> QED BY <2>1, <2>2, StartsInv
<1>3. ASSUME NEW t \in Tasks, NEW mode \in ActionModes, ActionRead(w, t, mode) PROVE IInv'
  <2>1. Starts(w, "action", [Idle EXCEPT !.at = "acting", !.t = t, !.s = mode])
    BY <1>3 DEF ActionRead
  <2>2. FrameFits([Idle EXCEPT !.at = "acting", !.t = t, !.s = mode])
    BY DEF Idle, FrameFits, Frame, Stages, ActionModes, TaskStatuses, PendingTask
  <2> QED BY <2>1, <2>2, StartsInv
<1>4. ASSUME NEW t \in Tasks, DeleteTaskRead(w, t) PROVE IInv'
  <2>1. Starts(w, "task", [Idle EXCEPT !.at = "removing", !.t = t])
    BY <1>4 DEF DeleteTaskRead
  <2>2. FrameFits([Idle EXCEPT !.at = "removing", !.t = t])
    BY DEF Idle, FrameFits, Frame, Stages
  <2> QED BY <2>1, <2>2, StartsInv
<1> QED BY <1>1, <1>2, <1>3, <1>4

------------------------------------------------------------------------------
(* Writes: the transactions keep the database consistent *)

LEMMA RequestWritesInv ==
    ASSUME IInv, NEW w \in Workers
    PROVE  /\ Hold(w) \/ Reject(w) \/ CloseRequest(w) => IInv'
           /\ \A i \in Interventions : Accept(w, i) \/ LinkWrite(w, i) => IInv'
           /\ SkipWrite(w) => IInv'
<1> DEFINE r == job[w].r
           late == job[w].late
           older == job[w].older
<1>0. Consistent(db) /\ FrameFits(job[w]) /\ FrameFits(Idle)
  BY IdleFits DEF IInv, Fit
<1>1. ASSUME Hold(w) PROVE IInv'
  <2>1. r \in Requests
    BY <1>0, <1>1 DEF Hold, Decides, FrameFits
  <2>2. Consistent(HoldTx(db, r, late))
    BY <1>0, <2>1, HoldConsistent
  <2>3. Commits(w, HoldTx(db, r, late), {r}, older, Idle)
    BY <1>1 DEF Hold
  <2> QED BY <1>0, <2>1, <2>2, <2>3, CommitsInv
<1>2. ASSUME Reject(w) PROVE IInv'
  <2>1. r \in Requests
    BY <1>0, <1>2 DEF Reject, Decides, FrameFits
  <2>2. Consistent(RejectTx(db, r, late))
    BY <1>0, <2>1, RejectConsistent
  <2>3. Commits(w, RejectTx(db, r, late), {r}, older, Idle)
    BY <1>2 DEF Reject
  <2> QED BY <1>0, <2>1, <2>2, <2>3, CommitsInv
<1>3. ASSUME CloseRequest(w) PROVE IInv'
  <2> DEFINE i == job[w].i
             rs == {r} \cup (IF i = Null THEN {} ELSE ClosedByUpdate(db, i, "ferme"))
  <2>1. r \in Requests /\ i \in Interventions \cup {Null}
    BY <1>0, <1>3 DEF CloseRequest, Decides, FrameFits, Frame
  <2>2. Consistent(CloseTx(db, r, i, late))
    BY <1>0, <2>1, CloseConsistent
  <2>3. rs \in SUBSET Requests
    BY <2>1 DEF ClosedByUpdate, RequestsClosedWith, RequestsLinkedTo
  <2>4. Commits(w, CloseTx(db, r, i, late), rs, older, Idle)
    BY <1>3 DEF CloseRequest
  <2> HIDE DEF rs
  <2> QED BY <1>0, <2>2, <2>3, <2>4, CommitsInv
<1>4. ASSUME NEW i \in Interventions, Accept(w, i) PROVE IInv'
  <2> DEFINE planned == OccurrencesOfRequest(db, r) # {}
             d == TakeInCharge(db, r, i, planned, job[w].o, late)
  <2>1. r \in Requests /\ job[w].o \in Occurrences \cup {Null}
    BY <1>0, <1>4 DEF Accept, Decides, FrameFits, Frame
  <2>2. planned \in BOOLEAN
    OBVIOUS
  <2>3. Commits(w, d, {r}, older, Idle)
    BY <1>4 DEF Accept, AcceptTx
  <2> HIDE DEF planned
  <2>4. Consistent(d)
    BY <1>0, <2>1, <2>2, TakeInChargeConsistent
  <2> QED BY <1>0, <2>1, <2>3, <2>4, CommitsInv
<1>5. ASSUME NEW i \in Interventions, LinkWrite(w, i) PROVE IInv'
  <2>1. PICK o \in Occurrences \cup {Null} :
            Commits(w, LinkTx(db, r, i, job[w].flag, o, late), {r}, older, Idle)
    BY <1>5 DEF LinkWrite, Picks, UnattachedOccurrences, OccurrencesOfRequest
  <2> DEFINE planned == job[w].flag \/ o # Null
             d == TakeInCharge(db, r, i, planned, o, late)
  <2>2. r \in Requests
    BY <1>0, <1>5 DEF LinkWrite, FrameFits
  <2>3. planned \in BOOLEAN
    OBVIOUS
  <2>4. Commits(w, d, {r}, older, Idle)
    BY <2>1 DEF LinkTx
  <2> HIDE DEF planned
  <2>5. Consistent(d)
    BY <1>0, <2>2, <2>3, TakeInChargeConsistent
  <2> QED BY <1>0, <2>2, <2>4, <2>5, CommitsInv
<1>6. ASSUME SkipWrite(w) PROVE IInv'
  <2>1. job[w].o \in Occurrences
    BY <1>0, <1>6 DEF SkipWrite, FrameFits
  <2>2. Consistent(SkipTx(db, job[w].o))
    BY <1>0, <2>1, SkipConsistent
  <2>3. Commits(w, SkipTx(db, job[w].o), {}, {}, Idle)
    BY <1>6 DEF SkipWrite, CommitsUndated
  <2> QED BY <1>0, <2>2, <2>3, CommitsInv
<1> QED BY <1>1, <1>2, <1>3, <1>4, <1>5, <1>6

LEMMA InterventionWritesInv ==
    ASSUME IInv, NEW w \in Workers
    PROVE  PutWrite(w) \/ CascadeWrite(w) \/ LogWrite(w) \/ DeleteWrite(w) => IInv'
<1> DEFINE i == job[w].i
           s == job[w].s
<1>0. Consistent(db) /\ FrameFits(job[w]) /\ FrameFits(Idle)
  BY IdleFits DEF IInv, Fit
<1>1. ASSUME PutWrite(w) PROVE IInv'
  <2> DEFINE frame == [job[w] EXCEPT !.at = "rereading"]
  <2>1. i \in Interventions /\ s \in InterventionStatuses
    BY <1>0, <1>1 DEF PutWrite, FrameFits
  <2>2. Consistent(UpdateStatus(db, i, s, {}))
    BY <1>0, <2>1, UpdateStatusConsistent
  <2>3. FrameFits(frame)
    BY <1>0, <2>1 DEF FrameFits, Frame, Stages
  <2>4. ClosedByUpdate(db, i, s) \in SUBSET Requests
    BY DEF ClosedByUpdate, RequestsClosedWith, RequestsLinkedTo
  <2>5. Commits(w, UpdateStatus(db, i, s, {}), ClosedByUpdate(db, i, s), Open, frame)
    BY <1>1 DEF PutWrite
  <2> HIDE DEF frame
  <2> QED BY <2>2, <2>3, <2>4, <2>5, CommitsInv
<1>2. ASSUME CascadeWrite(w) PROVE IInv'
  <2> DEFINE r == job[w].r
             rs == IF r = Null THEN {} ELSE {r}
             d == CascadeTx(db, i, r, job[w].flag, job[w].di, job[w].late)
  <2>1. /\ i \in Interventions /\ r \in Requests \cup {Null}
        /\ job[w].flag \in BOOLEAN /\ (job[w].flag => r # Null)
        /\ ~CascadeRefused(db, i, r, job[w].flag)
    BY <1>0, <1>2 DEF CascadeWrite, FrameFits, Frame
  <2>2. Consistent(d)
    BY <1>0, <2>1, CascadeConsistent
  <2>3. rs \in SUBSET Requests
    BY <2>1
  <2>4. Commits(w, d, rs, job[w].older, Idle)
    BY <1>2 DEF CascadeWrite
  <2> HIDE DEF rs, d
  <2> QED BY <1>0, <2>2, <2>3, <2>4, CommitsInv
<1>3. ASSUME LogWrite(w) PROVE IInv'
  <2>1. i \in Interventions /\ s \in InterventionStatuses
    BY <1>0, <1>3 DEF LogWrite, FrameFits
  <2>2. Consistent(SyncStatusLog(db, i, s, {}))
    BY <1>0, <2>1, SyncStatusLogConsistent
  <2>3. RequestsClosedWith(db, i, s) \in SUBSET Requests
    BY DEF RequestsClosedWith, RequestsLinkedTo
  <2>4. Commits(w, SyncStatusLog(db, i, s, {}), RequestsClosedWith(db, i, s), Open, Idle)
    BY <1>3 DEF LogWrite
  <2> QED BY <1>0, <2>2, <2>3, <2>4, CommitsInv
<1>4. ASSUME DeleteWrite(w) PROVE IInv'
  <2>1. i \in Interventions /\ ~DeleteRefused(db, i)
    BY <1>0, <1>4 DEF DeleteWrite, FrameFits
  <2>2. Consistent(DeleteInterventionTx(db, i))
    BY <1>0, <2>1, DeleteConsistent
  <2>3. Commits(w, DeleteInterventionTx(db, i), {}, {}, Idle)
    BY <1>4 DEF DeleteWrite, CommitsUndated
  <2> QED BY <1>0, <2>2, <2>3, CommitsInv
<1> QED BY <1>1, <1>2, <1>3, <1>4

LEMMA TaskWritesInv ==
    ASSUME IInv, NEW w \in Workers
    PROVE  /\ \A t \in ManualTasks : CreateTaskWrite(w, t) => IInv'
           /\ PatchTaskWrite(w) \/ DeleteTaskWrite(w) \/ ActionWrite(w) => IInv'
<1> DEFINE u == job[w].t
<1>0. Consistent(db) /\ FrameFits(job[w]) /\ FrameFits(Idle)
  BY IdleFits DEF IInv, Fit
<1>1. ASSUME NEW t \in ManualTasks, CreateTaskWrite(w, t) PROVE IInv'
  <2> DEFINE d == CreateTaskTx(db, t, job[w].i, job[w].flag)
  <2>1. /\ t \in Tasks /\ job[w].i \in Interventions /\ job[w].flag \in BOOLEAN
        /\ LiveIntervention(db, job[w].i)
    BY <1>0, <1>1 DEF CreateTaskWrite, FrameFits, Frame, Tasks
  <2>2. Consistent(d)
    BY <1>0, <2>1, CreateTaskConsistent
  <2>3. Commits(w, d, {}, {}, Idle)
    BY <1>1 DEF CreateTaskWrite, CommitsUndated
  <2> QED BY <1>0, <2>2, <2>3, CommitsInv
<1>2. ASSUME PatchTaskWrite(w) PROVE IInv'
  <2>1. u \in Tasks /\ job[w].s \in TaskStatuses
    BY <1>0, <1>2 DEF PatchTaskWrite, FrameFits
  <2>2. Consistent(PatchTaskTx(db, u, job[w].s))
    BY <1>0, <2>1, PatchTaskConsistent
  <2>3. Commits(w, PatchTaskTx(db, u, job[w].s), {}, {}, Idle)
    BY <1>2 DEF PatchTaskWrite, CommitsUndated
  <2> QED BY <1>0, <2>2, <2>3, CommitsInv
<1>3. ASSUME DeleteTaskWrite(w) PROVE IInv'
  <2>1. u \in Tasks
    BY <1>0, <1>3 DEF DeleteTaskWrite, FrameFits
  <2>2. Consistent(DeleteTaskTx(db, u))
    BY <1>0, <2>1, DeleteTaskConsistent
  <2>3. Commits(w, DeleteTaskTx(db, u), {}, {}, Idle)
    BY <1>3 DEF DeleteTaskWrite, CommitsUndated
  <2> QED BY <1>0, <2>2, <2>3, CommitsInv
<1>4. ASSUME ActionWrite(w) PROVE IInv'
  <2>1. u \in Tasks /\ job[w].s \in TaskStatuses /\ db.task[u].status \in TaskStatuses
    BY <1>0, <1>4 DEF ActionWrite, FrameFits
  <2>2. Consistent(ActionTx(db, u, job[w].s))
    BY <1>0, <2>1, ActionConsistent
  <2>3. Commits(w, ActionTx(db, u, job[w].s), {}, {}, Idle)
    BY <1>4 DEF ActionWrite, CommitsUndated
  <2> QED BY <1>0, <2>2, <2>3, CommitsInv
<1> QED BY <1>1, <1>2, <1>3, <1>4

------------------------------------------------------------------------------

LEMMA InitInv == Init => IInv
BY EmptyConsistent, IdleFits DEF Init, IInv, Fit, FrameFits

LEMMA NextInv == IInv /\ [Next]_vars => IInv'
<1> SUFFICES ASSUME IInv, [Next]_vars PROVE IInv'
  OBVIOUS
<1>1. CASE Arrivals
  BY <1>1, ArrivalsInv
<1>2. ASSUME NEW w \in Workers, RequestCall(w) PROVE IInv'
  BY <1>2, RequestReadsInv, RequestWritesInv DEF RequestCall
<1>3. ASSUME NEW w \in Workers, InterventionCall(w) PROVE IInv'
  BY <1>3, InterventionReadsInv, InterventionWritesInv DEF InterventionCall
<1>4. ASSUME NEW w \in Workers, TaskCall(w) PROVE IInv'
  BY <1>4, TaskReadsInv, TaskWritesInv DEF TaskCall
<1>5. ASSUME NEW w \in Workers, Fail(w) PROVE IInv'
  <2>1. Consistent(db) /\ Commits(w, db, {}, {}, Idle)
    BY <1>5 DEF Fail, IInv
  <2> QED BY <2>1, IdleFits, CommitsInv
<1>6. CASE UNCHANGED vars
  BY <1>6 DEF vars, IInv, Fit, Consistent, FrameFits
<1> QED BY <1>1, <1>2, <1>3, <1>4, <1>5, <1>6 DEF Next

\* Whatever calls overlap and wherever they fail, rows and frames stay well formed.
THEOREM TypeCorrect == Spec => []TypeOK
<1>1. IInv => TypeOK
  BY DEF IInv, Fit, Consistent, TypeOK
<1> QED BY <1>1, InitInv, NextInv, PTL DEF Spec

\* The triggers close the request with its intervention on every path, so no
\* overlap of calls leaves a request 'acceptee' on a closed intervention.
THEOREM ClosureReachesRequest == Spec => []AcceptedNotClosed
<1>1. IInv => AcceptedNotClosed
  BY DEF IInv, Consistent, AcceptedNotClosed
<1> QED BY <1>1, InitInv, NextInv, PTL DEF Spec

\* The checks the handlers make may be stale when they write, the foreign keys are
\* not: no row refers to an intervention that is gone.
THEOREM ReferencesHold == Spec => []NoDanglingReference
<1>1. IInv => NoDanglingReference
  BY DEF IInv, Consistent, NoDanglingReference
<1> QED BY <1>1, InitInv, NextInv, PTL DEF Spec

------------------------------------------------------------------------------
(* A preventive intervention is closed with its gamme complete *)

LEMMA SameInterventions ==
    ASSUME NEW d, NEW e, e.intervention = d.intervention
    PROVE  GammeChecked(d, e)
BY DEF GammeChecked

LEMMA ReadsGamme ==
    ASSUME NEW w \in Workers
    PROVE  /\ \A endpoint, frame : Starts(w, endpoint, frame) => GammeChecked(db, db')
           /\ \A frame : Begins(w, frame) => GammeChecked(db, db')
BY DEF Starts, Begins, GammeChecked

LEMMA ArrivalsGamme == ASSUME IInv, Arrivals PROVE GammeChecked(db, db')
<1>0. db \in Database
  BY DEF IInv, Consistent
<1>1. PICK r \in Requests : CreateRequest(r) \/ \E o \in Occurrences : Generate(o, r)
  BY DEF Arrivals
<1>2. CASE CreateRequest(r)
  <2>1. db'.intervention = db.intervention
    BY <1>0, <1>2, InsertRequestEffect DEF CreateRequest
  <2> QED BY <2>1, SameInterventions
<1>3. ASSUME NEW o \in Occurrences, Generate(o, r) PROVE GammeChecked(db, db')
  <2>1. db'.intervention = db.intervention
    BY <1>0, <1>3, ArrivalsUntouched DEF Generate
  <2> QED BY <2>1, SameInterventions
<1> QED BY <1>1, <1>2, <1>3

\* An intervention that is inserted is inserted 'ouvert'.
LEMMA TakenGamme ==
    ASSUME db \in Database, NEW w \in Workers, NEW r \in Requests,
           NEW i \in Interventions, NEW planned \in BOOLEAN,
           NEW o \in Occurrences \cup {Null}, NEW late, NEW rs, NEW before, NEW frame,
           Commits(w, TakeInCharge(db, r, i, planned, o, late), rs, before, frame)
    PROVE  GammeChecked(db, db')
<1> DEFINE d == TakeInCharge(db, r, i, planned, o, late)
<1>1. /\ d.intervention[i].status = "ouvert"
      /\ \A j \in Interventions : j # i => d.intervention[j] = db.intervention[j]
  BY TakeInChargeOpens
<1>2. db' = d
  BY DEF Commits
<1> HIDE DEF d
<1> QED BY <1>1, <1>2 DEF GammeChecked

LEMMA RequestCallGamme ==
    ASSUME IInv, NEW w \in Workers, RequestCall(w)
    PROVE  GammeChecked(db, db')
<1> DEFINE r == job[w].r
           late == job[w].late
<1>0. db \in Database /\ Consistent(db) /\ FrameFits(job[w])
  BY DEF IInv, Fit, Consistent
<1>1. ASSUME NEW q \in Requests, NEW to \in Statuts, TransitionRead(w, q, to)
      PROVE  GammeChecked(db, db')
  BY <1>1, ReadsGamme DEF TransitionRead
<1>2. CASE TransitionBegin(w)
  BY <1>2, ReadsGamme DEF TransitionBegin
<1>3. ASSUME NEW q \in Requests, LinkRead(w, q) PROVE GammeChecked(db, db')
  BY <1>3, ReadsGamme DEF LinkRead
<1>4. ASSUME NEW o \in Occurrences, SkipRead(w, o) PROVE GammeChecked(db, db')
  BY <1>4, ReadsGamme DEF SkipRead
<1>5. CASE Hold(w)
  <2>1. r \in Requests /\ db' = HoldTx(db, r, late)
    BY <1>0, <1>5 DEF Hold, Decides, FrameFits, Commits
  <2>2. db'.intervention = db.intervention
    BY <1>0, <2>1, DecisionsUntouched
  <2> QED BY <2>2, SameInterventions
<1>6. CASE Reject(w)
  <2>1. r \in Requests /\ db' = RejectTx(db, r, late)
    BY <1>0, <1>6 DEF Reject, Decides, FrameFits, Commits
  <2>2. db'.intervention = db.intervention
    BY <1>0, <2>1, DecisionsUntouched
  <2> QED BY <2>2, SameInterventions
<1>7. CASE CloseRequest(w)
  <2> DEFINE i == job[w].i
  <2>1. /\ r \in Requests /\ i \in Interventions \cup {Null}
        /\ ~CloseRefused(db, i)
        /\ db' = CloseTx(db, r, i, late)
    BY <1>0, <1>7 DEF CloseRequest, Decides, FrameFits, Frame, Commits
  <2> QED BY <1>0, <2>1, CloseGammeChecked
<1>8. ASSUME NEW i \in Interventions, Accept(w, i) PROVE GammeChecked(db, db')
  <2> DEFINE planned == OccurrencesOfRequest(db, r) # {}
  <2>1. r \in Requests /\ job[w].o \in Occurrences \cup {Null}
    BY <1>0, <1>8 DEF Accept, Decides, FrameFits, Frame
  <2>2. planned \in BOOLEAN
    OBVIOUS
  <2>3. Commits(w, TakeInCharge(db, r, i, planned, job[w].o, late), {r}, job[w].older, Idle)
    BY <1>8 DEF Accept, AcceptTx
  <2> HIDE DEF planned
  <2> QED BY <1>0, <2>1, <2>2, <2>3, TakenGamme
<1>9. ASSUME NEW i \in Interventions, LinkWrite(w, i) PROVE GammeChecked(db, db')
  <2>1. PICK o \in Occurrences \cup {Null} :
            Commits(w, LinkTx(db, r, i, job[w].flag, o, late), {r}, job[w].older, Idle)
    BY <1>9 DEF LinkWrite, Picks, UnattachedOccurrences, OccurrencesOfRequest
  <2> DEFINE planned == job[w].flag \/ o # Null
  <2>2. r \in Requests
    BY <1>0, <1>9 DEF LinkWrite, FrameFits
  <2>3. planned \in BOOLEAN
    OBVIOUS
  <2>4. Commits(w, TakeInCharge(db, r, i, planned, o, late), {r}, job[w].older, Idle)
    BY <2>1 DEF LinkTx
  <2> HIDE DEF planned
  <2> QED BY <1>0, <2>2, <2>3, <2>4, TakenGamme
<1>10. CASE SkipWrite(w)
  <2>1. job[w].o \in Occurrences /\ db' = SkipTx(db, job[w].o)
    BY <1>0, <1>10 DEF SkipWrite, FrameFits, CommitsUndated, Commits
  <2>2. db'.intervention = db.intervention
    BY <1>0, <2>1 DEF SkipTx, Database
  <2> QED BY <2>2, SameInterventions
<1> QED BY <1>1, <1>2, <1>3, <1>4, <1>5, <1>6, <1>7, <1>8, <1>9, <1>10 DEF RequestCall

LEMMA InterventionCallGamme ==
    ASSUME IInv, NEW w \in Workers, InterventionCall(w)
    PROVE  GammeChecked(db, db')
<1> DEFINE i == job[w].i
           s == job[w].s
<1>0. db \in Database /\ FrameFits(job[w])
  BY DEF IInv, Fit, Consistent
<1>1. ASSUME NEW j \in Interventions, NEW to \in InterventionStatuses,
             PutRead(w, j, to) \/ LogRead(w, j, to)
      PROVE  GammeChecked(db, db')
  BY <1>1, ReadsGamme DEF PutRead, LogRead
<1>2. CASE PutReread(w)
  BY <1>2, SameInterventions DEF PutReread
<1>3. CASE CascadeBegin(w)
  BY <1>3, ReadsGamme DEF CascadeBegin
<1>4. ASSUME NEW j \in Interventions, DeleteRead(w, j) PROVE GammeChecked(db, db')
  BY <1>4, ReadsGamme DEF DeleteRead
<1>5. CASE PutWrite(w)
  <2>1. /\ i \in Interventions /\ s \in InterventionStatuses
        /\ ~UpdateRefused(db, i, s)
        /\ db' = UpdateStatus(db, i, s, {})
    BY <1>0, <1>5 DEF PutWrite, FrameFits, Commits
  <2> QED BY <1>0, <2>1, UpdateGammeChecked
<1>6. CASE CascadeWrite(w)
  <2> DEFINE q == job[w].r
             relink == job[w].flag
             d == CascadeTx(db, i, q, relink, job[w].di, job[w].late)
  <2>1. /\ i \in Interventions /\ q \in Requests \cup {Null}
        /\ relink \in BOOLEAN /\ (relink => q # Null)
    BY <1>0, <1>6 DEF CascadeWrite, FrameFits, Frame
  <2>2. db' = d
    BY <1>6 DEF CascadeWrite, Commits
  <2> HIDE DEF q, relink
  <2>3. d.intervention = db.intervention
    BY <1>0, <2>1, CascadeUntouched
  <2> HIDE DEF d
  <2> QED BY <2>2, <2>3, SameInterventions
<1>7. CASE LogWrite(w)
  <2>1. /\ i \in Interventions /\ s \in InterventionStatuses
        /\ ~GammeIncomplete(db, i, s)
        /\ db' = SyncStatusLog(db, i, s, {})
    BY <1>0, <1>7 DEF LogWrite, FrameFits, Commits, InsertLogRefused
  <2> QED BY <1>0, <2>1, SyncGammeChecked
<1>8. CASE DeleteWrite(w)
  <2>1. i \in Interventions /\ db' = DeleteInterventionTx(db, i)
    BY <1>0, <1>8 DEF DeleteWrite, FrameFits, CommitsUndated, Commits
  <2> QED BY <1>0, <2>1, DeleteGammeChecked
<1> QED BY <1>1, <1>2, <1>3, <1>4, <1>5, <1>6, <1>7, <1>8 DEF InterventionCall

LEMMA TaskCallGamme ==
    ASSUME IInv, NEW w \in Workers, TaskCall(w)
    PROVE  GammeChecked(db, db')
<1> DEFINE u == job[w].t
<1>0. db \in Database /\ FrameFits(job[w])
  BY DEF IInv, Fit, Consistent
<1>1. ASSUME NEW i \in Interventions, NEW optional \in BOOLEAN, CreateTaskRead(w, i, optional)
      PROVE  GammeChecked(db, db')
  BY <1>1, ReadsGamme DEF CreateTaskRead
<1>2. ASSUME NEW t \in Tasks,
             \/ \E s \in PatchStatuses : PatchTaskRead(w, t, s)
             \/ \E mode \in ActionModes : ActionRead(w, t, mode)
             \/ DeleteTaskRead(w, t)
      PROVE  GammeChecked(db, db')
  BY <1>2, ReadsGamme DEF PatchTaskRead, ActionRead, DeleteTaskRead
<1>3. ASSUME NEW t \in ManualTasks, CreateTaskWrite(w, t) PROVE GammeChecked(db, db')
  <2>1. t \in Tasks /\ db' = CreateTaskTx(db, t, job[w].i, job[w].flag)
    BY <1>3 DEF CreateTaskWrite, CommitsUndated, Commits, Tasks
  <2>2. db'.intervention = db.intervention
    BY <1>0, <2>1, TaskTxUntouched
  <2> QED BY <2>2, SameInterventions
<1>4. CASE PatchTaskWrite(w)
  <2>1. u \in Tasks /\ db' = PatchTaskTx(db, u, job[w].s)
    BY <1>0, <1>4 DEF PatchTaskWrite, FrameFits, CommitsUndated, Commits
  <2>2. db'.intervention = db.intervention
    BY <1>0, <2>1, TaskTxUntouched
  <2> QED BY <2>2, SameInterventions
<1>5. CASE DeleteTaskWrite(w)
  <2>1. u \in Tasks /\ db' = DeleteTaskTx(db, u)
    BY <1>0, <1>5 DEF DeleteTaskWrite, FrameFits, CommitsUndated, Commits
  <2>2. db'.intervention = db.intervention
    BY <1>0, <2>1, TaskTxUntouched
  <2> QED BY <2>2, SameInterventions
<1>6. CASE ActionWrite(w)
  <2>1. u \in Tasks /\ db' = ActionTx(db, u, job[w].s)
    BY <1>0, <1>6 DEF ActionWrite, FrameFits, CommitsUndated, Commits
  <2>2. \A j \in Interventions : db'.intervention[j].status = db.intervention[j].status
    BY <1>0, <2>1, TaskTxUntouched
  <2> QED BY <2>2 DEF GammeChecked
<1> QED BY <1>1, <1>2, <1>3, <1>4, <1>5, <1>6 DEF TaskCall

LEMMA NextGamme == IInv /\ [Next]_vars => GammeChecked(db, db')
<1> SUFFICES ASSUME IInv, [Next]_vars PROVE GammeChecked(db, db')
  OBVIOUS
<1>1. CASE Arrivals
  BY <1>1, ArrivalsGamme
<1>2. ASSUME NEW w \in Workers, RequestCall(w) \/ InterventionCall(w) \/ TaskCall(w)
      PROVE  GammeChecked(db, db')
  BY <1>2, RequestCallGamme, InterventionCallGamme, TaskCallGamme
<1>3. ASSUME NEW w \in Workers, Fail(w) PROVE GammeChecked(db, db')
  BY <1>3, SameInterventions DEF Fail, Commits
<1>4. CASE UNCHANGED vars
  BY <1>4, SameInterventions DEF vars
<1> QED BY <1>1, <1>2, <1>3, <1>4 DEF Next

\* However stale the count a call made before its write, and on whichever path the
\* closure comes, the trigger has counted again: no preventive intervention is
\* closed while a task of its gamme is pending.
THEOREM GammeCompleteAtClosure == Spec => ClosesCompleteGamme
<1>1. IInv /\ [Next]_vars =>
          [\A i \in Interventions :
              (/\ db.intervention[i].plan
               /\ db.intervention[i].status # "ferme"
               /\ db'.intervention[i].status = "ferme") => ~Blocking(db, i)]_vars
  BY NextGamme DEF GammeChecked
<1> QED BY <1>1, InitInv, NextInv, PTL DEF Spec, ClosesCompleteGamme

------------------------------------------------------------------------------
(* A task keeps its intervention *)

\* The generation overwrites the task rows of an occurrence that does not exist
\* yet: nobody may have taken them before.
FreshTasks ==
    \A p \in PlanTasks :
        db.occurrence[p[1]].status = "none" =>
            db.task[p].occurrence = Null /\ db.task[p].intervention = Null

LEMMA Unwritten == db' = db => TasksHeld(db, db')
BY SameTasksHeld

LEMMA ReadsHeld ==
    ASSUME NEW w \in Workers
    PROVE  /\ \A endpoint, frame : Starts(w, endpoint, frame) => TasksHeld(db, db')
           /\ \A frame : Begins(w, frame) => TasksHeld(db, db')
BY Unwritten DEF Starts, Begins

LEMMA ArrivalsHeld == ASSUME IInv, Arrivals PROVE TasksHeld(db, db')
<1>0. db \in Database
  BY DEF IInv, Consistent
<1>1. ASSUME NEW r \in Requests, CreateRequest(r) PROVE TasksHeld(db, db')
  BY <1>0, <1>1, DecisionTasksHeld DEF CreateRequest
<1>2. ASSUME NEW r \in Requests, NEW o \in Occurrences, Generate(o, r)
      PROVE  TasksHeld(db, db')
  <2>1. db.occurrence[o].status = "none"
    BY <1>2 DEF Generate, NoOccurrence
  <2> QED BY <1>0, <1>2, <2>1, GenerateTasksHeld DEF Generate
<1> QED BY <1>1, <1>2 DEF Arrivals

LEMMA RequestCallHeld ==
    ASSUME IInv, NEW w \in Workers, RequestCall(w)
    PROVE  TasksHeld(db, db')
<1> DEFINE r == job[w].r
           late == job[w].late
<1>0. db \in Database /\ Consistent(db) /\ FrameFits(job[w])
  BY DEF IInv, Fit, Consistent
<1>1. ASSUME NEW q \in Requests, NEW to \in Statuts, TransitionRead(w, q, to)
      PROVE  TasksHeld(db, db')
  BY <1>1, ReadsHeld DEF TransitionRead
<1>2. CASE TransitionBegin(w)
  BY <1>2, ReadsHeld DEF TransitionBegin
<1>3. ASSUME NEW q \in Requests, LinkRead(w, q) PROVE TasksHeld(db, db')
  BY <1>3, ReadsHeld DEF LinkRead
<1>4. ASSUME NEW o \in Occurrences, SkipRead(w, o) PROVE TasksHeld(db, db')
  BY <1>4, ReadsHeld DEF SkipRead
<1>5. CASE Hold(w)
  <2>1. r \in Requests /\ db' = HoldTx(db, r, late)
    BY <1>0, <1>5 DEF Hold, Decides, FrameFits, Commits
  <2> QED BY <1>0, <2>1, DecisionTasksHeld
<1>6. CASE Reject(w)
  <2>1. r \in Requests /\ db' = RejectTx(db, r, late)
    BY <1>0, <1>6 DEF Reject, Decides, FrameFits, Commits
  <2> QED BY <1>0, <2>1, DecisionTasksHeld
<1>7. CASE CloseRequest(w)
  <2>1. /\ r \in Requests /\ job[w].i \in Interventions \cup {Null}
        /\ db' = CloseTx(db, r, job[w].i, late)
    BY <1>0, <1>7 DEF CloseRequest, Decides, FrameFits, Frame, Commits
  <2> QED BY <1>0, <2>1, CloseTasksHeld
<1>8. ASSUME NEW i \in Interventions, Accept(w, i) PROVE TasksHeld(db, db')
  <2> DEFINE planned == OccurrencesOfRequest(db, r) # {}
  <2>1. r \in Requests /\ job[w].o \in Occurrences \cup {Null}
    BY <1>0, <1>8 DEF Accept, Decides, FrameFits, Frame
  <2>2. planned \in BOOLEAN
    OBVIOUS
  <2>3. db' = TakeInCharge(db, r, i, planned, job[w].o, late)
    BY <1>8 DEF Accept, AcceptTx, Commits
  <2> HIDE DEF planned
  <2> QED BY <1>0, <2>1, <2>2, <2>3, TakenTasksHeld
<1>9. ASSUME NEW i \in Interventions, LinkWrite(w, i) PROVE TasksHeld(db, db')
  <2>1. PICK o \in Occurrences \cup {Null} : db' = LinkTx(db, r, i, job[w].flag, o, late)
    BY <1>9 DEF LinkWrite, Picks, UnattachedOccurrences, OccurrencesOfRequest, Commits
  <2> DEFINE planned == job[w].flag \/ o # Null
  <2>2. r \in Requests
    BY <1>0, <1>9 DEF LinkWrite, FrameFits
  <2>3. planned \in BOOLEAN
    OBVIOUS
  <2>4. db' = TakeInCharge(db, r, i, planned, o, late)
    BY <2>1 DEF LinkTx
  <2> HIDE DEF planned
  <2> QED BY <1>0, <2>2, <2>3, <2>4, TakenTasksHeld
<1>10. CASE SkipWrite(w)
  <2>1. job[w].o \in Occurrences /\ db' = SkipTx(db, job[w].o)
    BY <1>0, <1>10 DEF SkipWrite, FrameFits, CommitsUndated, Commits
  <2> QED BY <1>0, <2>1, SkipTasksHeld
<1> QED BY <1>1, <1>2, <1>3, <1>4, <1>5, <1>6, <1>7, <1>8, <1>9, <1>10 DEF RequestCall

LEMMA InterventionCallHeld ==
    ASSUME IInv, NEW w \in Workers, InterventionCall(w)
    PROVE  TasksHeld(db, db')
<1> DEFINE i == job[w].i
           s == job[w].s
<1>0. db \in Database /\ FrameFits(job[w])
  BY DEF IInv, Fit, Consistent
<1>1. ASSUME NEW j \in Interventions, NEW to \in InterventionStatuses,
             PutRead(w, j, to) \/ LogRead(w, j, to)
      PROVE  TasksHeld(db, db')
  BY <1>1, ReadsHeld DEF PutRead, LogRead
<1>2. CASE PutReread(w)
  BY <1>2, Unwritten DEF PutReread
<1>3. CASE CascadeBegin(w)
  BY <1>3, ReadsHeld DEF CascadeBegin
<1>4. ASSUME NEW j \in Interventions, DeleteRead(w, j) PROVE TasksHeld(db, db')
  BY <1>4, ReadsHeld DEF DeleteRead
<1>5. CASE PutWrite(w)
  <2>1. /\ i \in Interventions /\ s \in InterventionStatuses
        /\ db' = UpdateStatus(db, i, s, {})
    BY <1>0, <1>5 DEF PutWrite, FrameFits, Commits
  <2> QED BY <1>0, <2>1, UpdateTasksHeld
<1>6. CASE CascadeWrite(w)
  <2> DEFINE q == job[w].r
             relink == job[w].flag
  <2>1. /\ i \in Interventions /\ q \in Requests \cup {Null}
        /\ relink \in BOOLEAN /\ (relink => q # Null)
    BY <1>0, <1>6 DEF CascadeWrite, FrameFits, Frame
  <2>2. db' = CascadeTx(db, i, q, relink, job[w].di, job[w].late)
    BY <1>6 DEF CascadeWrite, Commits
  <2> HIDE DEF q, relink
  <2> QED BY <1>0, <2>1, <2>2, CascadeTasksHeld
<1>7. CASE LogWrite(w)
  <2>1. /\ i \in Interventions /\ s \in InterventionStatuses
        /\ db' = SyncStatusLog(db, i, s, {})
    BY <1>0, <1>7 DEF LogWrite, FrameFits, Commits
  <2> QED BY <1>0, <2>1, SyncTasksHeld
<1>8. CASE DeleteWrite(w)
  <2>1. i \in Interventions /\ db' = DeleteInterventionTx(db, i)
    BY <1>0, <1>8 DEF DeleteWrite, FrameFits, CommitsUndated, Commits
  <2> QED BY <1>0, <2>1, DeleteTasksHeld
<1> QED BY <1>1, <1>2, <1>3, <1>4, <1>5, <1>6, <1>7, <1>8 DEF InterventionCall

LEMMA TaskCallHeld ==
    ASSUME IInv, NEW w \in Workers, TaskCall(w)
    PROVE  TasksHeld(db, db')
<1> DEFINE u == job[w].t
<1>0. db \in Database /\ FrameFits(job[w])
  BY DEF IInv, Fit, Consistent
<1>1. ASSUME NEW i \in Interventions, NEW optional \in BOOLEAN, CreateTaskRead(w, i, optional)
      PROVE  TasksHeld(db, db')
  BY <1>1, ReadsHeld DEF CreateTaskRead
<1>2. ASSUME NEW t \in Tasks,
             \/ \E s \in PatchStatuses : PatchTaskRead(w, t, s)
             \/ \E mode \in ActionModes : ActionRead(w, t, mode)
             \/ DeleteTaskRead(w, t)
      PROVE  TasksHeld(db, db')
  BY <1>2, ReadsHeld DEF PatchTaskRead, ActionRead, DeleteTaskRead
<1>3. ASSUME NEW t \in ManualTasks, CreateTaskWrite(w, t) PROVE TasksHeld(db, db')
  <2>1. db' = CreateTaskTx(db, t, job[w].i, job[w].flag)
    BY <1>3 DEF CreateTaskWrite, CommitsUndated, Commits
  <2>2. db.task[t].intervention = Null
    BY <1>3 DEF CreateTaskWrite, NoTask
  <2> QED BY <1>0, <2>1, <2>2, CreateTaskHeld
<1>4. CASE PatchTaskWrite(w)
  <2>1. u \in Tasks /\ db' = PatchTaskTx(db, u, job[w].s)
    BY <1>0, <1>4 DEF PatchTaskWrite, FrameFits, CommitsUndated, Commits
  <2> QED BY <1>0, <2>1, PatchTaskHeld
<1>5. CASE DeleteTaskWrite(w)
  <2>1. u \in Tasks /\ db' = DeleteTaskTx(db, u)
    BY <1>0, <1>5 DEF DeleteTaskWrite, FrameFits, CommitsUndated, Commits
  <2> QED BY <1>0, <2>1, DeleteTaskHeld
<1>6. CASE ActionWrite(w)
  <2>1. u \in Tasks /\ db' = ActionTx(db, u, job[w].s)
    BY <1>0, <1>6 DEF ActionWrite, FrameFits, CommitsUndated, Commits
  <2> QED BY <1>0, <2>1, ActionTaskHeld
<1> QED BY <1>1, <1>2, <1>3, <1>4, <1>5, <1>6 DEF TaskCall

LEMMA NextHeld == IInv /\ [Next]_vars => TasksHeld(db, db')
<1> SUFFICES ASSUME IInv, [Next]_vars PROVE TasksHeld(db, db')
  OBVIOUS
<1>1. CASE Arrivals
  BY <1>1, ArrivalsHeld
<1>2. ASSUME NEW w \in Workers, RequestCall(w) \/ InterventionCall(w) \/ TaskCall(w)
      PROVE  TasksHeld(db, db')
  BY <1>2, RequestCallHeld, InterventionCallHeld, TaskCallHeld
<1>3. ASSUME NEW w \in Workers, Fail(w) PROVE TasksHeld(db, db')
  BY <1>3, Unwritten DEF Fail, Commits
<1>4. CASE UNCHANGED vars
  BY <1>4, Unwritten DEF vars
<1> QED BY <1>1, <1>2, <1>3, <1>4 DEF Next

LEMMA FreshStays == FreshTasks /\ TasksHeld(db, db') => FreshTasks'
<1> SUFFICES ASSUME FreshTasks, TasksHeld(db, db'), NEW p \in PlanTasks,
                    db'.occurrence[p[1]].status = "none"
             PROVE  db'.task[p].occurrence = Null /\ db'.task[p].intervention = Null
  BY DEF FreshTasks
<1>1. p \in Tasks /\ p[1] \in Occurrences /\ p \notin ManualTasks
  BY TablesAssumption DEF PlanTasks, Tasks
<1>2. db.occurrence[p[1]].status = "none"
  BY <1>1 DEF TasksHeld
<1>3. db.task[p].occurrence = Null /\ db.task[p].intervention = Null
  BY <1>2 DEF FreshTasks
<1> QED BY <1>1, <1>2, <1>3 DEF TasksHeld

\* Two calls may take the same occurrence in charge, and a task may be written by a
\* call that read it long before: its intervention is never replaced.
THEOREM InterventionKept == Spec => TaskKeepsIntervention
<1>1. Init => FreshTasks
  BY DEF Init, EmptyDatabase, FreshTasks, NoTask, PlanTasks, Tasks
<1>2. IInv /\ FreshTasks /\ [Next]_vars => FreshTasks'
  BY NextHeld, FreshStays
<1>3. IInv /\ FreshTasks /\ [Next]_vars =>
          [\A t \in Tasks :
              db.task[t].intervention # Null =>
                  \/ db'.task[t].intervention = db.task[t].intervention
                  \/ db'.task[t].status = "deleted"]_vars
  <2> SUFFICES ASSUME IInv, FreshTasks, [Next]_vars, NEW t \in Tasks,
                      db.task[t].intervention # Null
               PROVE  \/ db'.task[t].intervention = db.task[t].intervention
                      \/ db'.task[t].status = "deleted"
    OBVIOUS
  <2>1. TasksHeld(db, db')
    BY NextHeld
  <2> QED BY <2>1 DEF TasksHeld, FreshTasks
<1> QED BY <1>1, <1>2, <1>3, InitInv, NextInv, PTL DEF Spec, TaskKeepsIntervention

------------------------------------------------------------------------------
(* With one worker: the tables of the instances are the tables *)

SP == INSTANCE MaintenanceWorkflow_proofs

LEMMA SameNext == SP!Next = Serial!Next
<1>1. SP!RequestNext = Serial!RequestNext
  BY ZenonT(60)
     DEF SP!RequestNext, Serial!RequestNext, SP!Accept, Serial!Accept, SP!AcceptTx,
         Serial!AcceptTx, SP!OccurrencesOfRequest, Serial!OccurrencesOfRequest,
         SP!TakeInCharge, Serial!TakeInCharge, SP!AttachOccurrence,
         Serial!AttachOccurrence, SP!Tasks, Serial!Tasks, SP!PlanTasks,
         Serial!PlanTasks, SP!InsertIntervention, Serial!InsertIntervention,
         SP!NoIntervention, Serial!NoIntervention, SP!LinkTo, Serial!LinkTo,
         SP!LogRequest, Serial!LogRequest, SP!Logged, Serial!Logged, SP!Counted,
         Serial!Counted, SP!Picks, Serial!Picks, SP!TransitionValid,
         Serial!TransitionValid, SP!AllowedTransitions, Serial!AllowedTransitions,
         SP!Statuts, Serial!Statuts, SP!Close, Serial!Close, SP!CloseRefused,
         Serial!CloseRefused, SP!LiveIntervention, Serial!LiveIntervention,
         SP!InterventionStatuses, Serial!InterventionStatuses, SP!OpenStatuses,
         Serial!OpenStatuses, SP!UpdateRefused, Serial!UpdateRefused,
         SP!InsertLogRefused, Serial!InsertLogRefused, SP!GammeIncomplete,
         Serial!GammeIncomplete, SP!Blocking, Serial!Blocking, SP!PendingTask,
         Serial!PendingTask, SP!LogIncoherent, Serial!LogIncoherent,
         SP!RequestsClosedWith, Serial!RequestsClosedWith, SP!RequestsLinkedTo,
         Serial!RequestsLinkedTo, SP!CloseTx, Serial!CloseTx, SP!CloseLinked,
         Serial!CloseLinked, SP!UpdateStatus, Serial!UpdateStatus, SP!SyncStatusLog,
         Serial!SyncStatusLog, SP!CompleteOccurrences, Serial!CompleteOccurrences,
         SP!CreateRequest, Serial!CreateRequest, SP!InsertRequest, Serial!InsertRequest,
         SP!NoRequest, Serial!NoRequest, SP!Generate, Serial!Generate,
         SP!ActiveOccurrence, Serial!ActiveOccurrence, SP!GenerateTx, Serial!GenerateTx,
         SP!NoOccurrence, Serial!NoOccurrence, SP!NoTask, Serial!NoTask, SP!Hold,
         Serial!Hold, SP!HoldTx, Serial!HoldTx, SP!Reject, Serial!Reject, SP!RejectTx,
         Serial!RejectTx, SP!Skip, Serial!Skip, SP!SkipTx, Serial!SkipTx
<1>2. SP!InterventionNext = Serial!InterventionNext
  BY ZenonT(60)
     DEF SP!InterventionNext, Serial!InterventionNext, SP!CreateIntervention,
         Serial!CreateIntervention, SP!LinkTx, Serial!LinkTx, SP!TakeInCharge,
         Serial!TakeInCharge, SP!AttachOccurrence, Serial!AttachOccurrence, SP!Tasks,
         Serial!Tasks, SP!PlanTasks, Serial!PlanTasks, SP!InsertIntervention,
         Serial!InsertIntervention, SP!NoIntervention, Serial!NoIntervention, SP!LinkTo,
         Serial!LinkTo, SP!LogRequest, Serial!LogRequest, SP!Logged, Serial!Logged,
         SP!Counted, Serial!Counted, SP!Linkable, Serial!Linkable,
         SP!OccurrencesOfRequest, Serial!OccurrencesOfRequest, SP!Picks, Serial!Picks,
         SP!UnattachedOccurrences, Serial!UnattachedOccurrences, SP!DeleteIntervention,
         Serial!DeleteIntervention, SP!DeleteInterventionTx,
         Serial!DeleteInterventionTx, SP!DeleteRefused, Serial!DeleteRefused,
         SP!LiveIntervention, Serial!LiveIntervention, SP!InterventionStatuses,
         Serial!InterventionStatuses, SP!OpenStatuses, Serial!OpenStatuses,
         SP!LogStatus, Serial!LogStatus, SP!InsertLogRefused, Serial!InsertLogRefused,
         SP!GammeIncomplete, Serial!GammeIncomplete, SP!Blocking, Serial!Blocking,
         SP!PendingTask, Serial!PendingTask, SP!LogIncoherent, Serial!LogIncoherent,
         SP!RequestsClosedWith, Serial!RequestsClosedWith, SP!RequestsLinkedTo,
         Serial!RequestsLinkedTo, SP!SyncStatusLog, Serial!SyncStatusLog, SP!SetStatus,
         Serial!SetStatus, SP!UpdateRefused, Serial!UpdateRefused, SP!UpdateStatus,
         Serial!UpdateStatus
<1>3. SP!TaskNext = Serial!TaskNext
  BY DEF SP!TaskNext, Serial!TaskNext, SP!ActionModes, Serial!ActionModes, SP!AddAction,
         Serial!AddAction, SP!TagTx, Serial!TagTx, SP!Tagged, Serial!Tagged,
         SP!TasksOf, Serial!TasksOf, SP!TaskAfterAction,
         Serial!TaskAfterAction, SP!PendingTask, Serial!PendingTask, SP!TaskEditable,
         Serial!TaskEditable, SP!Editable, Serial!Editable, SP!OpenStatuses,
         Serial!OpenStatuses, SP!TaskStatuses, Serial!TaskStatuses, SP!CreateTask,
         Serial!CreateTask, SP!CreateTaskTx, Serial!CreateTaskTx, SP!NoTask,
         Serial!NoTask, SP!DeleteTask, Serial!DeleteTask, SP!DeleteTaskTx,
         Serial!DeleteTaskTx, SP!PatchStatuses, Serial!PatchStatuses, SP!PatchTask,
         Serial!PatchTask, SP!PatchTaskTx, Serial!PatchTaskTx, SP!Tasks, Serial!Tasks,
         SP!PlanTasks, Serial!PlanTasks
<1> QED BY <1>1, <1>2, <1>3 DEF SP!Next, Serial!Next

LEMMA SameValues ==
    /\ SP!Tasks = Tasks
    /\ SP!Statuts = Statuts
    /\ SP!InterventionStatuses = InterventionStatuses
    /\ SP!TaskStatuses = TaskStatuses
    /\ SP!PendingTask = PendingTask
    /\ SP!ActiveOccurrence = ActiveOccurrence
    /\ SP!NoRequest = NoRequest
    /\ SP!NoIntervention = NoIntervention
    /\ SP!NoOccurrence = NoOccurrence
    /\ SP!NoTask = NoTask
    /\ SP!EmptyDatabase = EmptyDatabase
BY DEF Tasks, PlanTasks, Statuts, InterventionStatuses, OpenStatuses, TaskStatuses,
       PendingTask, ActiveOccurrence, NoRequest, NoIntervention, NoOccurrence, NoTask,
       EmptyDatabase, SP!Tasks, SP!PlanTasks, SP!Statuts, SP!InterventionStatuses,
       SP!OpenStatuses, SP!TaskStatuses, SP!PendingTask, SP!ActiveOccurrence,
       SP!NoRequest, SP!NoIntervention, SP!NoOccurrence, SP!NoTask, SP!EmptyDatabase

LEMMA SameQueries ==
    /\ \A S : SP!Picks(S) = Picks(S)
    /\ \A d, i : SP!LiveIntervention(d, i) = LiveIntervention(d, i)
    /\ \A d, i : SP!RequestsLinkedTo(d, i) = RequestsLinkedTo(d, i)
    /\ \A d, r : SP!OccurrencesOfRequest(d, r) = OccurrencesOfRequest(d, r)
    /\ \A d, r : SP!UnattachedOccurrences(d, r) = UnattachedOccurrences(d, r)
    /\ \A d, i : SP!Blocking(d, i) = Blocking(d, i)
    /\ \A d, i : SP!Editable(d, i) = Editable(d, i)
    /\ \A d, r, to : SP!TransitionValid(d, r, to) = TransitionValid(d, r, to)
    /\ \A d, r : SP!Linkable(d, r) = Linkable(d, r)
    /\ \A d, i, s : SP!InsertLogRefused(d, i, s) = InsertLogRefused(d, i, s)
    /\ \A d, i, s : SP!UpdateRefused(d, i, s) = UpdateRefused(d, i, s)
    /\ \A d, i : SP!CloseRefused(d, i) = CloseRefused(d, i)
    /\ \A d, i : SP!DeleteRefused(d, i) = DeleteRefused(d, i)
BY DEF Picks, LiveIntervention, InterventionStatuses, OpenStatuses, RequestsLinkedTo,
       OccurrencesOfRequest, UnattachedOccurrences, Blocking, Tasks, PlanTasks,
       PendingTask, Editable, TransitionValid, Statuts, AllowedTransitions, Linkable,
       InsertLogRefused, GammeIncomplete, LogIncoherent, RequestsClosedWith,
       UpdateRefused, CloseRefused, DeleteRefused, SP!Picks, SP!LiveIntervention,
       SP!InterventionStatuses, SP!OpenStatuses, SP!RequestsLinkedTo,
       SP!OccurrencesOfRequest, SP!UnattachedOccurrences, SP!Blocking, SP!Tasks,
       SP!PlanTasks, SP!PendingTask, SP!Editable, SP!TransitionValid, SP!Statuts,
       SP!AllowedTransitions, SP!Linkable, SP!InsertLogRefused, SP!GammeIncomplete,
       SP!LogIncoherent, SP!RequestsClosedWith, SP!UpdateRefused, SP!CloseRefused,
       SP!DeleteRefused

LEMMA SameParts ==
    /\ \A d, r, to, late : SP!LogRequest(d, r, to, late) = LogRequest(d, r, to, late)
    /\ \A d, o, i : SP!AttachOccurrence(d, o, i) = AttachOccurrence(d, o, i)
    /\ \A d, i, planned : SP!InsertIntervention(d, i, planned) = InsertIntervention(d, i, planned)
    /\ \A d, r, i : SP!LinkTo(d, r, i) = LinkTo(d, r, i)
    /\ \A d, i, r : SP!CompleteOccurrences(d, i, r) = CompleteOccurrences(d, i, r)
<1>1. \A d, r, to, late : SP!LogRequest(d, r, to, late) = LogRequest(d, r, to, late)
  BY DEF LogRequest, Logged, Counted, SP!LogRequest, SP!Logged, SP!Counted
<1>2. \A d, o, i : SP!AttachOccurrence(d, o, i) = AttachOccurrence(d, o, i)
  BY DEF AttachOccurrence, Tasks, PlanTasks, SP!AttachOccurrence, SP!Tasks, SP!PlanTasks
<1>3. \A d, i, planned :
          SP!InsertIntervention(d, i, planned) = InsertIntervention(d, i, planned)
  BY DEF InsertIntervention, NoIntervention, SP!InsertIntervention, SP!NoIntervention
<1>4. \A d, r, i : SP!LinkTo(d, r, i) = LinkTo(d, r, i)
  BY DEF LinkTo, SP!LinkTo
<1>5. \A d, i, r : SP!CompleteOccurrences(d, i, r) = CompleteOccurrences(d, i, r)
  BY DEF CompleteOccurrences, SP!CompleteOccurrences
<1> QED BY <1>1, <1>2, <1>3, <1>4, <1>5

LEMMA SameDecisions ==
    /\ \A d, r, late : SP!HoldTx(d, r, late) = HoldTx(d, r, late)
    /\ \A d, r, late : SP!RejectTx(d, r, late) = RejectTx(d, r, late)
    /\ \A d, r, i, o, late : SP!AcceptTx(d, r, i, o, late) = AcceptTx(d, r, i, o, late)
    /\ \A d, r, i, planned, o, late :
           SP!LinkTx(d, r, i, planned, o, late) = LinkTx(d, r, i, planned, o, late)
<1>1. \A d, r, late : SP!HoldTx(d, r, late) = HoldTx(d, r, late)
  BY SameParts DEF HoldTx, SP!HoldTx
<1>2. \A d, r, late : SP!RejectTx(d, r, late) = RejectTx(d, r, late)
  BY SameParts DEF RejectTx, SP!RejectTx
<1>3. \A d, r, i, planned, o, late :
          SP!TakeInCharge(d, r, i, planned, o, late) = TakeInCharge(d, r, i, planned, o, late)
  BY SameParts DEF TakeInCharge, SP!TakeInCharge
<1>4. \A d, r, i, o, late : SP!AcceptTx(d, r, i, o, late) = AcceptTx(d, r, i, o, late)
  BY <1>3, SameQueries DEF AcceptTx, SP!AcceptTx
<1>5. \A d, r, i, planned, o, late :
          SP!LinkTx(d, r, i, planned, o, late) = LinkTx(d, r, i, planned, o, late)
  BY <1>3 DEF LinkTx, SP!LinkTx
<1> QED BY <1>1, <1>2, <1>4, <1>5

LEMMA SameClosures ==
    /\ \A d, r, i, late : SP!CloseTx(d, r, i, late) = CloseTx(d, r, i, late)
    /\ \A d, i, s, late : SP!UpdateStatus(d, i, s, late) = UpdateStatus(d, i, s, late)
    /\ \A d, i, s, late : SP!SyncStatusLog(d, i, s, late) = SyncStatusLog(d, i, s, late)
<1>1. \A d, i, s, late : SP!SyncStatusLog(d, i, s, late) = SyncStatusLog(d, i, s, late)
  BY DEF SyncStatusLog, Logged, Counted, RequestsClosedWith, RequestsLinkedTo,
         SP!SyncStatusLog, SP!Logged, SP!Counted, SP!RequestsClosedWith, SP!RequestsLinkedTo
<1>2. \A d, i, s, late : SP!UpdateStatus(d, i, s, late) = UpdateStatus(d, i, s, late)
  BY <1>1 DEF UpdateStatus, SP!UpdateStatus
<1>3. \A d, i, late : SP!CloseLinked(d, i, late) = CloseLinked(d, i, late)
  BY <1>2, SameQueries DEF CloseLinked, SP!CloseLinked
<1>4. \A d, r, i, late : SP!CloseTx(d, r, i, late) = CloseTx(d, r, i, late)
  BY <1>3, SameParts DEF CloseTx, SP!CloseTx
<1> QED BY <1>1, <1>2, <1>4

LEMMA SameWrites ==
    /\ \A d, r : SP!InsertRequest(d, r) = InsertRequest(d, r)
    /\ \A d, o, r : SP!GenerateTx(d, o, r) = GenerateTx(d, o, r)
    /\ \A d, o : SP!SkipTx(d, o) = SkipTx(d, o)
    /\ \A d, i : SP!DeleteInterventionTx(d, i) = DeleteInterventionTx(d, i)
BY DEF InsertRequest, NoRequest, GenerateTx, NoOccurrence, Tasks, PlanTasks, NoTask,
       SkipTx, DeleteInterventionTx, NoIntervention, SP!InsertRequest, SP!NoRequest,
       SP!GenerateTx, SP!NoOccurrence, SP!Tasks, SP!PlanTasks, SP!NoTask, SP!SkipTx,
       SP!DeleteInterventionTx, SP!NoIntervention

LEMMA SameTaskWrites ==
    /\ \A d, t, i, optional :
           SP!CreateTaskTx(d, t, i, optional) = CreateTaskTx(d, t, i, optional)
    /\ \A d, t, s : SP!PatchTaskTx(d, t, s) = PatchTaskTx(d, t, s)
    /\ \A d, t : SP!DeleteTaskTx(d, t) = DeleteTaskTx(d, t)
    /\ \A d, i, tags : SP!TagTx(d, i, tags) = TagTx(d, i, tags)
BY DEF CreateTaskTx, NoTask, PatchTaskTx, TaskStatuses, PendingTask, DeleteTaskTx,
       TagTx, Tagged, TaskAfterAction, Tasks, PlanTasks, SP!CreateTaskTx, SP!NoTask,
       SP!PatchTaskTx, SP!TaskStatuses, SP!PendingTask, SP!DeleteTaskTx, SP!TagTx,
       SP!Tagged, SP!TaskAfterAction, SP!Tasks, SP!PlanTasks

------------------------------------------------------------------------------
(* What a call has read still holds *)

Alone == \A v, w \in Workers : v = w

TaskOpen(d, t) == /\ d.task[t].status \in TaskStatuses
                  /\ d.task[t].intervention # Null
                  /\ Editable(d, d.task[t].intervention)

\* What the next step of a call relies on, and no longer checks.
Ready(d, f) ==
    /\ f.late = {}
    /\ f.at \in {"validated", "deciding"} =>
           /\ TransitionValid(d, f.r, f.s)
           /\ f.i = d.request[f.r].intervention
    /\ (f.at = "deciding" /\ f.s = "acceptee") => f.o \in Picks(OccurrencesOfRequest(d, f.r))
    /\ f.at = "linking" =>
           /\ Linkable(d, f.r)
           /\ f.flag <=> (OccurrencesOfRequest(d, f.r) # {})
    /\ f.at \in {"putting", "logging", "deleting"} => LiveIntervention(d, f.i)
    /\ (f.at = "putting" /\ f.s = "ferme") => ~Blocking(d, f.i)
    /\ f.at = "deleting" => ~d.intervention[f.i].actions
    /\ f.at \in {"cascade", "cascading"} => d.intervention[f.i].status = "ferme"
    /\ f.at = "cascading" => /\ f.r = Null /\ ~f.flag
                             /\ f.di # Null => d.request[f.di].intervention = f.i
    /\ f.at = "skipping" => d.occurrence[f.o].status = "pending"
    /\ f.at = "creating" => Editable(d, f.i)
    /\ f.at \in {"patching", "removing", "acting"} => TaskOpen(d, f.t)
    /\ f.at = "patching" => f.s \in PatchStatuses
    /\ f.at = "removing" => ~d.task[f.t].tagged
    /\ f.at = "acting" => f.s \in ActionModes /\ d.task[f.t].status \in PendingTask

OneInv == IInv /\ SP!IInv /\ \A w \in Workers : Ready(db, job[w])

LEMMA IdleReady == \A d : Ready(d, Idle)
BY DEF Ready, Idle

\* What the serial invariant says of the rows a call refers to.
LEMMA SerialFacts ==
    ASSUME SP!IInv, IInv
    PROVE  /\ \A r \in Requests : db.request[r].intervention # Null =>
                  db.request[r].statut \in {"acceptee", "cloturee"}
           /\ \A o \in Occurrences : db.occurrence[o].status = "none" =>
                  \A s \in Steps : db.task[<<o, s>>].intervention = Null
           /\ \A o \in Occurrences, i \in Interventions :
                  (db.occurrence[o].intervention = i /\ db.intervention[i].status = "ferme") =>
                      /\ db.occurrence[o].status = "completed"
                      /\ db.request[db.occurrence[o].request].statut = "cloturee"
           /\ \A o \in Occurrences, i \in Interventions :
                  LET r == db.occurrence[o].request IN
                  (/\ r # Null /\ db.request[r].intervention = i
                   /\ db.intervention[i].status = "ferme") =>
                      db.occurrence[o].status = "completed"
<1>1. \A r \in Requests : db.request[r].intervention # Null =>
          db.request[r].statut \in {"acceptee", "cloturee"}
  BY DEF SP!IInv, SP!LinkedOnlyOnceAccepted
<1>2. \A o \in Occurrences : db.occurrence[o].status = "none" =>
          /\ db.occurrence[o].request = Null /\ db.occurrence[o].intervention = Null
          /\ \A s \in Steps : db.task[<<o, s>>].intervention = Null
  BY DEF SP!IInv, SP!FreshOccurrences
<1>3. \A r \in Requests, i \in Interventions :
          (/\ db.request[r].statut = "acceptee"
           /\ db.request[r].intervention = i) => db.intervention[i].status # "ferme"
  BY DEF IInv, Consistent, AcceptedOpen, OpenStatuses
<1>4. \A o \in Occurrences :
          /\ db.occurrence[o].status \in {"pending", "skipped"} =>
                 db.occurrence[o].request = Null /\ db.occurrence[o].intervention = Null
          /\ db.occurrence[o].status = "generated" =>
                 /\ db.occurrence[o].request # Null /\ db.occurrence[o].intervention = Null
                 /\ db.request[db.occurrence[o].request].statut \in {"nouvelle", "en_attente"}
          /\ db.occurrence[o].status \in {"in_progress", "completed"} =>
                 /\ db.occurrence[o].request # Null
                 /\ db.request[db.occurrence[o].request].intervention
                        = db.occurrence[o].intervention
                 /\ db.request[db.occurrence[o].request].statut =
                        (IF db.occurrence[o].status = "in_progress"
                         THEN "acceptee" ELSE "cloturee")
  BY DEF SP!IInv, SP!OccurrenceFollowsRequest
<1>5. \A o \in Occurrences :
          /\ db.occurrence[o].status \in {"none", "pending", "skipped", "generated",
                                          "in_progress", "completed"}
          /\ db.occurrence[o].request \in Requests \cup {Null}
          /\ db.occurrence[o].intervention \in Interventions \cup {Null}
  BY DEF IInv, Consistent, Database, OccurrenceRow, OccurrenceStatuses, ActiveOccurrence
<1>6. \A i \in Interventions : i # Null
  BY TablesAssumption
<1>7. \A o \in Occurrences, i \in Interventions :
          (db.occurrence[o].intervention = i /\ db.intervention[i].status = "ferme") =>
              /\ db.occurrence[o].status = "completed"
              /\ db.request[db.occurrence[o].request].statut = "cloturee"
  BY <1>2, <1>3, <1>4, <1>5, <1>6
<1>8. \A o \in Occurrences, i \in Interventions :
          LET r == db.occurrence[o].request IN
          (/\ r # Null /\ db.request[r].intervention = i
           /\ db.intervention[i].status = "ferme") =>
              db.occurrence[o].status = "completed"
  BY <1>1, <1>2, <1>3, <1>4, <1>5, <1>6
<1> QED BY <1>1, <1>2, <1>7, <1>8

------------------------------------------------------------------------------
(* Reads *)

LEMMA StartsReady ==
    ASSUME Alone, NEW w \in Workers, NEW endpoint, NEW frame, Ready(db, frame),
           job \in [Workers -> Frame], Starts(w, endpoint, frame)
    PROVE  db' = db /\ \A v \in Workers : Ready(db', job'[v])
BY DEF Alone, Starts

LEMMA BeginsReady ==
    ASSUME Alone, NEW w \in Workers, NEW frame \in Frame, Ready(db, frame),
           job \in [Workers -> Frame], Begins(w, frame)
    PROVE  db' = db /\ \A v \in Workers : Ready(db', job'[v])
<1> DEFINE g == [frame EXCEPT !.older = Open]
<1>1. /\ g.at = frame.at /\ g.r = frame.r /\ g.di = frame.di /\ g.i = frame.i
      /\ g.o = frame.o /\ g.t = frame.t /\ g.s = frame.s /\ g.late = frame.late
  BY DEF Frame
<1>2. g.flag = frame.flag
  BY DEF Frame
<1>3. db' = db /\ \A v \in Workers : job'[v] = g
  BY DEF Alone, Begins
<1> HIDE DEF g
<1>4. Ready(db, g)
  BY <1>1, <1>2 DEF Ready
<1> QED BY <1>3, <1>4

LEMMA RequestReadsReady ==
    ASSUME OneInv, Alone, NEW w \in Workers,
           \/ \E r \in Requests, to \in Statuts : TransitionRead(w, r, to)
           \/ TransitionBegin(w)
           \/ \E r \in Requests : LinkRead(w, r)
           \/ \E o \in Occurrences : SkipRead(w, o)
    PROVE  db' = db /\ \A v \in Workers : Ready(db', job'[v])
<1>0. job \in [Workers -> Frame] /\ FrameFits(job[w]) /\ Ready(db, job[w])
  BY DEF OneInv, IInv, Fit
<1>1. ASSUME NEW r \in Requests, NEW to \in Statuts, TransitionRead(w, r, to)
      PROVE  db' = db /\ \A v \in Workers : Ready(db', job'[v])
  <2> DEFINE frame == [Idle EXCEPT !.at = "validated", !.r = r, !.s = to,
                                   !.i = db.request[r].intervention]
  <2>1. Starts(w, "transition", frame) /\ TransitionValid(db, r, to)
    BY <1>1 DEF TransitionRead
  <2>2. /\ frame.at = "validated" /\ frame.r = r /\ frame.s = to
        /\ frame.i = db.request[r].intervention /\ frame.late = {}
    BY DEF Idle
  <2> HIDE DEF frame
  <2>3. Ready(db, frame)
    BY <2>1, <2>2 DEF Ready
  <2> QED BY <1>0, <2>1, <2>3, StartsReady
<1>2. ASSUME TransitionBegin(w)
      PROVE  db' = db /\ \A v \in Workers : Ready(db', job'[v])
  <2> DEFINE f == job[w]
  <2>1. /\ f.at = "validated"
        /\ f \in Frame
    BY <1>0, <1>2 DEF TransitionBegin, FrameFits
  <2>2. PICK o \in IF f.s = "acceptee" THEN Picks(OccurrencesOfRequest(db, f.r)) ELSE {Null} :
            Begins(w, Deciding(f, o))
    BY <1>2 DEF TransitionBegin, Deciding
  <2>3. o \in Occurrences \cup {Null}
    BY DEF Picks, OccurrencesOfRequest
  <2>4. /\ Deciding(f, o).at = "deciding" /\ Deciding(f, o).r = f.r
        /\ Deciding(f, o).s = f.s /\ Deciding(f, o).i = f.i
        /\ Deciding(f, o).o = o /\ Deciding(f, o).late = f.late
    BY <2>1 DEF Deciding, Frame
  <2>5. Deciding(f, o) \in Frame
    BY <1>0, <2>1, <2>3, DecidingFits DEF FrameFits
  <2>6. Ready(db, Deciding(f, o))
    BY <1>0, <2>1, <2>2, <2>4 DEF Ready
  <2> QED BY <1>0, <2>2, <2>5, <2>6, BeginsReady
<1>3. ASSUME NEW r \in Requests, LinkRead(w, r)
      PROVE  db' = db /\ \A v \in Workers : Ready(db', job'[v])
  <2> DEFINE planned == OccurrencesOfRequest(db, r) # {}
             frame == [Idle EXCEPT !.at = "linking", !.r = r, !.flag = planned]
  <2>1. Begins(w, frame) /\ Linkable(db, r)
    BY <1>3 DEF LinkRead
  <2>2. frame.at = "linking" /\ frame.r = r /\ frame.late = {}
    BY DEF Idle
  <2>3. frame.flag = planned
    BY DEF Idle
  <2>4. planned \in BOOLEAN
    OBVIOUS
  <2> HIDE DEF planned
  <2>5. frame \in Frame
    BY <2>4 DEF Idle, Frame, Stages
  <2> HIDE DEF frame
  <2>6. frame.flag <=> (OccurrencesOfRequest(db, r) # {})
    BY <2>3 DEF planned
  <2>7. Ready(db, frame)
    BY <2>1, <2>2, <2>6 DEF Ready
  <2> QED BY <1>0, <2>1, <2>5, <2>7, BeginsReady
<1>4. ASSUME NEW o \in Occurrences, SkipRead(w, o)
      PROVE  db' = db /\ \A v \in Workers : Ready(db', job'[v])
  <2> DEFINE frame == [Idle EXCEPT !.at = "skipping", !.o = o]
  <2>1. Starts(w, "skip", frame) /\ db.occurrence[o].status = "pending"
    BY <1>4 DEF SkipRead
  <2>2. frame.at = "skipping" /\ frame.o = o /\ frame.late = {}
    BY DEF Idle
  <2> HIDE DEF frame
  <2>3. Ready(db, frame)
    BY <2>1, <2>2 DEF Ready
  <2> QED BY <1>0, <2>1, <2>3, StartsReady
<1> QED BY <1>1, <1>2, <1>3, <1>4

LEMMA InterventionReadsReady ==
    ASSUME OneInv, Alone, NEW w \in Workers,
           \/ \E i \in Interventions, s \in InterventionStatuses : PutRead(w, i, s) \/ LogRead(w, i, s)
           \/ \E i \in Interventions : DeleteRead(w, i)
           \/ PutReread(w) \/ CascadeBegin(w)
    PROVE  db' = db /\ \A v \in Workers : Ready(db', job'[v])
<1>0. job \in [Workers -> Frame] /\ FrameFits(job[w]) /\ Ready(db, job[w])
  BY DEF OneInv, IInv, Fit
<1>1. ASSUME NEW i \in Interventions, NEW s \in InterventionStatuses, PutRead(w, i, s)
      PROVE  db' = db /\ \A v \in Workers : Ready(db', job'[v])
  <2> DEFINE was == db.intervention[i].status
             frame == [Idle EXCEPT !.at = "putting", !.i = i, !.s = s, !.was = was]
  <2>1. /\ Starts(w, "put", frame) /\ LiveIntervention(db, i)
        /\ s = "ferme" => ~Blocking(db, i)
    BY <1>1 DEF PutRead
  <2>2. frame.at = "putting" /\ frame.i = i /\ frame.s = s /\ frame.late = {}
    BY DEF Idle
  <2> HIDE DEF frame
  <2>3. Ready(db, frame)
    BY <2>1, <2>2 DEF Ready
  <2> QED BY <1>0, <2>1, <2>3, StartsReady
<1>2. ASSUME NEW i \in Interventions, NEW s \in InterventionStatuses, LogRead(w, i, s)
      PROVE  db' = db /\ \A v \in Workers : Ready(db', job'[v])
  <2> DEFINE frame == [Idle EXCEPT !.at = "logging", !.i = i, !.s = s]
  <2>1. Starts(w, "log", frame) /\ LiveIntervention(db, i)
    BY <1>2 DEF LogRead
  <2>2. frame.at = "logging" /\ frame.i = i /\ frame.late = {}
    BY DEF Idle
  <2> HIDE DEF frame
  <2>3. Ready(db, frame)
    BY <2>1, <2>2 DEF Ready
  <2> QED BY <1>0, <2>1, <2>3, StartsReady
<1>3. ASSUME NEW i \in Interventions, DeleteRead(w, i)
      PROVE  db' = db /\ \A v \in Workers : Ready(db', job'[v])
  <2> DEFINE frame == [Idle EXCEPT !.at = "deleting", !.i = i]
  <2>1. /\ Starts(w, "delete", frame) /\ LiveIntervention(db, i)
        /\ ~db.intervention[i].actions
    BY <1>3 DEF DeleteRead
  <2>2. frame.at = "deleting" /\ frame.i = i /\ frame.late = {}
    BY DEF Idle
  <2> HIDE DEF frame
  <2>3. Ready(db, frame)
    BY <2>1, <2>2 DEF Ready
  <2> QED BY <1>0, <2>1, <2>3, StartsReady
<1>4. ASSUME PutReread(w)
      PROVE  db' = db /\ \A v \in Workers : Ready(db', job'[v])
  <2> DEFINE frame == [Idle EXCEPT !.at = "cascade", !.i = job[w].i]
  <2>1. frame.at = "cascade" /\ frame.i = job[w].i /\ frame.late = {}
    BY DEF Idle
  <2>2. /\ db' = db
        /\ \/ db.intervention[job[w].i].status = "ferme" /\ job' = [job EXCEPT ![w] = frame]
           \/ job' = [job EXCEPT ![w] = Idle]
    BY <1>4 DEF PutReread
  <2> HIDE DEF frame
  <2>3. db.intervention[job[w].i].status = "ferme" => Ready(db, frame)
    BY <2>1 DEF Ready
  <2> QED BY <1>0, <2>2, <2>3, IdleReady DEF Alone
<1>5. ASSUME CascadeBegin(w)
      PROVE  db' = db /\ \A v \in Workers : Ready(db', job'[v])
  <2> DEFINE f == job[w]
             direct == RequestsClosedWith(db, f.i, "ferme")
  <2>1. f \in Frame /\ f.i \in Interventions /\ f.late = {}
        /\ db.intervention[f.i].status = "ferme"
    BY <1>0, <1>5 DEF CascadeBegin, FrameFits, Ready
  <2>2. direct = {}
    BY <2>1 DEF RequestsClosedWith, RequestsLinkedTo, OneInv, IInv, Consistent, AcceptedOpen,
       OpenStatuses
  <2>3. AcceptedThroughOccurrence(db, f.i) = {}
    BY <2>1, SerialFacts DEF OneInv, AcceptedThroughOccurrence, OccurrencesOfRequest
  <2>4. PICK r \in {Null}, di \in Picks(RequestsLinkedTo(db, f.i)) :
            Begins(w, [f EXCEPT !.at = "cascading", !.r = r, !.di = di,
                                !.flag = direct = {} /\ r # Null])
    BY <1>5, <2>2, <2>3 DEF CascadeBegin, Picks
  <2>5. (direct = {} /\ r # Null) = FALSE
    BY <2>4
  <2>6. Begins(w, Cascading(f, r, di, FALSE))
    BY <2>4, <2>5 DEF Cascading
  <2>7. /\ di \in Requests \cup {Null}
        /\ di # Null => db.request[di].intervention = f.i
    BY DEF Picks, RequestsLinkedTo
  <2>8. /\ Cascading(f, r, di, FALSE).at = "cascading" /\ Cascading(f, r, di, FALSE).r = Null
        /\ Cascading(f, r, di, FALSE).di = di /\ Cascading(f, r, di, FALSE).i = f.i
        /\ Cascading(f, r, di, FALSE).late = {}
    BY <2>1, <2>4 DEF Cascading, Frame
  <2>9. ~Cascading(f, r, di, FALSE).flag
    BY <2>1 DEF Cascading, Frame
  <2>10. Cascading(f, r, di, FALSE) \in Frame
    BY <1>0, <2>1, <2>4, <2>7, CascadingFits DEF FrameFits
  <2>11. Ready(db, Cascading(f, r, di, FALSE))
    BY <2>1, <2>7, <2>8, <2>9 DEF Ready
  <2> QED BY <1>0, <2>6, <2>10, <2>11, BeginsReady
<1> QED BY <1>1, <1>2, <1>3, <1>4, <1>5

LEMMA TaskReadsReady ==
    ASSUME OneInv, Alone, NEW w \in Workers,
           \/ \E i \in Interventions, optional \in BOOLEAN : CreateTaskRead(w, i, optional)
           \/ \E t \in Tasks : \/ \E s \in PatchStatuses : PatchTaskRead(w, t, s)
                               \/ \E mode \in ActionModes : ActionRead(w, t, mode)
                               \/ DeleteTaskRead(w, t)
    PROVE  db' = db /\ \A v \in Workers : Ready(db', job'[v])
<1>0. job \in [Workers -> Frame]
  BY DEF OneInv, IInv, Fit
<1>1. ASSUME NEW i \in Interventions, NEW optional \in BOOLEAN, CreateTaskRead(w, i, optional)
      PROVE  db' = db /\ \A v \in Workers : Ready(db', job'[v])
  <2> DEFINE frame == [Idle EXCEPT !.at = "creating", !.i = i, !.flag = optional]
  <2>1. Starts(w, "task", frame) /\ Editable(db, i)
    BY <1>1 DEF CreateTaskRead
  <2>2. frame.at = "creating" /\ frame.i = i /\ frame.late = {}
    BY DEF Idle
  <2> HIDE DEF frame
  <2>3. Ready(db, frame)
    BY <2>1, <2>2 DEF Ready
  <2> QED BY <1>0, <2>1, <2>3, StartsReady
<1>2. ASSUME NEW t \in Tasks, NEW s \in PatchStatuses, PatchTaskRead(w, t, s)
      PROVE  db' = db /\ \A v \in Workers : Ready(db', job'[v])
  <2> DEFINE frame == [Idle EXCEPT !.at = "patching", !.t = t, !.s = s]
  <2>1. Starts(w, "task", frame) /\ TaskOpen(db, t)
    BY <1>2 DEF PatchTaskRead, TaskEditable, TaskOpen
  <2>2. frame.at = "patching" /\ frame.t = t /\ frame.s = s /\ frame.late = {}
    BY DEF Idle
  <2> HIDE DEF frame
  <2>3. Ready(db, frame)
    BY <2>1, <2>2 DEF Ready
  <2> QED BY <1>0, <2>1, <2>3, StartsReady
<1>3. ASSUME NEW t \in Tasks, NEW mode \in ActionModes, ActionRead(w, t, mode)
      PROVE  db' = db /\ \A v \in Workers : Ready(db', job'[v])
  <2> DEFINE frame == [Idle EXCEPT !.at = "acting", !.t = t, !.s = mode]
  <2>1. Starts(w, "action", frame) /\ TaskOpen(db, t) /\ db.task[t].status \in PendingTask
    BY <1>3 DEF ActionRead, TaskEditable, TaskOpen
  <2>2. frame.at = "acting" /\ frame.t = t /\ frame.s = mode /\ frame.late = {}
    BY DEF Idle
  <2> HIDE DEF frame
  <2>3. Ready(db, frame)
    BY <2>1, <2>2 DEF Ready
  <2> QED BY <1>0, <2>1, <2>3, StartsReady
<1>4. ASSUME NEW t \in Tasks, DeleteTaskRead(w, t)
      PROVE  db' = db /\ \A v \in Workers : Ready(db', job'[v])
  <2> DEFINE frame == [Idle EXCEPT !.at = "removing", !.t = t]
  <2>1. Starts(w, "task", frame) /\ TaskOpen(db, t) /\ ~db.task[t].tagged
    BY <1>4 DEF DeleteTaskRead, TaskEditable, TaskOpen
  <2>2. frame.at = "removing" /\ frame.t = t /\ frame.late = {}
    BY DEF Idle
  <2> HIDE DEF frame
  <2>3. Ready(db, frame)
    BY <2>1, <2>2 DEF Ready
  <2> QED BY <1>0, <2>1, <2>3, StartsReady
<1> QED BY <1>1, <1>2, <1>3, <1>4

------------------------------------------------------------------------------
(* Arrivals touch nothing a call has read *)

LEMMA ArrivalFacts ==
    ASSUME OneInv, Arrivals
    PROVE  /\ Serial!Next
           /\ job' = job
           /\ db'.intervention = db.intervention
           /\ \A q \in Requests : db.request[q].statut # "none" =>
                  /\ db'.request[q] = db.request[q]
                  /\ OccurrencesOfRequest(db', q) = OccurrencesOfRequest(db, q)
           /\ \A p \in Occurrences :
                  db.occurrence[p].status # "none" => db'.occurrence[p] = db.occurrence[p]
           /\ \A t \in Tasks :
                  \/ db'.task[t] = db.task[t]
                  \/ db'.task[t].intervention = Null /\ db.task[t].intervention = Null
<1>0. db \in Database
  BY DEF OneInv, IInv, Consistent
<1>1. ASSUME NEW r \in Requests, CreateRequest(r)
      PROVE  /\ SP!CreateRequest(r)
             /\ db'.intervention = db.intervention
             /\ db'.occurrence = db.occurrence
             /\ db'.task = db.task
             /\ db.request[r].statut = "none"
             /\ \A q \in Requests : q # r => db'.request[q] = db.request[q]
  <2>1. SP!CreateRequest(r)
    BY <1>1, SameValues, SameWrites DEF CreateRequest, SP!CreateRequest
  <2>2. db.request[r].statut = "none"
    BY <1>1 DEF CreateRequest, NoRequest
  <2> QED BY <1>0, <1>1, <2>1, <2>2, InsertRequestEffect DEF CreateRequest
<1>2. ASSUME NEW o \in Occurrences, NEW r \in Requests, Generate(o, r)
      PROVE  /\ SP!Generate(o, r)
             /\ db'.intervention = db.intervention
             /\ db.request[r].statut = "none" /\ db.occurrence[o].request = Null
             /\ db.occurrence[o].status = "none" /\ db'.occurrence[o].request = r
             /\ \A q \in Requests : q # r => db'.request[q] = db.request[q]
             /\ \A p \in Occurrences : p # o => db'.occurrence[p] = db.occurrence[p]
             /\ \A t \in Tasks :
                    \/ db'.task[t] = db.task[t]
                    \/ db'.task[t].intervention = Null /\ db.task[t].intervention = Null
  <2>1. SP!Generate(o, r)
    BY <1>2, SameValues, SameWrites DEF Generate, SP!Generate
  <2>2. /\ db.request[r].statut = "none"
        /\ db.occurrence[o].status = "none" /\ db.occurrence[o].request = Null
    BY <1>2 DEF Generate, NoRequest, NoOccurrence
  <2>3. \A t \in {o} \X Steps : db.task[t].intervention = Null
    BY <2>2, SerialFacts DEF OneInv
  <2>4. /\ db'.intervention = db.intervention
        /\ \A q \in Requests : q # r => db'.request[q] = db.request[q]
        /\ \A p \in Occurrences : p # o => db'.occurrence[p] = db.occurrence[p]
        /\ db'.occurrence[o].request = r
        /\ \A t \in Tasks :
               /\ t \in {o} \X Steps => db'.task[t].intervention = Null
               /\ t \notin {o} \X Steps => db'.task[t] = db.task[t]
    BY <1>0, <1>2, InsertRequestEffect, GenerateRows DEF Generate
  <2> QED BY <2>1, <2>2, <2>3, <2>4
<1>3. \A r \in Requests : r # Null
  BY TablesAssumption
<1>4. CASE \E r \in Requests : CreateRequest(r)
  <2>1. SP!Next /\ job' = job
    BY <1>1, <1>4 DEF SP!Next, SP!RequestNext, CreateRequest
  <2> QED BY <1>1, <1>4, <2>1, SameNext DEF OccurrencesOfRequest
<1>5. CASE \E r \in Requests, o \in Occurrences : Generate(o, r)
  <2>1. SP!Next /\ job' = job
    BY <1>2, <1>5 DEF SP!Next, SP!RequestNext, Generate
  <2>2. PICK r \in Requests, o \in Occurrences : Generate(o, r)
    BY <1>5
  <2>3. \A q \in Requests : q # r =>
            OccurrencesOfRequest(db', q) = OccurrencesOfRequest(db, q)
    BY <1>2, <1>3, <2>2 DEF OccurrencesOfRequest
  <2> QED BY <1>2, <2>1, <2>2, <2>3, SameNext
<1> QED BY <1>4, <1>5 DEF Arrivals

LEMMA ArrivalsReady ==
    ASSUME OneInv, Arrivals, NEW w \in Workers
    PROVE  Ready(db', job'[w])
<1> DEFINE f == job[w]
<1>0. Ready(db, f) /\ FrameFits(f) /\ job'[w] = f
  BY ArrivalFacts DEF OneInv, IInv, Fit
<1>1. \A i \in Interventions : i # Null
  BY TablesAssumption
<1>2. /\ db'.intervention = db.intervention
      /\ \A q \in Requests : db.request[q].statut # "none" =>
             /\ db'.request[q] = db.request[q]
             /\ OccurrencesOfRequest(db', q) = OccurrencesOfRequest(db, q)
      /\ \A p \in Occurrences :
             db.occurrence[p].status # "none" => db'.occurrence[p] = db.occurrence[p]
      /\ \A t \in Tasks :
             \/ db'.task[t] = db.task[t]
             \/ db'.task[t].intervention = Null /\ db.task[t].intervention = Null
  BY ArrivalFacts
<1> HIDE DEF f
<1>3. /\ \A i : LiveIntervention(db', i) = LiveIntervention(db, i)
      /\ \A i : Editable(db', i) = Editable(db, i)
      /\ \A i \in Interventions : Blocking(db', i) = Blocking(db, i)
  BY <1>1, <1>2 DEF LiveIntervention, Editable, Blocking
<1>4. \A t \in Tasks : TaskOpen(db, t) => TaskOpen(db', t) /\ db'.task[t] = db.task[t]
  BY <1>2, <1>3 DEF TaskOpen
<1>5. \A q \in Requests : \A to : TransitionValid(db, q, to) =>
          /\ TransitionValid(db', q, to)
          /\ db'.request[q].intervention = db.request[q].intervention
          /\ OccurrencesOfRequest(db', q) = OccurrencesOfRequest(db, q)
  BY <1>2 DEF TransitionValid, Statuts
<1>6. \A q \in Requests : Linkable(db, q) =>
          /\ Linkable(db', q)
          /\ OccurrencesOfRequest(db', q) = OccurrencesOfRequest(db, q)
  BY <1>2 DEF Linkable
<1>7. \A q \in Requests : db.request[q].intervention # Null => db'.request[q] = db.request[q]
  BY <1>2, SerialFacts DEF OneInv
<1>8. f.di \in Requests \cup {Null}
  BY <1>0 DEF FrameFits, Frame
<1>9. /\ f.late = {}
      /\ f.at \in {"validated", "deciding"} =>
             /\ TransitionValid(db', f.r, f.s)
             /\ f.i = db'.request[f.r].intervention
      /\ (f.at = "deciding" /\ f.s = "acceptee") => f.o \in Picks(OccurrencesOfRequest(db', f.r))
  BY <1>0, <1>5 DEF Ready, FrameFits
<1>10. f.at = "linking" => /\ Linkable(db', f.r)
                           /\ f.flag <=> (OccurrencesOfRequest(db', f.r) # {})
  BY <1>0, <1>6 DEF Ready, FrameFits
<1>11. /\ f.at \in {"putting", "logging", "deleting"} => LiveIntervention(db', f.i)
       /\ (f.at = "putting" /\ f.s = "ferme") => ~Blocking(db', f.i)
       /\ f.at = "deleting" => ~db'.intervention[f.i].actions
       /\ f.at = "creating" => Editable(db', f.i)
       /\ f.at \in {"cascade", "cascading"} => db'.intervention[f.i].status = "ferme"
  BY <1>0, <1>2, <1>3 DEF Ready, FrameFits
<1>12. f.at = "cascading" => /\ f.r = Null /\ ~f.flag
                             /\ f.di # Null => db'.request[f.di].intervention = f.i
  BY <1>0, <1>1, <1>7, <1>8 DEF Ready, FrameFits
<1>13. f.at = "skipping" => db'.occurrence[f.o].status = "pending"
  BY <1>0, <1>2 DEF Ready, FrameFits
<1>14. /\ f.at \in {"patching", "removing", "acting"} => TaskOpen(db', f.t)
       /\ f.at = "patching" => f.s \in PatchStatuses
       /\ f.at = "removing" => ~db'.task[f.t].tagged
       /\ f.at = "acting" => f.s \in ActionModes /\ db'.task[f.t].status \in PendingTask
  BY <1>0, <1>4 DEF Ready, FrameFits
<1> QED BY <1>0, <1>9, <1>10, <1>11, <1>12, <1>13, <1>14 DEF Ready

------------------------------------------------------------------------------
(* Writes are the steps of MaintenanceWorkflow *)

\* The step of a call seen from the tables, and the call's next stage.
Serially == [SP!Next]_db /\ \A v \in Workers : Ready(db', job'[v])

LEMMA CommitsReady ==
    ASSUME Alone, NEW w \in Workers, NEW d, NEW rs, NEW before, NEW frame,
           Commits(w, d, rs, before, frame), Ready(d, frame)
    PROVE  db' = d /\ \A v \in Workers : Ready(db', job'[v])
BY DEF Commits, Alone

LEMMA RequestWritesSerial ==
    ASSUME OneInv, Alone, NEW w \in Workers,
           \/ Hold(w) \/ Reject(w) \/ CloseRequest(w) \/ SkipWrite(w)
           \/ \E i \in Interventions : Accept(w, i) \/ LinkWrite(w, i)
    PROVE  Serially
<1> DEFINE f == job[w]
<1>0. FrameFits(f) /\ Ready(db, f)
  BY DEF OneInv, IInv, Fit
<1>1. f.late = {}
  BY <1>0 DEF Ready
<1>2. CASE Hold(w)
  <2>1. f.r \in Requests /\ TransitionValid(db, f.r, "en_attente")
    BY <1>0, <1>2 DEF Hold, Decides, FrameFits, Ready
  <2>2. Commits(w, HoldTx(db, f.r, {}), {f.r}, f.older, Idle)
    BY <1>1, <1>2 DEF Hold
  <2>3. db' = HoldTx(db, f.r, {}) /\ \A v \in Workers : Ready(db', job'[v])
    BY <2>2, CommitsReady, IdleReady
  <2>4. SP!Hold(f.r)
    BY <2>1, <2>3, SameQueries, SameDecisions DEF SP!Hold
  <2> QED BY <2>1, <2>3, <2>4 DEF Serially, SP!Next, SP!RequestNext
<1>3. CASE Reject(w)
  <2>1. f.r \in Requests /\ TransitionValid(db, f.r, "rejetee")
    BY <1>0, <1>3 DEF Reject, Decides, FrameFits, Ready
  <2>2. Commits(w, RejectTx(db, f.r, {}), {f.r}, f.older, Idle)
    BY <1>1, <1>3 DEF Reject
  <2>3. db' = RejectTx(db, f.r, {}) /\ \A v \in Workers : Ready(db', job'[v])
    BY <2>2, CommitsReady, IdleReady
  <2>4. SP!Reject(f.r)
    BY <2>1, <2>3, SameQueries, SameDecisions DEF SP!Reject
  <2> QED BY <2>1, <2>3, <2>4 DEF Serially, SP!Next, SP!RequestNext
<1>4. CASE CloseRequest(w)
  <2> DEFINE i == db.request[f.r].intervention
             rs == {f.r} \cup (IF i = Null THEN {} ELSE ClosedByUpdate(db, i, "ferme"))
  <2>1. /\ f.r \in Requests /\ TransitionValid(db, f.r, "cloturee")
        /\ f.i = i /\ ~CloseRefused(db, i)
    BY <1>0, <1>4 DEF CloseRequest, Decides, FrameFits, Ready
  <2>2. Commits(w, CloseTx(db, f.r, i, {}), rs, f.older, Idle)
    BY <1>1, <1>4, <2>1 DEF CloseRequest
  <2> HIDE DEF rs
  <2>3. db' = CloseTx(db, f.r, i, {}) /\ \A v \in Workers : Ready(db', job'[v])
    BY <2>2, CommitsReady, IdleReady
  <2>4. SP!Close(f.r)
    BY <2>1, <2>3, SameQueries, SameClosures DEF SP!Close
  <2> QED BY <2>1, <2>3, <2>4 DEF Serially, SP!Next, SP!RequestNext
<1>5. CASE SkipWrite(w)
  <2>1. f.o \in Occurrences /\ db.occurrence[f.o].status = "pending"
    BY <1>0, <1>5 DEF SkipWrite, FrameFits, Ready
  <2>2. Commits(w, SkipTx(db, f.o), {}, {}, Idle)
    BY <1>5 DEF SkipWrite, CommitsUndated
  <2>3. db' = SkipTx(db, f.o) /\ \A v \in Workers : Ready(db', job'[v])
    BY <2>2, CommitsReady, IdleReady
  <2>4. SP!Skip(f.o)
    BY <2>1, <2>3, SameWrites DEF SP!Skip
  <2> QED BY <2>1, <2>3, <2>4 DEF Serially, SP!Next, SP!RequestNext
<1>6. ASSUME NEW i \in Interventions, Accept(w, i) PROVE Serially
  <2>1. /\ f.r \in Requests /\ TransitionValid(db, f.r, "acceptee")
        /\ f.o \in Picks(OccurrencesOfRequest(db, f.r))
        /\ db.intervention[i] = NoIntervention
    BY <1>0, <1>6 DEF Accept, Decides, FrameFits, Ready
  <2>2. Commits(w, AcceptTx(db, f.r, i, f.o, {}), {f.r}, f.older, Idle)
    BY <1>1, <1>6 DEF Accept
  <2>3. db' = AcceptTx(db, f.r, i, f.o, {}) /\ \A v \in Workers : Ready(db', job'[v])
    BY <2>2, CommitsReady, IdleReady
  <2>4. SP!Accept(f.r, i)
    BY <2>1, <2>3, SameValues, SameQueries, SameDecisions DEF SP!Accept
  <2> QED BY <2>1, <2>3, <2>4 DEF Serially, SP!Next, SP!RequestNext
<1>7. ASSUME NEW i \in Interventions, LinkWrite(w, i) PROVE Serially
  <2> DEFINE planned == OccurrencesOfRequest(db, f.r) # {}
  <2>1. /\ f.r \in Requests /\ Linkable(db, f.r) /\ db.intervention[i] = NoIntervention
        /\ f.at = "linking"
    BY <1>0, <1>7 DEF LinkWrite, FrameFits, Ready
  <2>2. (f.flag <=> planned) /\ f.flag \in BOOLEAN
    BY <1>0, <2>1 DEF Ready, FrameFits, Frame
  <2>3. f.flag = planned
    BY <2>2
  <2>4. PICK o \in Picks(UnattachedOccurrences(db, f.r)) :
            Commits(w, LinkTx(db, f.r, i, f.flag, o, {}), {f.r}, f.older, Idle)
    BY <1>1, <1>7 DEF LinkWrite
  <2>5. db' = LinkTx(db, f.r, i, planned, o, {}) /\ \A v \in Workers : Ready(db', job'[v])
    BY <2>3, <2>4, CommitsReady, IdleReady
  <2>6. SP!CreateIntervention(f.r, i)
    BY <2>1, <2>5, SameValues, SameQueries, SameDecisions DEF SP!CreateIntervention
  <2> QED BY <2>1, <2>5, <2>6 DEF Serially, SP!Next, SP!InterventionNext
<1> QED BY <1>2, <1>3, <1>4, <1>5, <1>6, <1>7

\* The triggers have completed the occurrences of i and of its request.
LEMMA CascadeFindsNothing ==
    ASSUME OneInv, NEW i \in Interventions, db.intervention[i].status = "ferme",
           NEW di \in Requests \cup {Null},
           di # Null => db.request[di].intervention = i
    PROVE  CompleteOccurrences(db, i, di) = db
<1>0. db \in Database
  BY DEF OneInv, IInv, Consistent
<1>1. \A o \in Occurrences :
          (\/ di # Null /\ db.occurrence[o].request = di
           \/ i # Null /\ db.occurrence[o].intervention = i) =>
              db.occurrence[o].status = "completed"
  BY SerialFacts DEF OneInv
<1>2. [o \in Occurrences |->
          IF /\ db.occurrence[o].status \notin {"completed", "skipped"}
             /\ \/ di # Null /\ db.occurrence[o].request = di
                \/ i # Null /\ db.occurrence[o].intervention = i
          THEN [db.occurrence[o] EXCEPT !.status = "completed"]
          ELSE db.occurrence[o]] = db.occurrence
  BY <1>0, <1>1 DEF Database
<1>3. CompleteOccurrences(db, i, di) = [db EXCEPT !.occurrence = db.occurrence]
  BY <1>2 DEF CompleteOccurrences
<1> QED BY <1>0, <1>3 DEF Database

LEMMA InterventionWritesSerial ==
    ASSUME OneInv, Alone, NEW w \in Workers,
           PutWrite(w) \/ CascadeWrite(w) \/ LogWrite(w) \/ DeleteWrite(w)
    PROVE  Serially
<1> DEFINE f == job[w]
<1>0. FrameFits(f) /\ f \in Frame /\ Ready(db, f)
  BY DEF OneInv, IInv, Fit, FrameFits
<1>1. f.late = {}
  BY <1>0 DEF Ready
<1>2. CASE PutWrite(w)
  <2> DEFINE frame == [f EXCEPT !.at = "rereading"]
             rs == ClosedByUpdate(db, f.i, f.s)
  <2>1. /\ f.i \in Interventions /\ f.s \in InterventionStatuses
        /\ LiveIntervention(db, f.i) /\ ~UpdateRefused(db, f.i, f.s)
        /\ f.s = "ferme" => ~Blocking(db, f.i)
    BY <1>0, <1>2 DEF PutWrite, FrameFits, Ready
  <2>2. Commits(w, UpdateStatus(db, f.i, f.s, {}), rs, Open, frame)
    BY <1>2 DEF PutWrite
  <2>3. frame.at = "rereading" /\ frame.late = {}
    BY <1>0, <1>1 DEF Frame
  <2> HIDE DEF rs, frame
  <2>4. Ready(UpdateStatus(db, f.i, f.s, {}), frame)
    BY <2>3 DEF Ready
  <2>5. db' = UpdateStatus(db, f.i, f.s, {}) /\ \A v \in Workers : Ready(db', job'[v])
    BY <2>2, <2>4, CommitsReady
  <2>6. SP!SetStatus(f.i, f.s)
    BY <2>1, <2>5, SameQueries, SameClosures DEF SP!SetStatus
  <2>7. f.s \in SP!InterventionStatuses
    BY <2>1, SameValues
  <2> QED BY <2>1, <2>5, <2>6, <2>7 DEF Serially, SP!Next, SP!InterventionNext
<1>3. CASE LogWrite(w)
  <2> DEFINE rs == RequestsClosedWith(db, f.i, f.s)
  <2>1. /\ f.i \in Interventions /\ f.s \in InterventionStatuses
        /\ LiveIntervention(db, f.i) /\ ~InsertLogRefused(db, f.i, f.s)
    BY <1>0, <1>3 DEF LogWrite, FrameFits
  <2>2. Commits(w, SyncStatusLog(db, f.i, f.s, {}), rs, Open, Idle)
    BY <1>3 DEF LogWrite
  <2> HIDE DEF rs
  <2>3. db' = SyncStatusLog(db, f.i, f.s, {}) /\ \A v \in Workers : Ready(db', job'[v])
    BY <2>2, CommitsReady, IdleReady
  <2>4. SP!LogStatus(f.i, f.s)
    BY <2>1, <2>3, SameQueries, SameClosures DEF SP!LogStatus
  <2>5. f.s \in SP!InterventionStatuses
    BY <2>1, SameValues
  <2> QED BY <2>1, <2>3, <2>4, <2>5 DEF Serially, SP!Next, SP!InterventionNext
<1>4. CASE DeleteWrite(w)
  <2>1. /\ f.i \in Interventions /\ LiveIntervention(db, f.i)
        /\ ~db.intervention[f.i].actions /\ ~DeleteRefused(db, f.i)
    BY <1>0, <1>4 DEF DeleteWrite, FrameFits, Ready
  <2>2. Commits(w, DeleteInterventionTx(db, f.i), {}, {}, Idle)
    BY <1>4 DEF DeleteWrite, CommitsUndated
  <2>3. db' = DeleteInterventionTx(db, f.i) /\ \A v \in Workers : Ready(db', job'[v])
    BY <2>2, CommitsReady, IdleReady
  <2>4. SP!DeleteIntervention(f.i)
    BY <2>1, <2>3, SameQueries, SameWrites DEF SP!DeleteIntervention
  <2> QED BY <2>1, <2>3, <2>4 DEF Serially, SP!Next, SP!InterventionNext
<1>5. CASE CascadeWrite(w)
  <2> DEFINE rs == IF f.r = Null THEN {} ELSE {f.r}
             d == CascadeTx(db, f.i, f.r, f.flag, f.di, f.late)
  <2>1. /\ f.i \in Interventions /\ db.intervention[f.i].status = "ferme"
        /\ f.r = Null
        /\ f.di \in Requests \cup {Null}
        /\ f.di # Null => db.request[f.di].intervention = f.i
    BY <1>0, <1>5 DEF CascadeWrite, FrameFits, Ready, Frame
  <2>2. Commits(w, d, rs, f.older, Idle)
    BY <1>5 DEF CascadeWrite
  <2>3. d = CompleteOccurrences(db, f.i, f.di)
    BY <2>1 DEF CascadeTx
  <2>4. d = db
    BY <2>1, <2>3, CascadeFindsNothing
  <2> HIDE DEF rs, d
  <2>5. db' = db /\ \A v \in Workers : Ready(db', job'[v])
    BY <2>2, <2>4, CommitsReady, IdleReady
  <2> QED BY <2>5 DEF Serially
<1> QED BY <1>2, <1>3, <1>4, <1>5

LEMMA TaskWritesSerial ==
    ASSUME OneInv, Alone, NEW w \in Workers,
           \/ \E t \in ManualTasks : CreateTaskWrite(w, t)
           \/ PatchTaskWrite(w) \/ DeleteTaskWrite(w) \/ ActionWrite(w)
    PROVE  Serially
<1> DEFINE f == job[w]
<1>0. FrameFits(f) /\ f \in Frame /\ Ready(db, f)
  BY DEF OneInv, IInv, Fit, FrameFits
<1>1. \A t : SP!TaskEditable(t) = TaskOpen(db, t)
  BY SameValues, SameQueries DEF SP!TaskEditable, TaskOpen
<1>2. ASSUME NEW t \in ManualTasks, CreateTaskWrite(w, t) PROVE Serially
  <2>1. /\ f.i \in Interventions /\ f.flag \in BOOLEAN /\ Editable(db, f.i)
        /\ db.task[t] = NoTask
    BY <1>0, <1>2 DEF CreateTaskWrite, FrameFits, Frame, Ready
  <2>2. Commits(w, CreateTaskTx(db, t, f.i, f.flag), {}, {}, Idle)
    BY <1>2 DEF CreateTaskWrite, CommitsUndated
  <2>3. db' = CreateTaskTx(db, t, f.i, f.flag) /\ \A v \in Workers : Ready(db', job'[v])
    BY <2>2, CommitsReady, IdleReady
  <2>4. SP!CreateTask(t, f.i, f.flag)
    BY <2>1, <2>3, SameValues, SameQueries, SameTaskWrites DEF SP!CreateTask
  <2> QED BY <2>1, <2>3, <2>4 DEF Serially, SP!Next, SP!TaskNext
<1>3. CASE PatchTaskWrite(w)
  <2>1. f.t \in Tasks /\ TaskOpen(db, f.t) /\ f.s \in PatchStatuses
    BY <1>0, <1>3 DEF PatchTaskWrite, FrameFits, Ready
  <2>2. Commits(w, PatchTaskTx(db, f.t, f.s), {}, {}, Idle)
    BY <1>3 DEF PatchTaskWrite, CommitsUndated
  <2>3. db' = PatchTaskTx(db, f.t, f.s) /\ \A v \in Workers : Ready(db', job'[v])
    BY <2>2, CommitsReady, IdleReady
  <2>4. SP!PatchTask(f.t, f.s)
    BY <1>1, <2>1, <2>3, SameTaskWrites DEF SP!PatchTask
  <2>5. f.t \in SP!Tasks /\ f.s \in SP!PatchStatuses
    BY <2>1, SameValues DEF SP!PatchStatuses, PatchStatuses
  <2> QED BY <2>3, <2>4, <2>5 DEF Serially, SP!Next, SP!TaskNext
<1>4. CASE DeleteTaskWrite(w)
  <2>1. f.t \in Tasks /\ TaskOpen(db, f.t) /\ ~db.task[f.t].tagged
    BY <1>0, <1>4 DEF DeleteTaskWrite, FrameFits, Ready
  <2>2. Commits(w, DeleteTaskTx(db, f.t), {}, {}, Idle)
    BY <1>4 DEF DeleteTaskWrite, CommitsUndated
  <2>3. db' = DeleteTaskTx(db, f.t) /\ \A v \in Workers : Ready(db', job'[v])
    BY <2>2, CommitsReady, IdleReady
  <2>4. SP!DeleteTask(f.t)
    BY <1>1, <2>1, <2>3, SameTaskWrites DEF SP!DeleteTask
  <2>5. f.t \in SP!Tasks
    BY <2>1, SameValues
  <2> QED BY <2>3, <2>4, <2>5 DEF Serially, SP!Next, SP!TaskNext
<1>5. CASE ActionWrite(w)
  <2>1. /\ f.t \in Tasks /\ TaskOpen(db, f.t) /\ f.s \in ActionModes
        /\ db.task[f.t].status \in PendingTask
    BY <1>0, <1>5 DEF ActionWrite, FrameFits, Ready
  <2>2. Commits(w, ActionTx(db, f.t, f.s), {}, {}, Idle)
    BY <1>5 DEF ActionWrite, CommitsUndated
  <2>3. db' = ActionTx(db, f.t, f.s) /\ \A v \in Workers : Ready(db', job'[v])
    BY <2>2, CommitsReady, IdleReady
  <2> DEFINE i == db.task[f.t].intervention
             T == {f.t}
             tags == [u \in T |-> f.s]
  <2>4. db' = TagTx(db, i, tags)
    BY <2>3 DEF ActionTx
  <2>5. /\ i \in Interventions /\ SP!Editable(db, i)
        /\ T \in SUBSET SP!TasksOf(db, i) /\ tags \in [T -> SP!ActionModes]
    <3>1. i \in Interventions
      <4>1. db.task[f.t] \in TaskRow
        BY <1>0, <2>1 DEF OneInv, IInv, Consistent, Database
      <4> QED BY <2>1, <4>1 DEF TaskRow, TaskOpen
    <3>2. SP!Editable(db, i)
      BY <2>1, SameQueries DEF TaskOpen
    <3>3. T \in SUBSET SP!TasksOf(db, i)
      BY <2>1, SameValues DEF SP!TasksOf
    <3>4. f.s \in SP!ActionModes
      BY <2>1 DEF SP!ActionModes, ActionModes
    <3> QED BY <3>1, <3>2, <3>3, <3>4
  <2>6. DOMAIN tags # {} /\ \A u \in DOMAIN tags :
            db.task[u].intervention = i /\ db.task[u].status \in SP!PendingTask
    BY <2>1, SameValues
  <2> HIDE DEF i, T, tags
  <2>7. SP!AddAction(i, tags)
    BY <2>4, <2>5, <2>6, SameTaskWrites DEF SP!AddAction
  <2> QED BY <2>3, <2>5, <2>7 DEF Serially, SP!Next, SP!TaskNext
<1> QED BY <1>2, <1>3, <1>4, <1>5

------------------------------------------------------------------------------
(* The refinement *)

LEMMA InitOne == Init => SP!Init /\ OneInv
<1> SUFFICES ASSUME Init PROVE SP!Init /\ OneInv
  OBVIOUS
<1>1. SP!Init
  BY SameValues DEF Init, SP!Init
<1>2. SP!IInv
  BY <1>1, TablesAssumption, SP!InitInv
<1>3. \A w \in Workers : Ready(db, job[w])
  BY IdleReady DEF Init
<1> QED BY <1>1, <1>2, <1>3, InitInv DEF OneInv

LEMMA NextOne == Alone /\ OneInv /\ [Next]_vars => [SP!Next]_db /\ OneInv'
<1> SUFFICES ASSUME Alone, OneInv, [Next]_vars PROVE [SP!Next]_db /\ OneInv'
  OBVIOUS
<1>1. ASSUME Arrivals PROVE Serially
  <2>1. SP!Next
    BY <1>1, ArrivalFacts, SameNext
  <2>2. \A w \in Workers : Ready(db', job'[w])
    BY <1>1, ArrivalsReady
  <2> QED BY <2>1, <2>2 DEF Serially
<1>2. ASSUME NEW w \in Workers, RequestCall(w) PROVE Serially
  BY <1>2, RequestReadsReady, RequestWritesSerial DEF RequestCall, Serially
<1>3. ASSUME NEW w \in Workers, InterventionCall(w) PROVE Serially
  BY <1>3, InterventionReadsReady, InterventionWritesSerial DEF InterventionCall, Serially
<1>4. ASSUME NEW w \in Workers, TaskCall(w) PROVE Serially
  BY <1>4, TaskReadsReady, TaskWritesSerial DEF TaskCall, Serially
<1>5. ASSUME NEW w \in Workers, Fail(w) PROVE Serially
  <2>1. Commits(w, db, {}, {}, Idle)
    BY <1>5 DEF Fail
  <2> QED BY <2>1, CommitsReady, IdleReady DEF Serially
<1>6. ASSUME UNCHANGED vars PROVE Serially
  BY <1>6 DEF vars, Serially, OneInv
<1>7. Serially
  BY <1>1, <1>2, <1>3, <1>4, <1>5, <1>6 DEF Next, Serially
<1>8. IInv'
  BY NextInv DEF OneInv
<1>9. SP!IInv'
  BY <1>7, TablesAssumption, SP!NextInv DEF OneInv, Serially
<1> QED BY <1>7, <1>8, <1>9 DEF Serially, OneInv

\* With one worker every transaction is a step of MaintenanceWorkflow or none: a
\* check made before the write still holds at the write, and the Python cascade
\* after a closure finds that the triggers have done everything.
THEOREM RefinesSerial == ASSUME Alone PROVE Spec => ImplementsSerial
<1>1. Init => Serial!Init /\ OneInv
  BY InitOne, SameValues DEF Serial!Init, Init, Serial!EmptyDatabase, EmptyDatabase,
     Serial!NoRequest, NoRequest, Serial!NoIntervention, NoIntervention,
     Serial!NoOccurrence, NoOccurrence, Serial!NoTask, NoTask, Serial!Tasks, Tasks,
     Serial!PlanTasks, PlanTasks
<1>2. OneInv /\ [Next]_vars => [Serial!Next]_db /\ OneInv'
  BY NextOne, SameNext
<1> QED BY <1>1, <1>2, PTL DEF Spec, ImplementsSerial, Serial!Spec

LEMMA OneInvariance == ASSUME Alone PROVE Spec => []OneInv
<1>1. Init => OneInv
  BY InitOne
<1>2. OneInv /\ [Next]_vars => OneInv'
  BY NextOne
<1> QED BY <1>1, <1>2, PTL DEF Spec

\* With one worker a request, its log, its occurrence and its intervention tell the
\* same story between any two transactions, also where a call fails half way.
THEOREM LinksHold == ASSUME Alone PROVE Spec => []LinksAgree
<1>1. OneInv => LinksAgree
  BY DEF OneInv, SP!IInv, LinksAgree, Serial!LinksAgree,
     SP!LinkedOnlyOnceAccepted, Serial!LinkedOnlyOnceAccepted,
     SP!OneRequestPerIntervention, Serial!OneRequestPerIntervention,
     SP!LiveIntervention, Serial!LiveIntervention,
     SP!InterventionStatuses, Serial!InterventionStatuses,
     SP!OpenStatuses, Serial!OpenStatuses,
     SP!RequestsLinkedTo, Serial!RequestsLinkedTo,
     SP!OccurrenceFollowsRequest, Serial!OccurrenceFollowsRequest,
     SP!LogEndsInStatut, Serial!LogEndsInStatut
<1> QED BY <1>1, OneInvariance, PTL

\* With one worker the tasks of an occurrence are worked on in its intervention, which
\* is closed only with its plan done and keeps the tasks actions were recorded on.
THEOREM TasksHold == ASSUME Alone PROVE Spec => []TasksAgree
<1>1. OneInv => TasksAgree
  BY DEF OneInv, SP!IInv, TasksAgree, Serial!TasksAgree,
     SP!GammeFollowsOccurrence, Serial!GammeFollowsOccurrence,
     SP!ClosedGammeComplete, Serial!ClosedGammeComplete,
     SP!Blocking, Serial!Blocking, SP!PendingTask, Serial!PendingTask,
     SP!ActionKeepsTask, Serial!ActionKeepsTask,
     SP!Tasks, Serial!Tasks, SP!PlanTasks, Serial!PlanTasks
<1> QED BY <1>1, OneInvariance, PTL

SerialMoves ==
    \A r \in Requests :
        LET from == db.request[r].statut
            to == db'.request[r].statut
        IN \/ to = from
           \/ from = "none" /\ to = "nouvelle"
           \/ from # "none" /\ to \in Serial!AllowedTransitions[from]

\* With one worker a request only ever moves along ALLOWED_TRANSITIONS.
THEOREM StatutsMove == ASSUME Alone PROVE Spec => StatutFollowsTable
<1>1. OneInv /\ [Next]_vars => [SerialMoves]_db
  BY NextOne, SP!NextMoves, TablesAssumption DEF OneInv, SP!MovesAlong, SerialMoves,
     SP!AllowedTransitions, Serial!AllowedTransitions
<1> QED BY <1>1, OneInvariance, PTL
        DEF Spec, StatutFollowsTable, Serial!StatutFollowsTable, SerialMoves

SerialFrozen ==
    \A i \in Interventions :
        (/\ db.intervention[i].status = "ferme"
         /\ db'.intervention[i].status = "ferme") =>
            \A t \in Serial!Tasks :
                (db.task[t].intervention = i \/ db'.task[t].intervention = i)
                    => db'.task[t] = db.task[t]

\* With one worker the tasks of a closed intervention do not change.
THEOREM TasksFrozen == ASSUME Alone PROVE Spec => ClosedFreezesTasks
<1>1. OneInv /\ [Next]_vars => [SerialFrozen]_db
  BY NextOne, SP!NextFreezes, TablesAssumption DEF OneInv, SP!FrozenTasks, SerialFrozen,
     SP!Tasks, Serial!Tasks, SP!PlanTasks, Serial!PlanTasks
<1> QED BY <1>1, OneInvariance, PTL
        DEF Spec, ClosedFreezesTasks, Serial!ClosedFreezesTasks, SerialFrozen

------------------------------------------------------------------------------
(* The repair procedures *)

\* What the serial invariant says of tables no call is at work on.
Sound(d) ==
    /\ d \in Database
    /\ \A o \in Occurrences :
           /\ LinkOf(d, o) = d.occurrence[o].intervention
           /\ d.occurrence[o].intervention # Null =>
                  /\ d.occurrence[o].intervention \in Interventions
                  /\ d.intervention[d.occurrence[o].intervention].plan = TRUE
                  /\ d.occurrence[o].request \in Requests
                  /\ d.request[d.occurrence[o].request].intervention
                         = d.occurrence[o].intervention
                  /\ \/ /\ d.occurrence[o].status = "in_progress"
                        /\ d.request[d.occurrence[o].request].statut = "acceptee"
                     \/ /\ d.occurrence[o].status = "completed"
                        /\ d.request[d.occurrence[o].request].statut = "cloturee"
           /\ \A p \in Occurrences :
                  (/\ d.occurrence[o].request = d.occurrence[p].request
                   /\ d.occurrence[o].request # Null) => o = p
    /\ \A r \in Requests :
           /\ d.request[r].logged = d.request[r].statut
           /\ (d.request[r].statut = "acceptee" /\ d.request[r].intervention # Null) =>
                  d.intervention[d.request[r].intervention].status # "ferme"
           /\ \A q \in Requests :
                  (/\ d.request[r].intervention = d.request[q].intervention
                   /\ d.request[r].intervention # Null) => q = r
           /\ d.request[r].statut = "cloturee" =>
                  \A o \in OccurrencesOfRequest(d, r) : d.occurrence[o].status = "completed"
    /\ \A t \in Tasks :
           d.task[t].occurrence # Null =>
               /\ t \in PlanTasks
               /\ d.task[t].occurrence = t[1]
               /\ d.task[t].optional = (t[2] \in OptionalSteps)
               /\ d.task[t].intervention = d.occurrence[d.task[t].occurrence].intervention

\* An occurrence of sound tables with an intervention follows its request.
LEMMA SoundOccurrence ==
    ASSUME NEW d, Sound(d), NEW o \in Occurrences, d.occurrence[o].intervention # Null
    PROVE  /\ d.occurrence[o].intervention \in Interventions
           /\ d.intervention[d.occurrence[o].intervention].plan = TRUE
           /\ d.occurrence[o].request \in Requests
           /\ d.request[d.occurrence[o].request].intervention = d.occurrence[o].intervention
           /\ \/ /\ d.occurrence[o].status = "in_progress"
                 /\ d.request[d.occurrence[o].request].statut = "acceptee"
              \/ /\ d.occurrence[o].status = "completed"
                 /\ d.request[d.occurrence[o].request].statut = "cloturee"
BY DEF Sound

\* A request of sound tables follows its intervention, which is of no other.
LEMMA SoundRequest ==
    ASSUME NEW d, Sound(d), NEW r \in Requests, d.request[r].intervention # Null
    PROVE  /\ d.request[r].statut = "acceptee" =>
                  d.intervention[d.request[r].intervention].status # "ferme"
           /\ \A q \in Requests :
                  d.request[q].intervention = d.request[r].intervention => q = r
BY DEF Sound

\* No request of sound tables is orphaned.
LEMMA NoneOrphaned ==
    ASSUME NEW d, Sound(d)
    PROVE  Orphaned(d) = {}
<1> SUFFICES ASSUME NEW r \in Requests, r \in Orphaned(d) PROVE FALSE
  BY DEF Orphaned
<1>1. d.request[r].statut = "acceptee"
  BY DEF Orphaned
<1>2. CASE d.request[r].intervention # Null
  BY <1>1, <1>2 DEF Orphaned, Sound
<1>3. CASE d.request[r].intervention = Null
  BY <1>1, <1>3 DEF Orphaned, Sound, OccurrencesOfRequest
<1> QED BY <1>2, <1>3

LEMMA SoundRepairRequests ==
    ASSUME NEW d, Sound(d)
    PROVE  RepairRequestsTx(d) = d
<1>1. Orphaned(d) = {}
  BY NoneOrphaned
<1>2. d \in Database
  BY DEF Sound
<1>3. d.request = [r \in Requests |-> d.request[r]]
  BY <1>2 DEF Database
<1>4. RepairRequestsTx(d) = [d EXCEPT !.request = d.request]
  BY <1>1, <1>3 DEF RepairRequestsTx
<1> QED BY <1>2, <1>4 DEF Database

\* A record of the four tables.
Tabled(e) == e = [request |-> e.request, intervention |-> e.intervention,
                  occurrence |-> e.occurrence, task |-> e.task]

LEMMA TabledWith ==
    ASSUME NEW d, Tabled(d)
    PROVE  /\ \A v : LET e == [d EXCEPT !.request = v] IN
                     /\ Tabled(e) /\ e.request = v /\ e.intervention = d.intervention
                     /\ e.occurrence = d.occurrence /\ e.task = d.task
           /\ \A v : LET e == [d EXCEPT !.intervention = v] IN
                     /\ Tabled(e) /\ e.intervention = v /\ e.request = d.request
                     /\ e.occurrence = d.occurrence /\ e.task = d.task
           /\ \A v : LET e == [d EXCEPT !.occurrence = v] IN
                     /\ Tabled(e) /\ e.occurrence = v /\ e.intervention = d.intervention
                     /\ e.request = d.request /\ e.task = d.task
           /\ \A v : LET e == [d EXCEPT !.task = v] IN
                     /\ Tabled(e) /\ e.task = v /\ e.intervention = d.intervention
                     /\ e.occurrence = d.occurrence /\ e.request = d.request
<1> DEFINE q == d.request
           i == d.intervention
           o == d.occurrence
           t == d.task
<1>1. d = [request |-> q, intervention |-> i, occurrence |-> o, task |-> t]
  BY DEF Tabled
<1> HIDE DEF q, i, o, t
<1> QED BY <1>1 DEF Tabled

LEMMA DatabaseTabled == \A d \in Database : Tabled(d)
BY DEF Database, Tabled

Unclosed(d, i, bugs) == "close" \in bugs /\ d.intervention[i].status = "ferme"
Gone(d, o, bugs) == "tasks" \in bugs /\ Untouched(d, o)

HurtOccurrence(d, o, i, bugs) ==
    [d.occurrence[o] EXCEPT
        !.intervention = IF "occurrence link" \in bugs THEN Null ELSE i,
        !.status = IF \/ Unclosed(d, i, bugs)
                      \/ "occurrence link" \in bugs /\ d.occurrence[o].status = "in_progress"
                   THEN "generated" ELSE d.occurrence[o].status]

HurtTask(d, t, bugs) ==
    [d.task[t] EXCEPT
        !.intervention = IF "task link" \in bugs THEN Null ELSE @,
        !.optional = IF "optional" \in bugs THEN ~@ ELSE @]

\* What e has of d with occurrence o damaged.
Hurt(d, e, o, i, r, bugs) ==
    /\ Tabled(e)
    /\ \A j \in Interventions \ {i} : e.intervention[j] = d.intervention[j]
    /\ e.intervention[i] = [d.intervention[i] EXCEPT !.plan = @ /\ "plan" \notin bugs]
    /\ \A q \in Requests :
           e.request[q] = IF q = r /\ Unclosed(d, i, bugs)
               THEN [d.request[q] EXCEPT !.statut = "acceptee", !.logged = "acceptee"]
               ELSE d.request[q]
    /\ \A p \in Occurrences \ {o} : e.occurrence[p] = d.occurrence[p]
    /\ e.occurrence[o] = HurtOccurrence(d, o, i, bugs)
    /\ \A t \in Tasks :
           e.task[t] = IF t \notin GammeOf(d, o) THEN d.task[t]
                       ELSE IF Gone(d, o, bugs) THEN NoTask ELSE HurtTask(d, t, bugs)

\* The four updates of Damaged, row by row.
LEMMA DamagedRows ==
    ASSUME NEW d \in Database, NEW o \in Occurrences, NEW bugs,
           NEW i \in Interventions, NEW r \in Requests,
           d.occurrence[o].intervention = i, d.occurrence[o].request = r
    PROVE  Hurt(d, Damaged(d, o, bugs), o, i, r, bugs)
<1> DEFINE e == Damaged(d, o, bugs)
           unclosed == "close" \in bugs /\ d.intervention[i].status = "ferme"
           unlinked == "occurrence link" \in bugs
           gone == "tasks" \in bugs /\ Untouched(d, o)
<1>1. Tabled(e)
  <2> DEFINE iv == [d.intervention EXCEPT ![i].plan = @ /\ "plan" \notin bugs]
             rv == [d.request EXCEPT ![r] =
                       IF unclosed THEN [@ EXCEPT !.statut = "acceptee", !.logged = "acceptee"]
                       ELSE @]
             ov == [d.occurrence EXCEPT ![o] =
                       [d.occurrence[o] EXCEPT !.intervention = IF unlinked THEN Null ELSE i,
                                 !.status = IF \/ unclosed
                                               \/ unlinked /\ d.occurrence[o].status = "in_progress"
                                            THEN "generated" ELSE d.occurrence[o].status]]
             tv == [t \in Tasks |->
                       IF t \notin GammeOf(d, o) THEN d.task[t]
                       ELSE IF gone THEN NoTask
                       ELSE [d.task[t] EXCEPT
                               !.intervention = IF "task link" \in bugs THEN Null ELSE @,
                               !.optional = IF "optional" \in bugs THEN ~@ ELSE @]]
  <2>1. e = [d EXCEPT !.intervention = iv, !.request = rv, !.occurrence = ov, !.task = tv]
    BY DEF Damaged, Database
  <2> HIDE DEF iv, rv, ov, tv, e
  <2> QED BY <2>1, DatabaseTabled DEF Tabled
<1>2. e.intervention = [d.intervention EXCEPT ![i].plan = @ /\ "plan" \notin bugs]
  BY DEF Damaged, Database
<1>3. e.request = [d.request EXCEPT ![r] =
          IF unclosed THEN [@ EXCEPT !.statut = "acceptee", !.logged = "acceptee"] ELSE @]
  BY DEF Damaged, Database
<1>4. e.occurrence = [d.occurrence EXCEPT ![o] =
          [d.occurrence[o] EXCEPT
              !.intervention = IF unlinked THEN Null ELSE i,
              !.status = IF \/ unclosed
                            \/ unlinked /\ d.occurrence[o].status = "in_progress"
                         THEN "generated" ELSE d.occurrence[o].status]]
  BY DEF Damaged, Database
<1>5. e.task = [t \in Tasks |->
          IF t \notin GammeOf(d, o) THEN d.task[t]
          ELSE IF gone THEN NoTask
          ELSE [d.task[t] EXCEPT
                  !.intervention = IF "task link" \in bugs THEN Null ELSE @,
                  !.optional = IF "optional" \in bugs THEN ~@ ELSE @]]
  BY DEF Damaged, Database
<1> HIDE DEF e
<1>6. \A j \in Interventions :
          e.intervention[j] = IF j # i THEN d.intervention[j]
              ELSE [d.intervention[i] EXCEPT !.plan = @ /\ "plan" \notin bugs]
  BY <1>2 DEF Database
<1>7. \A q \in Requests :
          e.request[q] = IF q = r /\ unclosed
              THEN [d.request[q] EXCEPT !.statut = "acceptee", !.logged = "acceptee"]
              ELSE d.request[q]
  BY <1>3 DEF Database
<1>8. \A p \in Occurrences :
          e.occurrence[p] = IF p # o THEN d.occurrence[p]
              ELSE [d.occurrence[o] EXCEPT
                       !.intervention = IF unlinked THEN Null ELSE i,
                       !.status = IF \/ unclosed
                                     \/ unlinked /\ d.occurrence[o].status = "in_progress"
                                  THEN "generated" ELSE d.occurrence[o].status]
  <2> DEFINE row == [d.occurrence[o] EXCEPT
                       !.intervention = IF unlinked THEN Null ELSE i,
                       !.status = IF \/ unclosed
                                     \/ unlinked /\ d.occurrence[o].status = "in_progress"
                                  THEN "generated" ELSE d.occurrence[o].status]
  <2>1. e.occurrence = [d.occurrence EXCEPT ![o] = row]
    BY <1>4 DEF row
  <2> HIDE DEF row
  <2>2. \A p \in Occurrences : e.occurrence[p] = IF p # o THEN d.occurrence[p] ELSE row
    BY <2>1 DEF Database
  <2> QED BY <2>2 DEF row
<1>9. \A t \in Tasks :
          e.task[t] = IF t \notin GammeOf(d, o) THEN d.task[t]
          ELSE IF gone THEN NoTask
          ELSE [d.task[t] EXCEPT
                  !.intervention = IF "task link" \in bugs THEN Null ELSE @,
                  !.optional = IF "optional" \in bugs THEN ~@ ELSE @]
  BY <1>5
<1>10. Hurt(d, e, o, i, r, bugs)
  BY <1>1, <1>6, <1>7, <1>8, <1>9
  DEF Hurt, HurtOccurrence, HurtTask, Unclosed, Gone
<1> QED BY <1>10 DEF e

\* e is sound tables d, with occurrence o damaged that is in charge of intervention i
\* for request r.
Wounded(d, e, o, i, r, bugs) ==
    /\ Sound(d) /\ o \in Occurrences /\ i \in Interventions /\ r \in Requests
    /\ d.occurrence[o].intervention = i /\ d.occurrence[o].request = r
    /\ Hurt(d, e, o, i, r, bugs)

LEMMA Wound ==
    ASSUME NEW d, NEW e, NEW o, NEW i, NEW r, NEW bugs, Wounded(d, e, o, i, r, bugs)
    PROVE  /\ d \in Database /\ o \in Occurrences /\ i \in Interventions /\ r \in Requests
           /\ d.occurrence[o].intervention = i /\ d.occurrence[o].request = r
           /\ d.request[r].intervention = i /\ d.intervention[i].plan = TRUE
           /\ i # Null /\ r # Null
           /\ Hurt(d, e, o, i, r, bugs)
BY TablesAssumption DEF Wounded, Sound

\* The link of an occurrence is still found through its request.
LEMMA HurtLinks ==
    ASSUME NEW d, NEW e, NEW o, NEW i, NEW r, NEW bugs, Wounded(d, e, o, i, r, bugs)
    PROVE  \A p \in Occurrences : LinkOf(e, p) = d.occurrence[p].intervention
<1>0. /\ d \in Database /\ o \in Occurrences /\ i \in Interventions /\ r \in Requests
      /\ d.occurrence[o].intervention = i /\ d.occurrence[o].request = r
      /\ d.request[r].intervention = i
      /\ i # Null /\ r # Null
      /\ Hurt(d, e, o, i, r, bugs)
  BY Wound
<1>1. \A q \in Requests : e.request[q].intervention = d.request[q].intervention
  <2> SUFFICES ASSUME NEW q \in Requests
               PROVE  e.request[q].intervention = d.request[q].intervention
    OBVIOUS
  <2>1. \/ e.request[q] = d.request[q]
        \/ e.request[q] = [d.request[q] EXCEPT !.statut = "acceptee", !.logged = "acceptee"]
    BY <1>0 DEF Hurt
  <2>2. d.request[q] \in RequestRow
    BY <1>0 DEF Database
  <2> QED BY <2>1, <2>2 DEF RequestRow
<1>2. ASSUME NEW p \in Occurrences, p # o
      PROVE  LinkOf(e, p) = d.occurrence[p].intervention
  <2>1. e.occurrence[p] = d.occurrence[p]
    BY <1>0, <1>2 DEF Hurt
  <2>2. d.occurrence[p].request \in Requests \cup {Null}
    BY <1>0 DEF Database, OccurrenceRow
  <2>3. LinkOf(e, p) = LinkOf(d, p)
    BY <1>1, <2>1, <2>2 DEF LinkOf
  <2> QED BY <2>3 DEF Wounded, Sound
<1>3. LinkOf(e, o) = i
  <2>1. /\ e.occurrence[o].intervention \in {Null, i}
        /\ e.occurrence[o].request = r
    <3>1. e.occurrence[o] = HurtOccurrence(d, o, i, bugs)
      BY <1>0 DEF Hurt
    <3>2. d.occurrence[o] \in OccurrenceRow
      BY <1>0 DEF Database
    <3> QED BY <1>0, <3>1, <3>2 DEF OccurrenceRow, HurtOccurrence
  <2> QED BY <1>0, <1>1, <2>1 DEF LinkOf
<1> QED BY <1>0, <1>2, <1>3

LEMMA SameLinks ==
    ASSUME NEW d, NEW e, e.occurrence = d.occurrence, e.request = d.request
    PROVE  \A p : LinkOf(e, p) = LinkOf(d, p)
BY DEF LinkOf

\* The interventions have their plan again.
LEMMA PlansFixed ==
    ASSUME NEW d, NEW e, NEW o, NEW i, NEW r, NEW bugs, Wounded(d, e, o, i, r, bugs)
    PROVE  LET f == FixPlans(e) IN
           /\ Tabled(f) /\ f.intervention = d.intervention
           /\ f.request = e.request /\ f.occurrence = e.occurrence /\ f.task = e.task
<1> DEFINE iv == [j \in Interventions |->
                     [e.intervention[j] EXCEPT
                        !.plan = @ \/ \E p \in Occurrences : LinkOf(e, p) = j]]
<1>0. /\ d \in Database /\ o \in Occurrences /\ i \in Interventions /\ r \in Requests
      /\ d.occurrence[o].intervention = i /\ d.occurrence[o].request = r
      /\ i # Null /\ d.intervention[i].plan = TRUE
      /\ Hurt(d, e, o, i, r, bugs)
  BY Wound
<1>1. Tabled(e)
  BY <1>0 DEF Hurt
<1>2. FixPlans(e) = [e EXCEPT !.intervention = iv]
  BY DEF FixPlans
<1>3. iv = d.intervention
  <2>1. \A p \in Occurrences : LinkOf(e, p) = d.occurrence[p].intervention
    BY HurtLinks
  <2>2. ASSUME NEW j \in Interventions PROVE iv[j] = d.intervention[j]
    <3>0. d.intervention[j] \in InterventionRow
      BY <1>0 DEF Database
    <3>1. iv[j] = [e.intervention[j] EXCEPT
                      !.plan = @ \/ \E p \in Occurrences : LinkOf(e, p) = j]
      OBVIOUS
    <3> HIDE DEF iv
    <3>2. CASE j = i
      <4>1. e.intervention[j] = [d.intervention[j] EXCEPT !.plan = @ /\ "plan" \notin bugs]
        BY <1>0, <3>2 DEF Hurt
      <4>2. \E p \in Occurrences : LinkOf(e, p) = j
        BY <1>0, <2>1, <3>2
      <4>3. iv[j] = [e.intervention[j] EXCEPT !.plan = TRUE]
        BY <3>1, <4>2
      <4>4. iv[j] = [d.intervention[j] EXCEPT !.plan = TRUE]
        BY <3>0, <4>1, <4>3 DEF InterventionRow
      <4>5. d.intervention[j].plan = TRUE
        BY <1>0, <3>2
      <4> QED BY <3>0, <4>4, <4>5 DEF InterventionRow
    <3>3. CASE j # i
      <4>1. e.intervention[j] = d.intervention[j]
        BY <1>0, <3>3 DEF Hurt
      <4>2. CASE \E p \in Occurrences : LinkOf(e, p) = j
        <5>1. d.intervention[j].plan = TRUE
          <6>1. PICK p \in Occurrences : LinkOf(e, p) = j
            BY <4>2
          <6>2. Sound(d) /\ d.occurrence[p].intervention = j /\ j # Null
            BY <2>1, <6>1, TablesAssumption DEF Wounded
          <6> QED BY <6>2, SoundOccurrence
        <5>2. iv[j] = [d.intervention[j] EXCEPT !.plan = TRUE]
          BY <3>1, <4>1, <4>2
        <5> QED BY <3>0, <5>1, <5>2 DEF InterventionRow
      <4>3. CASE ~ \E p \in Occurrences : LinkOf(e, p) = j
        <5>1. iv[j] = [d.intervention[j] EXCEPT !.plan = @ \/ FALSE]
          BY <3>1, <4>1, <4>3
        <5> QED BY <3>0, <5>1 DEF InterventionRow
      <4> QED BY <4>2, <4>3
    <3> QED BY <3>2, <3>3
  <2> QED BY <1>0, <2>2 DEF Database
<1> HIDE DEF iv
<1> QED BY <1>1, <1>2, <1>3, TabledWith

\* A task of the damaged gamme with its intervention again.
Relinked(d, o, t, bugs) ==
    IF t \notin GammeOf(d, o) THEN d.task[t]
    ELSE IF Gone(d, o, bugs) THEN NoTask
    ELSE [d.task[t] EXCEPT !.optional = IF "optional" \in bugs THEN ~@ ELSE @]

LEMMA TasksRelinked ==
    ASSUME NEW d, NEW e, NEW o, NEW i, NEW r, NEW bugs, Wounded(d, e, o, i, r, bugs),
           NEW f, Tabled(f), f.request = e.request, f.occurrence = e.occurrence,
           f.task = e.task
    PROVE  LET g == RelinkTasks(f) IN
           /\ Tabled(g) /\ g.intervention = f.intervention
           /\ g.request = e.request /\ g.occurrence = e.occurrence
           /\ \A t \in Tasks : g.task[t] = Relinked(d, o, t, bugs)
<1>0. /\ d \in Database /\ o \in Occurrences /\ d.occurrence[o].intervention = i /\ i # Null
      /\ Hurt(d, e, o, i, r, bugs)
  BY TablesAssumption DEF Wounded, Sound
<1> DEFINE tv == [t \in Tasks |->
                     IF f.task[t].occurrence # Null /\ f.task[t].intervention = Null
                     THEN [f.task[t] EXCEPT !.intervention = LinkOf(f, f.task[t].occurrence)]
                     ELSE f.task[t]]
<1>1. RelinkTasks(f) = [f EXCEPT !.task = tv]
  BY DEF RelinkTasks
<1>2. \A p \in Occurrences : LinkOf(f, p) = d.occurrence[p].intervention
  BY HurtLinks, SameLinks
<1>3. ASSUME NEW t \in Tasks PROVE tv[t] = Relinked(d, o, t, bugs)
  <2>0. /\ d.task[t] \in TaskRow
        /\ d.task[t].occurrence # Null =>
               d.task[t].intervention = d.occurrence[d.task[t].occurrence].intervention
    BY <1>0 DEF Wounded, Sound, Database
  <2>1. tv[t] = IF f.task[t].occurrence # Null /\ f.task[t].intervention = Null
                THEN [f.task[t] EXCEPT !.intervention = LinkOf(f, f.task[t].occurrence)]
                ELSE f.task[t]
    OBVIOUS
  <2>2. f.task[t] = IF t \notin GammeOf(d, o) THEN d.task[t]
                    ELSE IF Gone(d, o, bugs) THEN NoTask ELSE HurtTask(d, t, bugs)
    BY <1>0 DEF Hurt
  <2> HIDE DEF tv
  <2>3. CASE t \notin GammeOf(d, o)
    <3>1. f.task[t] = d.task[t]
      BY <2>2, <2>3
    <3>2. CASE d.task[t].occurrence # Null /\ d.task[t].intervention = Null
      <4>1. LinkOf(f, d.task[t].occurrence) = Null
        BY <1>2, <2>0, <3>2 DEF TaskRow
      <4>2. tv[t] = [d.task[t] EXCEPT !.intervention = Null]
        BY <2>1, <3>1, <3>2, <4>1
      <4>3. tv[t] = d.task[t]
        BY <2>0, <3>2, <4>2 DEF TaskRow
      <4> QED BY <2>3, <4>3 DEF Relinked
    <3>3. CASE ~(d.task[t].occurrence # Null /\ d.task[t].intervention = Null)
      BY <2>1, <2>3, <3>1, <3>3 DEF Relinked
    <3> QED BY <3>2, <3>3
  <2>4. CASE t \in GammeOf(d, o) /\ Gone(d, o, bugs)
    BY <2>1, <2>2, <2>4 DEF Relinked, NoTask
  <2>5. CASE t \in GammeOf(d, o) /\ ~Gone(d, o, bugs)
    <3> DEFINE row == [d.task[t] EXCEPT !.optional = IF "optional" \in bugs THEN ~@ ELSE @]
    <3>1. d.task[t].occurrence = o /\ d.task[t].intervention = i
      <4>1. d.task[t].occurrence = o
        BY <2>5 DEF GammeOf
      <4> QED BY <1>0, <2>0, <4>1, TablesAssumption
    <3>2. /\ f.task[t] = HurtTask(d, t, bugs)
          /\ Relinked(d, o, t, bugs) = row
      BY <2>2, <2>5 DEF Relinked
    <3>3. HurtTask(d, t, bugs) =
              IF "task link" \in bugs THEN [row EXCEPT !.intervention = Null] ELSE row
      BY <2>0 DEF HurtTask, TaskRow
    <3>4. row.occurrence = o /\ row.intervention = i /\ [row EXCEPT !.intervention = i] = row
      BY <2>0, <3>1 DEF TaskRow
    <3>5. /\ [row EXCEPT !.intervention = Null].occurrence = o
          /\ [row EXCEPT !.intervention = Null].intervention = Null
          /\ [[row EXCEPT !.intervention = Null] EXCEPT !.intervention = i] = row
      BY <2>0, <3>1 DEF TaskRow
    <3> HIDE DEF row
    <3>6. LinkOf(f, o) = i /\ o # Null
      BY <1>0, <1>2, TablesAssumption
    <3>7. CASE "task link" \in bugs
      BY <2>1, <3>2, <3>3, <3>5, <3>6, <3>7, ZenonT(60)
    <3>8. CASE "task link" \notin bugs
      BY <1>0, <2>1, <3>2, <3>3, <3>4, <3>8
    <3> QED BY <3>2, <3>7, <3>8
  <2> QED BY <2>3, <2>4, <2>5
<1> HIDE DEF tv
<1> QED BY <1>1, <1>3, TabledWith

\* The damaged occurrence has its intervention again, and is still to be completed if
\* its closure was missed.
LEMMA OccurrenceAttached ==
    ASSUME NEW d, NEW e, NEW o, NEW i, NEW r, NEW bugs, Wounded(d, e, o, i, r, bugs),
           NEW g, Tabled(g), g.request = e.request, g.occurrence = e.occurrence
    PROVE  LET h == AttachLate(g) IN
           /\ Tabled(h) /\ h.intervention = g.intervention
           /\ h.request = g.request /\ h.task = g.task
           /\ \A p \in Occurrences \ {o} : h.occurrence[p] = d.occurrence[p]
           /\ \E s \in OccurrenceStatuses :
                  /\ h.occurrence[o] = [d.occurrence[o] EXCEPT !.status = s]
                  /\ IF Unclosed(d, i, bugs) THEN s \in {"generated", "in_progress"}
                     ELSE s = d.occurrence[o].status
<1>0. /\ d \in Database /\ o \in Occurrences /\ d.occurrence[o].intervention = i /\ i # Null
      /\ Hurt(d, e, o, i, r, bugs)
  BY TablesAssumption DEF Wounded, Sound
<1> DEFINE ov == [p \in Occurrences |->
                     LET occ == g.occurrence[p] IN
                     IF occ.intervention # Null \/ LinkOf(g, p) = Null THEN occ
                     ELSE [occ EXCEPT !.intervention = LinkOf(g, p),
                                      !.status = IF @ \in {"pending", "generated"}
                                                 THEN "in_progress" ELSE @]]
<1>1. AttachLate(g) = [g EXCEPT !.occurrence = ov]
  BY DEF AttachLate
<1>2. \A p \in Occurrences : LinkOf(g, p) = d.occurrence[p].intervention
  BY HurtLinks, SameLinks
<1>3. ASSUME NEW p \in Occurrences \ {o} PROVE ov[p] = d.occurrence[p]
  <2>1. g.occurrence[p] = d.occurrence[p]
    BY <1>0 DEF Hurt
  <2>2. d.occurrence[p].intervention # Null \/ LinkOf(g, p) = Null
    BY <1>2
  <2> QED BY <2>1, <2>2
<1>4. \E s \in OccurrenceStatuses :
          /\ ov[o] = [d.occurrence[o] EXCEPT !.status = s]
          /\ IF Unclosed(d, i, bugs) THEN s \in {"generated", "in_progress"}
             ELSE s = d.occurrence[o].status
  <2> DEFINE c == HurtOccurrence(d, o, i, bugs)
             was == d.occurrence[o].status
             now == IF \/ Unclosed(d, i, bugs)
                       \/ "occurrence link" \in bugs /\ was = "in_progress"
                    THEN "generated" ELSE was
  <2>0. /\ d.occurrence[o] \in OccurrenceRow
        /\ was \in {"in_progress", "completed"}
    BY <1>0 DEF Wounded, Sound, Database
  <2>1. g.occurrence[o] = c
    BY <1>0 DEF Hurt
  <2>2. ov[o] = IF c.intervention # Null \/ LinkOf(g, o) = Null THEN c
                ELSE [c EXCEPT !.intervention = LinkOf(g, o),
                               !.status = IF @ \in {"pending", "generated"}
                                          THEN "in_progress" ELSE @]
    BY <1>0, <2>1
  <2>3. LinkOf(g, o) = i
    BY <1>0, <1>2
  <2> HIDE DEF ov
  <2>4. CASE "occurrence link" \notin bugs
    <3>1. c = [d.occurrence[o] EXCEPT !.status = now]
      BY <1>0, <2>0, <2>4 DEF HurtOccurrence, OccurrenceRow
    <3>2. c.intervention = i
      BY <1>0, <2>0, <3>1 DEF OccurrenceRow
    <3>3. ov[o] = [d.occurrence[o] EXCEPT !.status = now]
      BY <1>0, <2>2, <3>1, <3>2
    <3>4. /\ now \in OccurrenceStatuses
          /\ IF Unclosed(d, i, bugs) THEN now \in {"generated", "in_progress"} ELSE now = was
      BY <2>0, <2>4 DEF OccurrenceStatuses, ActiveOccurrence
    <3> HIDE DEF now
    <3> QED BY <3>3, <3>4
  <2>5. CASE "occurrence link" \in bugs
    <3> DEFINE then == IF now \in {"pending", "generated"} THEN "in_progress" ELSE now
    <3>1. c = [d.occurrence[o] EXCEPT !.status = now, !.intervention = Null]
      BY <2>0, <2>5 DEF HurtOccurrence, OccurrenceRow
    <3>2. c.intervention = Null /\ c.status = now
      BY <2>0, <3>1 DEF OccurrenceRow
    <3>3. ov[o] = [c EXCEPT !.intervention = i, !.status = then]
      BY <1>0, <2>2, <2>3, <3>2
    <3>4. /\ then \in OccurrenceStatuses
          /\ IF Unclosed(d, i, bugs) THEN then \in {"generated", "in_progress"} ELSE then = was
      BY <2>0, <2>5 DEF OccurrenceStatuses, ActiveOccurrence
    <3> HIDE DEF c, then, now
    <3>5. ov[o] = [d.occurrence[o] EXCEPT !.status = then]
      BY <1>0, <2>0, <3>1, <3>3 DEF OccurrenceRow
    <3> QED BY <3>4, <3>5
  <2> QED BY <2>4, <2>5
<1> HIDE DEF ov
<1> QED BY <1>1, <1>3, <1>4, TabledWith

\* The closure the occurrence missed is made up for, and nothing else is closed.
LEMMA StaleCompleted ==
    ASSUME NEW d, NEW e, NEW o, NEW i, NEW r, NEW bugs, Wounded(d, e, o, i, r, bugs),
           NEW h, Tabled(h), h.request = e.request, h.intervention = d.intervention,
           \A p \in Occurrences \ {o} : h.occurrence[p] = d.occurrence[p],
           NEW s \in OccurrenceStatuses,
           h.occurrence[o] = [d.occurrence[o] EXCEPT !.status = s],
           IF Unclosed(d, i, bugs) THEN s \in {"generated", "in_progress"}
           ELSE s = d.occurrence[o].status
    PROVE  LET k == CompleteStale(h) IN
           /\ Tabled(k) /\ k.intervention = d.intervention /\ k.task = h.task
           /\ k.occurrence = d.occurrence
           /\ \A q \in Requests : [k.request[q] EXCEPT !.closings = 0]
                                      = [d.request[q] EXCEPT !.closings = 0]
<1>0. /\ d \in Database /\ o \in Occurrences /\ i \in Interventions /\ r \in Requests
      /\ d.occurrence[o].intervention = i /\ d.occurrence[o].request = r
      /\ d.request[r].intervention = i /\ i # Null /\ r # Null
      /\ Hurt(d, e, o, i, r, bugs)
  BY TablesAssumption DEF Wounded, Sound
<1> DEFINE ov == [p \in Occurrences |->
                     IF p \in Stale(h)
                     THEN [h.occurrence[p] EXCEPT !.intervention = LinkOf(h, p),
                                                  !.status = "completed"]
                     ELSE h.occurrence[p]]
           rv == [q \in Requests |->
                     IF h.request[q].statut = "acceptee"
                            /\ \E p \in Stale(h) : h.occurrence[p].request = q
                     THEN Logged(h.request[q], "cloturee", FALSE)
                     ELSE h.request[q]]
<1>1. CompleteStale(h) = [h EXCEPT !.occurrence = ov, !.request = rv]
  BY DEF CompleteStale
<1>2. /\ d.occurrence[o] \in OccurrenceRow
      /\ h.occurrence[o].status = s
      /\ h.occurrence[o].intervention = i /\ h.occurrence[o].request = r
  BY <1>0 DEF Database, OccurrenceRow
<1>3. \A p \in Occurrences : LinkOf(h, p) = d.occurrence[p].intervention
  <2>1. ASSUME NEW p \in Occurrences \ {o} PROVE LinkOf(h, p) = LinkOf(e, p)
    <3>1. h.occurrence[p] = e.occurrence[p]
      BY <1>0 DEF Hurt
    <3> QED BY <3>1 DEF LinkOf
  <2>2. LinkOf(h, o) = i
    BY <1>0, <1>2 DEF LinkOf
  <2>3. \A p \in Occurrences : LinkOf(e, p) = d.occurrence[p].intervention
    BY HurtLinks
  <2> QED BY <1>0, <2>1, <2>2, <2>3
<1>4. \A p \in Occurrences \ {o} : p \notin Stale(h)
  <2> SUFFICES ASSUME NEW p \in Occurrences \ {o}, p \in Stale(h) PROVE FALSE
    OBVIOUS
  <2>1. /\ d.occurrence[p].status \in {"generated", "in_progress"}
        /\ d.occurrence[p].intervention # Null
        /\ d.intervention[d.occurrence[p].intervention].status = "ferme"
    BY <1>3 DEF Stale
  <2>2. Sound(d)
    BY DEF Wounded
  <2>3. /\ d.occurrence[p].request \in Requests
        /\ d.request[d.occurrence[p].request].intervention = d.occurrence[p].intervention
        /\ d.request[d.occurrence[p].request].statut = "acceptee"
    BY <2>1, <2>2, SoundOccurrence
  <2> QED BY <2>1, <2>2, <2>3, SoundRequest
<1>5. o \in Stale(h) <=> Unclosed(d, i, bugs)
  <2>1. CASE Unclosed(d, i, bugs)
    BY <1>0, <1>2, <1>3, <2>1 DEF Stale, Unclosed
  <2>2. CASE ~Unclosed(d, i, bugs)
    <3>1. s = d.occurrence[o].status
      BY <2>2
    <3>2. \/ s = "completed"
          \/ s = "in_progress" /\ d.intervention[i].status # "ferme"
      <4>1. Sound(d) /\ d.occurrence[o].intervention = i /\ d.occurrence[o].request = r
        BY DEF Wounded
      <4>2. \/ s = "completed"
            \/ s = "in_progress" /\ d.request[r].statut = "acceptee"
        <5>1. o \in Occurrences /\ d.occurrence[o].intervention # Null
          BY <1>0, <4>1
        <5>2. \/ /\ d.occurrence[o].status = "in_progress"
                 /\ d.request[d.occurrence[o].request].statut = "acceptee"
              \/ d.occurrence[o].status = "completed"
          BY <4>1, <5>1, SoundOccurrence
        <5> QED BY <3>1, <4>1, <5>2
      <4>3. d.request[r].statut = "acceptee" => d.intervention[i].status # "ferme"
        BY <1>0, <4>1, SoundRequest
      <4> QED BY <4>2, <4>3
    <3> QED BY <1>0, <1>2, <1>3, <2>2, <3>2 DEF Stale
  <2> QED BY <2>1, <2>2
<1>6. Unclosed(d, i, bugs) => /\ d.occurrence[o].status = "completed"
                              /\ d.request[r].statut = "cloturee"
  BY <1>0 DEF Unclosed, Wounded, Sound
<1>7. ASSUME NEW p \in Occurrences PROVE ov[p] = d.occurrence[p]
  <2>1. CASE p # o
    BY <1>4, <2>1
  <2>2. CASE p = o /\ Unclosed(d, i, bugs)
    <3>1. ov[p] = [h.occurrence[o] EXCEPT !.intervention = i, !.status = "completed"]
      BY <1>0, <1>3, <1>5, <2>2
    <3> HIDE DEF ov
    <3>2. ov[p] = [d.occurrence[o] EXCEPT !.status = "completed", !.intervention = i]
      BY <1>2, <3>1 DEF OccurrenceRow
    <3>3. d.occurrence[o].status = "completed"
      BY <1>6, <2>2
    <3>4. [d.occurrence[o] EXCEPT !.status = "completed", !.intervention = i] = d.occurrence[o]
      BY <1>0, <1>2, <3>3 DEF OccurrenceRow
    <3> QED BY <2>2, <3>2, <3>4
  <2>3. CASE p = o /\ ~Unclosed(d, i, bugs)
    <3>1. ov[p] = [d.occurrence[o] EXCEPT !.status = d.occurrence[o].status]
      BY <1>5, <2>3
    <3> HIDE DEF ov
    <3> QED BY <1>2, <2>3, <3>1 DEF OccurrenceRow
  <2> QED BY <2>1, <2>2, <2>3
<1>8. ASSUME NEW q \in Requests
      PROVE  [rv[q] EXCEPT !.closings = 0] = [d.request[q] EXCEPT !.closings = 0]
  <2>0. /\ d.request[q] \in RequestRow
        /\ d.request[q].logged = d.request[q].statut
    BY <1>0 DEF Wounded, Sound, Database
  <2>1. rv[q] = IF h.request[q].statut = "acceptee"
                       /\ \E p \in Stale(h) : h.occurrence[p].request = q
                THEN Logged(h.request[q], "cloturee", FALSE)
                ELSE h.request[q]
    OBVIOUS
  <2> HIDE DEF rv
  <2>2. CASE q = r /\ Unclosed(d, i, bugs)
    <3>1. h.request[q] = [d.request[q] EXCEPT !.statut = "acceptee", !.logged = "acceptee"]
      BY <1>0, <2>2 DEF Hurt
    <3>2. h.request[q].statut = "acceptee"
      BY <2>0, <3>1 DEF RequestRow
    <3>3. \E p \in Stale(h) : h.occurrence[p].request = q
      BY <1>2, <1>5, <2>2
    <3>4. rv[q] = Logged(h.request[q], "cloturee", FALSE)
      BY <2>1, <3>2, <3>3
    <3>5. d.request[q].statut = "cloturee"
      BY <1>6, <2>2
    <3>6. \E n : rv[q] = [h.request[q] EXCEPT !.statut = "cloturee", !.logged = "cloturee",
                                              !.closings = n]
      BY <3>4 DEF Logged
    <3>7. PICK n : rv[q] = [h.request[q] EXCEPT !.statut = "cloturee", !.logged = "cloturee",
                                                !.closings = n]
      BY <3>6
    <3>8. [rv[q] EXCEPT !.closings = 0]
              = [d.request[q] EXCEPT !.statut = "cloturee", !.logged = "cloturee", !.closings = 0]
      BY <2>0, <3>1, <3>7 DEF RequestRow
    <3>9. d.request[q].logged = "cloturee"
      BY <2>0, <3>5
    <3>10. [d.request[q] EXCEPT !.statut = "cloturee", !.logged = "cloturee", !.closings = 0]
               = [d.request[q] EXCEPT !.closings = 0]
      BY <2>0, <3>5, <3>9 DEF RequestRow
    <3> QED BY <3>8, <3>10
  <2>3. CASE ~(q = r /\ Unclosed(d, i, bugs))
    <3>1. h.request[q] = d.request[q]
      BY <1>0, <2>3 DEF Hurt
    <3>2. ~ \E p \in Stale(h) : h.occurrence[p].request = q
      BY <1>2, <1>4, <1>5, <2>3 DEF Stale
    <3> QED BY <2>1, <3>1, <3>2
  <2> QED BY <2>2, <2>3
<1>9. ov = d.occurrence
  <2>1. d.occurrence = [p \in Occurrences |-> d.occurrence[p]]
    BY <1>0 DEF Database
  <2>2. ov = [p \in Occurrences |-> ov[p]]
    OBVIOUS
  <2> HIDE DEF ov
  <2> QED BY <1>7, <2>1, <2>2
<1> HIDE DEF ov, rv
<1>10. LET k == [h EXCEPT !.occurrence = ov, !.request = rv] IN
       /\ Tabled(k) /\ k.intervention = h.intervention /\ k.task = h.task
       /\ k.occurrence = ov /\ k.request = rv
  <2> DEFINE c == [h EXCEPT !.occurrence = ov]
  <2>1. [h EXCEPT !.occurrence = ov, !.request = rv] = [c EXCEPT !.request = rv]
    OBVIOUS
  <2>2. /\ Tabled(c) /\ c.intervention = h.intervention /\ c.task = h.task
        /\ c.occurrence = ov
    BY TabledWith
  <2> HIDE DEF c
  <2> QED BY <2>1, <2>2, TabledWith
<1> QED BY <1>1, <1>8, <1>9, <1>10

\* The task Regenerate makes.
NewTask(d, t) ==
    [NoTask EXCEPT !.status = "todo", !.optional = t[2] \in OptionalSteps,
                   !.occurrence = t[1], !.intervention = d.occurrence[t[1]].intervention]

Regenerated(d, t) == IF t \in Bare(d) \X Steps THEN NewTask(d, t) ELSE d.task[t]

Resynced(row, t) ==
    IF row.occurrence # Null THEN [row EXCEPT !.optional = t[2] \in OptionalSteps] ELSE row

LEMMA RegeneratedTasks ==
    ASSUME NEW d, Tabled(d)
    PROVE  LET e == Regenerate(d) IN
           /\ Tabled(e) /\ e.intervention = d.intervention
           /\ e.request = d.request /\ e.occurrence = d.occurrence
           /\ e.task = [t \in Tasks |-> Regenerated(d, t)]
<1> DEFINE tv == [t \in Tasks |-> Regenerated(d, t)]
<1>1. Regenerate(d) = [d EXCEPT !.task = tv]
  BY DEF Regenerate, Regenerated, NewTask
<1> HIDE DEF tv
<1>2. LET e == [d EXCEPT !.task = tv] IN
      /\ Tabled(e) /\ e.task = tv /\ e.intervention = d.intervention
      /\ e.occurrence = d.occurrence /\ e.request = d.request
  BY TabledWith
<1> QED BY <1>1, <1>2 DEF tv

LEMMA ResyncedTasks ==
    ASSUME NEW d, Tabled(d)
    PROVE  LET e == ResyncOptional(d) IN
           /\ Tabled(e) /\ e.intervention = d.intervention
           /\ e.request = d.request /\ e.occurrence = d.occurrence
           /\ e.task = [t \in Tasks |-> Resynced(d.task[t], t)]
<1> DEFINE tv == [t \in Tasks |-> Resynced(d.task[t], t)]
<1>1. ResyncOptional(d) = [d EXCEPT !.task = tv]
  BY DEF ResyncOptional, Resynced
<1> HIDE DEF tv
<1>2. LET e == [d EXCEPT !.task = tv] IN
      /\ Tabled(e) /\ e.task = tv /\ e.intervention = d.intervention
      /\ e.occurrence = d.occurrence /\ e.request = d.request
  BY TabledWith
<1> QED BY <1>1, <1>2 DEF tv

LEMMA NewTaskRow ==
    ASSUME NEW d, NEW o \in Occurrences, NEW s \in Steps
    PROVE  /\ NewTask(d, <<o, s>>) =
                  [status |-> "todo", optional |-> s \in OptionalSteps, occurrence |-> o,
                   intervention |-> d.occurrence[o].intervention, tagged |-> FALSE]
           /\ Resynced(NewTask(d, <<o, s>>), <<o, s>>) = NewTask(d, <<o, s>>)
<1>1. <<o, s>>[1] = o /\ <<o, s>>[2] = s
  OBVIOUS
<1> DEFINE needed == s \in OptionalSteps
           link == d.occurrence[o].intervention
<1>2. NewTask(d, <<o, s>>) =
          [[[[[status |-> "none", optional |-> FALSE, occurrence |-> Null,
               intervention |-> Null, tagged |-> FALSE]
            EXCEPT !.status = "todo"] EXCEPT !.optional = needed]
            EXCEPT !.occurrence = o] EXCEPT !.intervention = link]
  BY <1>1 DEF NewTask, NoTask
<1> HIDE DEF needed, link
<1>3. NewTask(d, <<o, s>>) =
          [status |-> "todo", optional |-> needed, occurrence |-> o,
           intervention |-> link, tagged |-> FALSE]
  BY <1>2
<1>4. NewTask(d, <<o, s>>) = [NewTask(d, <<o, s>>) EXCEPT !.optional = needed]
  BY <1>3
<1>5. NewTask(d, <<o, s>>).occurrence = o
  BY <1>3
<1>6. Resynced(NewTask(d, <<o, s>>), <<o, s>>) =
          IF o # Null THEN [NewTask(d, <<o, s>>) EXCEPT !.optional = needed]
          ELSE NewTask(d, <<o, s>>)
  BY <1>1, <1>5 DEF Resynced, needed
<1>7. Resynced(NewTask(d, <<o, s>>), <<o, s>>) = NewTask(d, <<o, s>>)
  BY <1>4, <1>6
<1> QED BY <1>3, <1>7 DEF needed, link

\* The occurrences without tasks are the same, with the damaged one when its gamme was
\* lost.
LEMMA BareAgain ==
    ASSUME NEW d, NEW e, NEW o, NEW i, NEW r, NEW bugs, Wounded(d, e, o, i, r, bugs),
           NEW k, k.occurrence = d.occurrence,
           \A t \in Tasks : k.task[t] = Relinked(d, o, t, bugs)
    PROVE  /\ \A p \in Occurrences \ {o} : p \in Bare(k) <=> p \in Bare(d)
           /\ Gone(d, o, bugs) => o \in Bare(k)
           /\ ~Gone(d, o, bugs) => (o \in Bare(k) <=> o \in Bare(d))
<1>0. /\ d \in Database /\ o \in Occurrences /\ d.occurrence[o].intervention = i /\ i # Null
      /\ o # Null
  BY TablesAssumption DEF Wounded, Sound
<1>1. \A t \in Tasks : (d.task[t].occurrence = o) <=> t \in GammeOf(d, o)
  BY DEF GammeOf
<1>2. \A t \in Tasks : t \notin GammeOf(d, o) => k.task[t].occurrence = d.task[t].occurrence
  BY DEF Relinked
<1>3. Gone(d, o, bugs) => \A t \in GammeOf(d, o) : k.task[t].occurrence = Null
  <2>1. GammeOf(d, o) \subseteq Tasks /\ NoTask.occurrence = Null
    BY DEF GammeOf, NoTask
  <2> QED BY <2>1 DEF Relinked
<1>4. ~Gone(d, o, bugs) => \A t \in GammeOf(d, o) : k.task[t].occurrence = o
  <2> SUFFICES ASSUME ~Gone(d, o, bugs), NEW t \in GammeOf(d, o)
               PROVE  k.task[t].occurrence = o
    OBVIOUS
  <2>1. t \in Tasks /\ d.task[t].occurrence = o /\ d.task[t] \in TaskRow
    BY <1>0 DEF GammeOf, Database
  <2>2. k.task[t] = [d.task[t] EXCEPT !.optional = IF "optional" \in bugs THEN ~@ ELSE @]
    BY <2>1 DEF Relinked
  <2> QED BY <2>1, <2>2 DEF TaskRow
<1>5. ASSUME NEW p \in Occurrences \ {o} PROVE p \in Bare(k) <=> p \in Bare(d)
  <2>1. p # Null
    BY TablesAssumption
  <2>2. ASSUME NEW t \in Tasks
        PROVE  k.task[t].occurrence = p <=> d.task[t].occurrence = p
    <3>1. CASE t \notin GammeOf(d, o)
      BY <1>2, <3>1
    <3>2. CASE t \in GammeOf(d, o)
      BY <1>1, <1>3, <1>4, <2>1, <3>2
    <3> QED BY <3>1, <3>2
  <2> QED BY <2>2 DEF Bare
<1>6. Gone(d, o, bugs) => o \in Bare(k)
  BY <1>0, <1>1, <1>2, <1>3 DEF Bare
<1>7. ~Gone(d, o, bugs) => (o \in Bare(k) <=> o \in Bare(d))
  <2> SUFFICES ASSUME ~Gone(d, o, bugs), NEW t \in Tasks
               PROVE  k.task[t].occurrence = o <=> d.task[t].occurrence = o
    BY <1>0 DEF Bare
  <2> QED BY <1>1, <1>2, <1>4
<1> QED BY <1>5, <1>6, <1>7

\* The tasks come out as they would without the damage.
LEMMA TasksAgain ==
    ASSUME NEW d, NEW e, NEW o, NEW i, NEW r, NEW bugs, Wounded(d, e, o, i, r, bugs),
           NEW k, k.occurrence = d.occurrence,
           \A t \in Tasks : k.task[t] = Relinked(d, o, t, bugs),
           NEW t \in Tasks
    PROVE  Resynced(Regenerated(k, t), t) = Regenerated(d, t)
<1>0. /\ d \in Database /\ o \in Occurrences /\ d.occurrence[o].intervention = i /\ i # Null
      /\ o # Null /\ d.task[t] \in TaskRow
  BY TablesAssumption DEF Wounded, Sound, Database
<1>1. d.task[t].occurrence # Null =>
          /\ t \in PlanTasks
          /\ d.task[t].occurrence = t[1]
          /\ d.task[t].optional = (t[2] \in OptionalSteps)
          /\ d.task[t].intervention = d.occurrence[d.task[t].occurrence].intervention
  BY DEF Wounded, Sound
<1>2. \A p : NewTask(k, p) = NewTask(d, p)
  BY DEF NewTask
<1>3. Resynced(d.task[t], t) = d.task[t]
  <2>1. CASE d.task[t].occurrence = Null
    BY <2>1 DEF Resynced
  <2>2. CASE d.task[t].occurrence # Null
    <3>1. Resynced(d.task[t], t) = [d.task[t] EXCEPT !.optional = t[2] \in OptionalSteps]
      BY <2>2 DEF Resynced
    <3>2. [d.task[t] EXCEPT !.optional = d.task[t].optional] = d.task[t]
      BY <1>0 DEF TaskRow
    <3> QED BY <1>1, <2>2, <3>1, <3>2
  <2> QED BY <2>1, <2>2
<1>4. /\ \A p \in Occurrences \ {o} : p \in Bare(k) <=> p \in Bare(d)
      /\ Gone(d, o, bugs) => o \in Bare(k)
      /\ ~Gone(d, o, bugs) => (o \in Bare(k) <=> o \in Bare(d))
  BY BareAgain
<1>5. \A x : Bare(x) \subseteq Occurrences
  BY DEF Bare
<1>6. CASE t \in GammeOf(d, o)
  <2>1. /\ d.task[t].occurrence = o /\ t \in PlanTasks /\ t[1] = o
        /\ d.task[t].optional = (t[2] \in OptionalSteps) /\ d.task[t].intervention = i
    BY <1>0, <1>1, <1>6 DEF GammeOf
  <2>2. PICK s \in Steps : t = <<o, s>>
    BY <2>1 DEF PlanTasks
  <2>3. o \notin Bare(d)
    BY <2>1 DEF Bare
  <2>4. Regenerated(d, t) = d.task[t]
    BY <2>2, <2>3 DEF Regenerated
  <2>5. CASE Gone(d, o, bugs)
    <3>1. Regenerated(k, t) = NewTask(d, t)
      BY <1>2, <1>4, <2>2, <2>5 DEF Regenerated
    <3>2. d.task[t].status = "todo" /\ d.task[t].tagged = FALSE
      BY <1>0, <2>2, <2>5 DEF Gone, Untouched, TaskRow
    <3>3. NewTask(d, t) =
              [status |-> "todo", optional |-> s \in OptionalSteps, occurrence |-> o,
               intervention |-> i, tagged |-> FALSE]
      BY <1>0, <2>2, NewTaskRow
    <3>4. d.task[t].optional = (s \in OptionalSteps)
      BY <2>1, <2>2
    <3>5. d.task[t] = [status |-> d.task[t].status, optional |-> d.task[t].optional,
                       occurrence |-> d.task[t].occurrence,
                       intervention |-> d.task[t].intervention,
                       tagged |-> d.task[t].tagged]
      BY <1>0 DEF TaskRow
    <3>6. NewTask(d, t) = d.task[t]
      BY <2>1, <3>2, <3>3, <3>4, <3>5
    <3> QED BY <1>3, <2>4, <3>1, <3>6
  <2>6. CASE ~Gone(d, o, bugs)
    <3> DEFINE row == [d.task[t] EXCEPT !.optional = IF "optional" \in bugs THEN ~@ ELSE @]
    <3>1. k.task[t] = row
      BY <1>6, <2>6 DEF Relinked
    <3>2. t \notin Bare(k) \X Steps
      BY <1>4, <2>2, <2>3, <2>6
    <3>3. Regenerated(k, t) = row
      BY <3>1, <3>2 DEF Regenerated
    <3>4. row.occurrence = o
      BY <1>0, <2>1 DEF TaskRow
    <3>5. [row EXCEPT !.optional = d.task[t].optional] = d.task[t]
      BY <1>0 DEF TaskRow
    <3> HIDE DEF row
    <3>6. Resynced(row, t) = [row EXCEPT !.optional = d.task[t].optional]
      BY <1>0, <2>1, <3>4 DEF Resynced
    <3> QED BY <2>4, <3>3, <3>5, <3>6
  <2> QED BY <2>5, <2>6
<1>7. CASE t \notin GammeOf(d, o)
  <2>1. k.task[t] = d.task[t] /\ d.task[t].occurrence # o
    BY <1>7 DEF Relinked, GammeOf
  <2>2. t \in Bare(k) \X Steps <=> t \in Bare(d) \X Steps
    <3>1. CASE t \in {o} \X Steps
      <4>1. ~Gone(d, o, bugs)
        BY <2>1, <3>1 DEF Gone, Untouched
      <4> QED BY <1>4, <3>1, <4>1
    <3>2. CASE t \notin {o} \X Steps
      <4>1. ASSUME NEW p \in Occurrences, NEW s \in Steps, t = <<p, s>>
            PROVE  t \in Bare(k) \X Steps <=> t \in Bare(d) \X Steps
        BY <1>4, <3>2, <4>1
      <4> QED BY <1>5, <4>1
    <3> QED BY <3>1, <3>2
  <2>3. CASE t \in Bare(d) \X Steps
    <3>1. PICK p \in Occurrences, s \in Steps : t = <<p, s>>
      BY <1>5, <2>3
    <3>2. Regenerated(k, t) = NewTask(d, t) /\ Regenerated(d, t) = NewTask(d, t)
      BY <1>2, <2>2, <2>3 DEF Regenerated
    <3>3. Resynced(NewTask(d, t), t) = NewTask(d, t)
      BY <3>1, NewTaskRow
    <3> QED BY <3>2, <3>3
  <2>4. CASE t \notin Bare(d) \X Steps
    BY <1>3, <2>1, <2>2, <2>4 DEF Regenerated
  <2> QED BY <2>3, <2>4
<1> QED BY <1>6, <1>7

\* Databases with the same rows, but for the counted log rows of requests.
LEMMA AlikeRows ==
    ASSUME NEW d, NEW e, Tabled(d), Tabled(e),
           d.intervention = e.intervention, d.occurrence = e.occurrence, d.task = e.task,
           \A r \in Requests : [d.request[r] EXCEPT !.closings = 0]
                                   = [e.request[r] EXCEPT !.closings = 0]
    PROVE  Alike(d, e)
<1>1. \A x : Tabled(x) =>
          [x EXCEPT !.request = 0] = [request |-> 0, intervention |-> x.intervention,
                                      occurrence |-> x.occurrence, task |-> x.task]
  <2> SUFFICES ASSUME NEW x, Tabled(x)
               PROVE  [x EXCEPT !.request = 0]
                          = [request |-> 0, intervention |-> x.intervention,
                             occurrence |-> x.occurrence, task |-> x.task]
    OBVIOUS
  <2> DEFINE q == x.request
             i == x.intervention
             o == x.occurrence
             t == x.task
  <2>1. x = [request |-> q, intervention |-> i, occurrence |-> o, task |-> t]
    BY DEF Tabled
  <2> HIDE DEF q, i, o, t
  <2>2. [x EXCEPT !.request = 0]
            = [request |-> 0, intervention |-> i, occurrence |-> o, task |-> t]
    BY <2>1
  <2> QED BY <2>2 DEF i, o, t
<1> QED BY <1>1 DEF Alike

\* Whatever the bugs, the repair of the occurrences gives back the sound tables.
LEMMA OccurrencesRepaired ==
    ASSUME NEW d, NEW e, NEW o, NEW i, NEW r, NEW bugs, Wounded(d, e, o, i, r, bugs)
    PROVE  Alike(RepairOccurrencesTx(e), Regenerate(d))
<1> DEFINE f == FixPlans(e)
           g == RelinkTasks(f)
           h == AttachLate(g)
           k == CompleteStale(h)
           m == Regenerate(k)
           n == ResyncOptional(m)
<1>1. /\ Tabled(f) /\ f.intervention = d.intervention
      /\ f.request = e.request /\ f.occurrence = e.occurrence /\ f.task = e.task
  BY PlansFixed
<1>2. RepairOccurrencesTx(e) = n
  BY DEF RepairOccurrencesTx
<1> HIDE DEF f
<1>3. /\ Tabled(g) /\ g.intervention = f.intervention
      /\ g.request = e.request /\ g.occurrence = e.occurrence
      /\ \A t \in Tasks : g.task[t] = Relinked(d, o, t, bugs)
  BY <1>1, TasksRelinked
<1> HIDE DEF g
<1>4. /\ Tabled(h) /\ h.intervention = g.intervention
      /\ h.request = g.request /\ h.task = g.task
      /\ \A p \in Occurrences \ {o} : h.occurrence[p] = d.occurrence[p]
      /\ \E s \in OccurrenceStatuses :
             /\ h.occurrence[o] = [d.occurrence[o] EXCEPT !.status = s]
             /\ IF Unclosed(d, i, bugs) THEN s \in {"generated", "in_progress"}
                ELSE s = d.occurrence[o].status
  BY <1>3, OccurrenceAttached
<1> HIDE DEF h
<1>5. PICK s \in OccurrenceStatuses :
          /\ h.occurrence[o] = [d.occurrence[o] EXCEPT !.status = s]
          /\ IF Unclosed(d, i, bugs) THEN s \in {"generated", "in_progress"}
             ELSE s = d.occurrence[o].status
  BY <1>4
<1>6. h.request = e.request /\ h.intervention = d.intervention
  BY <1>1, <1>3, <1>4
<1>7. /\ Tabled(k) /\ k.intervention = d.intervention /\ k.task = h.task
      /\ k.occurrence = d.occurrence
      /\ \A q \in Requests : [k.request[q] EXCEPT !.closings = 0]
                                 = [d.request[q] EXCEPT !.closings = 0]
  BY <1>4, <1>5, <1>6, StaleCompleted
<1> HIDE DEF k
<1>8. /\ Tabled(m) /\ m.intervention = k.intervention
      /\ m.request = k.request /\ m.occurrence = k.occurrence
      /\ m.task = [t \in Tasks |-> Regenerated(k, t)]
  BY <1>7, RegeneratedTasks
<1> HIDE DEF m
<1>9. /\ Tabled(n) /\ n.intervention = m.intervention
      /\ n.request = m.request /\ n.occurrence = m.occurrence
      /\ n.task = [t \in Tasks |-> Resynced(m.task[t], t)]
  BY <1>8, ResyncedTasks
<1> HIDE DEF n
<1>10. d \in Database /\ Tabled(d)
  BY DatabaseTabled DEF Wounded, Sound
<1> DEFINE a == Regenerate(d)
<1>11. /\ Tabled(a) /\ a.intervention = d.intervention
       /\ a.request = d.request /\ a.occurrence = d.occurrence
       /\ a.task = [t \in Tasks |-> Regenerated(d, t)]
  BY <1>10, RegeneratedTasks
<1> HIDE DEF a
<1>12. \A t \in Tasks : Resynced(m.task[t], t) = Regenerated(d, t)
  <2>1. \A t \in Tasks : k.task[t] = Relinked(d, o, t, bugs)
    BY <1>3, <1>4, <1>7
  <2>2. \A t \in Tasks : Resynced(Regenerated(k, t), t) = Regenerated(d, t)
    BY <1>7, <2>1, TasksAgain
  <2> QED BY <1>8, <2>2
<1>13. n.task = a.task
  BY <1>9, <1>11, <1>12
<1>14. Alike(n, a)
  BY <1>7, <1>8, <1>9, <1>11, <1>13, AlikeRows
<1> QED BY <1>2, <1>14 DEF a

------------------------------------------------------------------------------
(* The closure the request missed *)

\* e is sound tables d where the closed intervention i left its request r accepted.
Forgotten(d, e, i, r) ==
    /\ Sound(d) /\ i \in Interventions /\ r \in Requests
    /\ d.intervention[i].status = "ferme" /\ d.request[r].statut = "cloturee"
    /\ d.request[r].intervention = i
    /\ e = [d EXCEPT !.request[r] = [@ EXCEPT !.statut = "acceptee", !.logged = "acceptee"]]

\* The rows of e are those of d, but for the request.
Accepted(d, e, i, r) ==
    /\ Tabled(e) /\ e.intervention = d.intervention /\ e.occurrence = d.occurrence
    /\ e.task = d.task
    /\ \A q \in Requests \ {r} : e.request[q] = d.request[q]
    /\ e.request[r] = [d.request[r] EXCEPT !.statut = "acceptee", !.logged = "acceptee"]
    /\ e.request[r].statut = "acceptee" /\ e.request[r].intervention = i
    /\ d.request[r] \in RequestRow /\ d.request[r].logged = "cloturee" /\ i # Null

LEMMA ForgottenRows ==
    ASSUME NEW d, NEW e, NEW i, NEW r, Forgotten(d, e, i, r)
    PROVE  Accepted(d, e, i, r)
<1>0. /\ Tabled(d) /\ d \in Database /\ r \in Requests /\ i \in Interventions
      /\ d.request[r] \in RequestRow /\ d.request[r].logged = "cloturee"
      /\ d.request[r].intervention = i /\ i # Null
  BY DatabaseTabled, TablesAssumption DEF Forgotten, Sound, Database
<1> DEFINE row == [d.request[r] EXCEPT !.statut = "acceptee", !.logged = "acceptee"]
           rv == [d.request EXCEPT ![r] = row]
<1>1. e = [d EXCEPT !.request = rv]
  BY DEF Forgotten
<1>2. row.statut = "acceptee" /\ row.intervention = i
  BY <1>0 DEF RequestRow
<1> HIDE DEF row
<1>3. rv[r] = row /\ \A q \in Requests \ {r} : rv[q] = d.request[q]
  BY <1>0 DEF Database
<1> HIDE DEF rv
<1>5. /\ Tabled(e) /\ e.request = rv /\ e.intervention = d.intervention
      /\ e.occurrence = d.occurrence /\ e.task = d.task
  BY <1>0, <1>1, TabledWith
<1>6. e.request[r] = [d.request[r] EXCEPT !.statut = "acceptee", !.logged = "acceptee"]
  BY <1>3, <1>5 DEF row
<1> QED BY <1>0, <1>2, <1>3, <1>5, <1>6 DEF row, Accepted

\* A log row "cloturee" on the forgotten request puts it back, but for the count.
LEMMA ClosedAgain ==
    ASSUME NEW row \in RequestRow, row.statut = "cloturee", row.logged = "cloturee"
    PROVE  [Logged([row EXCEPT !.statut = "acceptee", !.logged = "acceptee"],
                   "cloturee", FALSE) EXCEPT !.closings = 0] = [row EXCEPT !.closings = 0]
<1> DEFINE c == Counted([row EXCEPT !.statut = "acceptee", !.logged = "acceptee"].closings)
<1>1. Logged([row EXCEPT !.statut = "acceptee", !.logged = "acceptee"], "cloturee", FALSE)
          = [[row EXCEPT !.statut = "acceptee", !.logged = "acceptee"] EXCEPT
                !.statut = "cloturee", !.logged = "cloturee", !.closings = c]
  BY DEF Logged
<1> HIDE DEF c
<1> QED BY <1>1 DEF RequestRow

\* The repair of the requests finds the forgotten one, and only that.
LEMMA RequestsRepaired ==
    ASSUME NEW d, NEW e, NEW i, NEW r, Forgotten(d, e, i, r)
    PROVE  Alike(RepairRequestsTx(e), d)
<1>0. /\ d \in Database /\ Tabled(d) /\ r \in Requests
      /\ d.intervention[i].status = "ferme" /\ d.request[r].statut = "cloturee"
  BY DatabaseTabled DEF Forgotten, Sound
<1>1. /\ Tabled(e) /\ e.intervention = d.intervention /\ e.occurrence = d.occurrence
      /\ e.task = d.task
      /\ \A q \in Requests \ {r} : e.request[q] = d.request[q]
      /\ e.request[r] = [d.request[r] EXCEPT !.statut = "acceptee", !.logged = "acceptee"]
      /\ e.request[r].statut = "acceptee" /\ e.request[r].intervention = i
      /\ d.request[r] \in RequestRow /\ d.request[r].logged = "cloturee" /\ i # Null
  <2>1. Accepted(d, e, i, r)
    BY ForgottenRows
  <2> QED BY <2>1 DEF Accepted
<1>2. r \in Orphaned(e)
  BY <1>0, <1>1 DEF Orphaned
<1>3. \A q \in Requests \ {r} : q \notin Orphaned(e)
  <2> SUFFICES ASSUME NEW q \in Requests \ {r}, q \in Orphaned(e) PROVE FALSE
    OBVIOUS
  <2>1. q \in Orphaned(d)
    BY <1>1 DEF Orphaned, OccurrencesOfRequest
  <2>2. Sound(d)
    BY DEF Forgotten
  <2> QED BY <2>1, <2>2, NoneOrphaned
<1> DEFINE rv == [q \in Requests |->
                     IF q \notin Orphaned(e) THEN e.request[q]
                     ELSE Logged(
                       IF e.request[q].intervention # Null THEN e.request[q]
                       ELSE [e.request[q] EXCEPT !.intervention =
                               e.occurrence[CHOOSE o \in OccurrencesOfRequest(e, q) : TRUE]
                                   .intervention],
                       "cloturee", FALSE)]
<1>4. RepairRequestsTx(e) = [e EXCEPT !.request = rv]
  BY DEF RepairRequestsTx
<1>5. ASSUME NEW q \in Requests
      PROVE  [rv[q] EXCEPT !.closings = 0] = [d.request[q] EXCEPT !.closings = 0]
  <2>1. CASE q = r
    <3>1. rv[q] = Logged(e.request[r], "cloturee", FALSE)
      BY <1>1, <1>2, <2>1
    <3> HIDE DEF rv
    <3>2. rv[q] = Logged([d.request[r] EXCEPT !.statut = "acceptee", !.logged = "acceptee"],
                         "cloturee", FALSE)
      BY <1>1, <3>1
    <3>3. d.request[r] \in RequestRow /\ d.request[r].statut = "cloturee"
          /\ d.request[r].logged = "cloturee"
      BY <1>0, <1>1
    <3> QED BY <2>1, <3>2, <3>3, ClosedAgain
  <2>2. CASE q # r
    <3>1. rv[q] = d.request[q]
      BY <1>1, <1>3, <2>2
    <3> HIDE DEF rv
    <3> QED BY <3>1
  <2> QED BY <2>1, <2>2
<1> HIDE DEF rv
<1>6. LET f == [e EXCEPT !.request = rv] IN
      /\ Tabled(f) /\ f.request = rv /\ f.intervention = e.intervention
      /\ f.occurrence = e.occurrence /\ f.task = e.task
  BY <1>1, TabledWith
<1> DEFINE f == [e EXCEPT !.request = rv]
<1>7. /\ Tabled(f) /\ f.request = rv /\ f.intervention = e.intervention
      /\ f.occurrence = e.occurrence /\ f.task = e.task
  BY <1>6
<1> HIDE DEF f
<1>8. Alike(f, d)
  BY <1>0, <1>1, <1>5, <1>7, AlikeRows
<1> QED BY <1>4, <1>8 DEF f

\* The explicit closure finds the forgotten request, and only that.
LEMMA ForceCloses ==
    ASSUME NEW d, NEW e, NEW i, NEW r, Forgotten(d, e, i, r)
    PROVE  ~ForceCloseRefused(e, i) /\ Alike(ForceCloseTx(e, i), d)
<1>0. /\ d \in Database /\ Tabled(d) /\ r \in Requests /\ i \in Interventions
      /\ d.intervention[i].status = "ferme" /\ d.request[r].statut = "cloturee"
      /\ d.request[r].intervention = i
  BY DatabaseTabled DEF Forgotten, Sound
<1>1. /\ Tabled(e) /\ e.intervention = d.intervention /\ e.occurrence = d.occurrence
      /\ e.task = d.task
      /\ \A q \in Requests \ {r} : e.request[q] = d.request[q]
      /\ e.request[r] = [d.request[r] EXCEPT !.statut = "acceptee", !.logged = "acceptee"]
      /\ e.request[r].statut = "acceptee" /\ e.request[r].intervention = i
      /\ d.request[r] \in RequestRow /\ d.request[r].logged = "cloturee" /\ i # Null
  <2>1. Accepted(d, e, i, r)
    BY ForgottenRows
  <2> QED BY <2>1 DEF Accepted
<1>2. \A q \in Requests : d.request[q].intervention = i => q = r
  <2>1. Sound(d)
    BY DEF Forgotten
  <2> QED BY <1>0, <1>1, <2>1, SoundRequest
<1>3. RequestsClosedWith(e, i, "ferme") = {r}
  <2>1. \A q \in RequestsClosedWith(e, i, "ferme") : q = r
    BY <1>1, <1>2 DEF RequestsClosedWith, RequestsLinkedTo
  <2>2. r \in RequestsClosedWith(e, i, "ferme")
    BY <1>0, <1>1 DEF RequestsClosedWith, RequestsLinkedTo
  <2> QED BY <2>1, <2>2
<1>4. ~ForceCloseRefused(e, i)
  BY <1>0, <1>1, <1>3 DEF ForceCloseRefused
<1> DEFINE row == Logged(e.request[r], "cloturee", FALSE)
           rv == [e.request EXCEPT ![r] = row]
           f == [e EXCEPT !.request = rv]
<1>5. ForceCloseTx(e, i) = CompleteOccurrences(f, i, r)
  <2>1. (CHOOSE q \in {r} : TRUE) = r
    OBVIOUS
  <2>2. ForceCloseTx(e, i) = CascadeTx(e, i, r, FALSE, r, {})
    BY <1>3, <2>1 DEF ForceCloseTx
  <2>3. r # Null
    BY <1>0, TablesAssumption
  <2>4. CascadeTx(e, i, r, FALSE, r, {})
            = CompleteOccurrences(LogRequest(e, r, "cloturee", {}), i, r)
    BY <2>3 DEF CascadeTx
  <2>5. (r \in {}) = FALSE
    OBVIOUS
  <2>6. LogRequest(e, r, "cloturee", {}) = f
    BY <2>5 DEF LogRequest
  <2> QED BY <2>2, <2>4, <2>6
<1>6. [row EXCEPT !.closings = 0] = [d.request[r] EXCEPT !.closings = 0]
  BY <1>0, <1>1, ClosedAgain, ZenonT(60)
<1> HIDE DEF row
<1>7. \A q \in Requests : [rv[q] EXCEPT !.closings = 0] = [d.request[q] EXCEPT !.closings = 0]
  <2>1. e.request = [d.request EXCEPT ![r] =
                        [d.request[r] EXCEPT !.statut = "acceptee", !.logged = "acceptee"]]
    BY <1>0 DEF Forgotten, Tabled, Database
  <2>2. DOMAIN e.request = Requests
    BY <1>0, <2>1 DEF Database
  <2>3. rv[r] = row /\ \A q \in Requests \ {r} : rv[q] = d.request[q]
    BY <1>0, <1>1, <2>2
  <2> QED BY <1>6, <2>3
<1> HIDE DEF rv
<1>8. /\ Tabled(f) /\ f.request = rv /\ f.intervention = e.intervention
      /\ f.occurrence = e.occurrence /\ f.task = e.task
  BY <1>1, TabledWith
<1> HIDE DEF f
<1>9. CompleteOccurrences(f, i, r) = [f EXCEPT !.occurrence = d.occurrence]
  <2>1. ASSUME NEW o \in Occurrences,
               d.occurrence[o].status \notin {"completed", "skipped"},
               \/ r # Null /\ d.occurrence[o].request = r
               \/ i # Null /\ d.occurrence[o].intervention = i
        PROVE  FALSE
    <3>1. CASE d.occurrence[o].request = r
      <4>1. o \in OccurrencesOfRequest(d, r)
        BY <3>1 DEF OccurrencesOfRequest
      <4> QED BY <1>0, <2>1, <4>1 DEF Forgotten, Sound
    <3>2. CASE i # Null /\ d.occurrence[o].intervention = i
      <4>1. /\ d.occurrence[o].request \in Requests
            /\ d.request[d.occurrence[o].request].intervention = i
            /\ d.occurrence[o].status = "in_progress" =>
                   d.request[d.occurrence[o].request].statut = "acceptee"
            /\ d.occurrence[o].status \in {"in_progress", "completed"}
        BY <3>2 DEF Forgotten, Sound
      <4>2. d.occurrence[o].request = r
        BY <1>2, <4>1
      <4> QED BY <1>0, <2>1, <4>1, <4>2
    <3> QED BY <2>1, <3>1, <3>2
  <2>2. f.occurrence = d.occurrence
    BY <1>1, <1>8
  <2>3. [o \in Occurrences |->
          IF /\ f.occurrence[o].status \notin {"completed", "skipped"}
             /\ \/ r # Null /\ f.occurrence[o].request = r
                \/ i # Null /\ f.occurrence[o].intervention = i
          THEN [f.occurrence[o] EXCEPT !.status = "completed"]
          ELSE f.occurrence[o]] = [o \in Occurrences |-> d.occurrence[o]]
    BY <2>1, <2>2
  <2>4. [o \in Occurrences |-> d.occurrence[o]] = d.occurrence
    BY <1>0 DEF Database
  <2> QED BY <2>3, <2>4 DEF CompleteOccurrences
<1> DEFINE g == [f EXCEPT !.occurrence = d.occurrence]
<1>10. /\ Tabled(g) /\ g.occurrence = d.occurrence /\ g.intervention = f.intervention
       /\ g.request = f.request /\ g.task = f.task
  BY <1>8, TabledWith
<1> HIDE DEF g
<1>11. Alike(g, d)
  BY <1>0, <1>1, <1>7, <1>8, <1>10, AlikeRows
<1> QED BY <1>4, <1>5, <1>9, <1>11 DEF g

\* The request that lost its link too finds it in its occurrence.
LEMMA UnlinkedRepaired ==
    ASSUME NEW d, NEW e, NEW i, NEW r, Forgotten(d, e, i, r),
           NEW o \in OccurrencesOfRequest(d, r), d.occurrence[o].intervention = i
    PROVE  Alike(RepairRequestsTx(Unlinked(e, r)), d)
<1>0. /\ d \in Database /\ Tabled(d) /\ r \in Requests /\ r # Null
      /\ d.intervention[i].status = "ferme" /\ d.request[r].statut = "cloturee"
      /\ d.request[r].intervention = i
  BY DatabaseTabled, TablesAssumption DEF Forgotten, Sound
<1>1. /\ Tabled(e) /\ e.intervention = d.intervention /\ e.occurrence = d.occurrence
      /\ e.task = d.task
      /\ \A q \in Requests \ {r} : e.request[q] = d.request[q]
      /\ e.request[r] = [d.request[r] EXCEPT !.statut = "acceptee", !.logged = "acceptee"]
      /\ e.request[r].statut = "acceptee" /\ e.request[r].intervention = i
      /\ d.request[r] \in RequestRow /\ d.request[r].logged = "cloturee" /\ i # Null
  <2>1. Accepted(d, e, i, r)
    BY ForgottenRows
  <2> QED BY <2>1 DEF Accepted
<1> DEFINE row == [e.request[r] EXCEPT !.intervention = Null]
           uv == [e.request EXCEPT ![r] = row]
           u == [e EXCEPT !.request = uv]
<1>2. Unlinked(e, r) = u
  BY DEF Unlinked
<1>3. /\ row.statut = "acceptee" /\ row.intervention = Null
      /\ [row EXCEPT !.intervention = i] = e.request[r]
  BY <1>0, <1>1, ZenonT(60) DEF RequestRow
<1> HIDE DEF row
<1>4. uv[r] = row /\ \A q \in Requests \ {r} : uv[q] = d.request[q]
  <2>1. e.request = [d.request EXCEPT ![r] =
                        [d.request[r] EXCEPT !.statut = "acceptee", !.logged = "acceptee"]]
    BY <1>0 DEF Forgotten, Tabled, Database
  <2>2. DOMAIN e.request = Requests
    BY <1>0, <2>1 DEF Database
  <2> QED BY <1>0, <1>1, <2>2
<1> HIDE DEF uv
<1>5. /\ Tabled(u) /\ u.request = uv /\ u.intervention = e.intervention
      /\ u.occurrence = e.occurrence /\ u.task = e.task
  BY <1>1, TabledWith
<1> HIDE DEF u
<1>6. OccurrencesOfRequest(u, r) = {o}
  <2>1. o \in Occurrences /\ d.occurrence[o].request = r
    BY DEF OccurrencesOfRequest
  <2>2. \A p \in Occurrences : d.occurrence[p].request = r => o = p
    BY <1>0, <2>1 DEF Forgotten, Sound
  <2> QED BY <1>1, <1>5, <2>1, <2>2 DEF OccurrencesOfRequest
<1>7. r \in Orphaned(u)
  BY <1>0, <1>1, <1>3, <1>4, <1>5, <1>6 DEF Orphaned
<1>8. \A q \in Requests \ {r} : q \notin Orphaned(u)
  <2> SUFFICES ASSUME NEW q \in Requests \ {r}, q \in Orphaned(u) PROVE FALSE
    OBVIOUS
  <2>1. q \in Orphaned(d)
    BY <1>1, <1>4, <1>5 DEF Orphaned, OccurrencesOfRequest
  <2>2. Sound(d)
    BY DEF Forgotten
  <2> QED BY <2>1, <2>2, NoneOrphaned
<1> DEFINE rv == [q \in Requests |->
                     IF q \notin Orphaned(u) THEN u.request[q]
                     ELSE Logged(
                       IF u.request[q].intervention # Null THEN u.request[q]
                       ELSE [u.request[q] EXCEPT !.intervention =
                               u.occurrence[CHOOSE p \in OccurrencesOfRequest(u, q) : TRUE]
                                   .intervention],
                       "cloturee", FALSE)]
<1>9. RepairRequestsTx(u) = [u EXCEPT !.request = rv]
  BY DEF RepairRequestsTx
<1>10. ASSUME NEW q \in Requests
       PROVE  [rv[q] EXCEPT !.closings = 0] = [d.request[q] EXCEPT !.closings = 0]
  <2>1. CASE q = r
    <3>1. (CHOOSE p \in {o} : TRUE) = o
      OBVIOUS
    <3>2. u.request[r] = row /\ u.occurrence[o].intervention = i
      BY <1>1, <1>4, <1>5
    <3>3. rv[q] = Logged([row EXCEPT !.intervention =
                            u.occurrence[CHOOSE p \in OccurrencesOfRequest(u, r) : TRUE]
                                .intervention], "cloturee", FALSE)
      BY <1>3, <1>7, <2>1, <3>2
    <3> HIDE DEF rv
    <3>4. rv[q] = Logged([row EXCEPT !.intervention = i], "cloturee", FALSE)
      BY <1>6, <3>1, <3>2, <3>3
    <3>5. rv[q] = Logged([d.request[r] EXCEPT !.statut = "acceptee", !.logged = "acceptee"],
                         "cloturee", FALSE)
      BY <1>1, <1>3, <3>4
    <3>6. d.request[r] \in RequestRow /\ d.request[r].statut = "cloturee"
          /\ d.request[r].logged = "cloturee"
      BY <1>0, <1>1
    <3> QED BY <2>1, <3>5, <3>6, ClosedAgain
  <2>2. CASE q # r
    <3>1. rv[q] = d.request[q]
      BY <1>4, <1>5, <1>8, <2>2
    <3> HIDE DEF rv
    <3> QED BY <3>1
  <2> QED BY <2>1, <2>2
<1> HIDE DEF rv
<1> DEFINE f == [u EXCEPT !.request = rv]
<1>11. /\ Tabled(f) /\ f.request = rv /\ f.intervention = u.intervention
       /\ f.occurrence = u.occurrence /\ f.task = u.task
  BY <1>5, TabledWith
<1> HIDE DEF f
<1>12. Alike(f, d)
  BY <1>0, <1>1, <1>5, <1>10, <1>11, AlikeRows
<1> QED BY <1>2, <1>9, <1>12 DEF f

------------------------------------------------------------------------------
(* The tables are sound whenever no call is at work *)

\* The invariant of one worker, with what the plan put into the tables.
PlannedInv == OneInv /\ SP!PlanInv

LEMMA PlannedInvariance == ASSUME Alone PROVE Spec => []PlannedInv
<1>1. Init => PlannedInv
  BY InitOne, SP!InitPlan, TablesAssumption DEF PlannedInv
<1>2. PlannedInv /\ [Next]_vars => PlannedInv'
  BY NextOne, SP!NextPlan, TablesAssumption DEF PlannedInv, OneInv
<1> QED BY <1>1, <1>2, PTL DEF Spec

LEMMA TablesSound == PlannedInv => Sound(db)
<1> SUFFICES ASSUME PlannedInv PROVE Sound(db)
  OBVIOUS
<1>0. /\ db \in Database
      /\ \A o \in Occurrences :
             /\ db.occurrence[o].status \in {"none", "pending", "skipped", "generated",
                                             "in_progress", "completed"}
             /\ db.occurrence[o].request \in Requests \cup {Null}
             /\ db.occurrence[o].intervention \in Interventions \cup {Null}
      /\ \A r \in Requests : db.request[r].intervention \in Interventions \cup {Null}
      /\ \A i \in Interventions : i # Null
  BY TablesAssumption DEF PlannedInv, OneInv, IInv, Consistent, Database, OccurrenceRow,
     OccurrenceStatuses, ActiveOccurrence, RequestRow
<1>1. \A r \in Requests : db.request[r].intervention # Null =>
          db.request[r].statut \in {"acceptee", "cloturee"}
  BY DEF PlannedInv, OneInv, SP!IInv, SP!LinkedOnlyOnceAccepted
<1>2. \A o \in Occurrences :
          /\ db.occurrence[o].status \in {"none", "pending", "skipped"} =>
                 db.occurrence[o].request = Null /\ db.occurrence[o].intervention = Null
          /\ db.occurrence[o].status = "generated" =>
                 /\ db.occurrence[o].request # Null /\ db.occurrence[o].intervention = Null
                 /\ db.request[db.occurrence[o].request].statut \in {"nouvelle", "en_attente"}
          /\ db.occurrence[o].status \in {"in_progress", "completed"} =>
                 /\ db.occurrence[o].request # Null
                 /\ db.request[db.occurrence[o].request].intervention
                        = db.occurrence[o].intervention
                 /\ db.request[db.occurrence[o].request].statut =
                        (IF db.occurrence[o].status = "in_progress"
                         THEN "acceptee" ELSE "cloturee")
  BY DEF PlannedInv, OneInv, SP!IInv, SP!OccurrenceFollowsRequest, SP!FreshOccurrences
<1>3. \A o, p \in Occurrences :
          (db.occurrence[o].request = db.occurrence[p].request
              /\ db.occurrence[o].request # Null) => o = p
  BY DEF PlannedInv, OneInv, SP!IInv, SP!OneOccurrencePerRequest
<1>4. \A o \in Occurrences :
          db.occurrence[o].intervention # Null
              => db.intervention[db.occurrence[o].intervention].plan = TRUE
  BY <1>0 DEF PlannedInv, SP!PlanInv, SP!Planned, Database, InterventionRow
<1>5. \A o \in Occurrences : LinkOf(db, o) = db.occurrence[o].intervention
  BY <1>0, <1>1, <1>2 DEF LinkOf
<1>6. \A r, q \in Requests :
          (/\ db.request[r].intervention = db.request[q].intervention
           /\ db.request[r].intervention # Null) => q = r
  <2> SUFFICES ASSUME NEW i \in Interventions, NEW r \in RequestsLinkedTo(db, i),
                      NEW q \in RequestsLinkedTo(db, i)
               PROVE  q = r
    BY <1>0 DEF RequestsLinkedTo
  <2>1. LiveIntervention(db, i)
    BY DEF PlannedInv, OneInv, IInv, Consistent, ReferencesLive
  <2>2. \E x \in Requests : RequestsLinkedTo(db, i) = {x}
    BY <2>1, SameQueries DEF PlannedInv, OneInv, SP!IInv, SP!OneRequestPerIntervention
  <2> QED BY <2>2
<1>7. \A r \in Requests :
          (db.request[r].statut = "acceptee" /\ db.request[r].intervention # Null) =>
              db.intervention[db.request[r].intervention].status # "ferme"
  BY <1>0 DEF PlannedInv, OneInv, IInv, Consistent, AcceptedOpen, OpenStatuses
<1>8. \A r \in Requests : db.request[r].logged = db.request[r].statut
  BY DEF PlannedInv, OneInv, SP!IInv, SP!LogEndsInStatut
<1>9. \A r \in Requests : db.request[r].statut = "cloturee" =>
          \A o \in OccurrencesOfRequest(db, r) : db.occurrence[o].status = "completed"
  BY <1>0, <1>2, TablesAssumption DEF OccurrencesOfRequest
<1>10. \A t \in Tasks :
           db.task[t].occurrence # Null =>
               /\ t \in PlanTasks
               /\ db.task[t].occurrence = t[1]
               /\ db.task[t].optional = (t[2] \in OptionalSteps)
               /\ db.task[t].intervention = db.occurrence[db.task[t].occurrence].intervention
  BY DEF PlannedInv, OneInv, SP!IInv, SP!PlanInv, SP!GammeRows, SP!GammeFollowsOccurrence,
     SP!Tasks, SP!PlanTasks, Tasks, PlanTasks
<1>11. ASSUME NEW o \in Occurrences, db.occurrence[o].intervention # Null
       PROVE  /\ db.occurrence[o].intervention \in Interventions
              /\ db.occurrence[o].request \in Requests
              /\ db.request[db.occurrence[o].request].intervention
                     = db.occurrence[o].intervention
              /\ \/ /\ db.occurrence[o].status = "in_progress"
                    /\ db.request[db.occurrence[o].request].statut = "acceptee"
                 \/ /\ db.occurrence[o].status = "completed"
                    /\ db.request[db.occurrence[o].request].statut = "cloturee"
  BY <1>0, <1>2, <1>11
<1> QED BY <1>0, <1>3, <1>4, <1>5, <1>6, <1>7, <1>8, <1>9, <1>10, <1>11 DEF Sound

\* With one worker, between any two calls, the repairs change nothing, and undo what
\* the documented bugs would have done to any occurrence or request.
THEOREM RepairsHold == ASSUME Alone PROVE Spec => []RepairUndoes
<1>1. PlannedInv => RepairUndoes
  <2> SUFFICES ASSUME Sound(db) PROVE RepairUndoes
    BY TablesSound
  <2>1. RepairRequestsTx(db) = db
    BY SoundRepairRequests
  <2>2. ASSUME NEW o \in InCharge(db), NEW bugs
        PROVE  Alike(RepairOccurrencesTx(Damaged(db, o, bugs)), Regenerate(db))
    <3> DEFINE i == db.occurrence[o].intervention
               r == db.occurrence[o].request
    <3>1. db \in Database /\ o \in Occurrences /\ i \in Interventions /\ r \in Requests
      BY DEF InCharge, Sound
    <3>2. Hurt(db, Damaged(db, o, bugs), o, i, r, bugs)
      BY <3>1, DamagedRows
    <3>3. Wounded(db, Damaged(db, o, bugs), o, i, r, bugs)
      BY <3>1, <3>2 DEF Wounded
    <3> HIDE DEF i, r
    <3> QED BY <3>3, OccurrencesRepaired
  <2>3. ASSUME NEW i \in Interventions, NEW r \in Requests, ClosedTogether(i, r)
        PROVE  /\ Alike(RepairRequestsTx(Missed(r)), db)
               /\ ~ForceCloseRefused(Missed(r), i)
               /\ Alike(ForceCloseTx(Missed(r), i), db)
               /\ (\E o \in OccurrencesOfRequest(db, r) : db.occurrence[o].intervention = i)
                      => Alike(RepairRequestsTx(Unlinked(Missed(r), r)), db)
    <3>1. Forgotten(db, Missed(r), i, r)
      BY <2>3 DEF Forgotten, ClosedTogether, Missed
    <3> QED BY <3>1, RequestsRepaired, ForceCloses, UnlinkedRepaired
  <2> QED BY <2>1, <2>2, <2>3 DEF RepairUndoes
<1> QED BY <1>1, PlannedInvariance, PTL

==============================================================================

---------------------- MODULE PreventiveGeneration_proofs ----------------------
(***************************************************************************)
(* Proofs for PreventiveGeneration: any number of workers, plans, machines *)
(* and definitions, any calendar, whatever overlaps a generation.          *)
(***************************************************************************)
EXTENDS PreventiveGeneration, WellFoundedInduction, TLAPS

InHand == {"machines", "reference", "insert", "accept"}

\* What a frame still holds when its next step uses it.
Fits(f) ==
    /\ f.at \in InHand => f.plan \in Plans /\ f.def \in Definitions
    /\ f.at \in {"reference", "insert", "accept"} => f.machine \in Machines
    /\ f.at \in {"insert", "accept"} => f.date \in Days
    /\ f.at = "insert" /\ f.def.trigger = "hours" => f.hours \in Hours

\* An occurrence of an hours plan carries the hours that triggered it.
HoursKnown ==
    \A k \in Keys : occ[k] # Null /\ occ[k].by.trigger = "hours" => occ[k].hours \in Hours

Typed == TypeOK /\ (\A w \in Workers : Fits(job[w])) /\ HoursKnown

\* The latest of the terminated occurrences a generation counts from
Last(p, m, j) ==
    /\ j \in TerminatedKeys(p, m)
    /\ \A k \in TerminatedKeys(p, m) : k[3] <= j[3]

\* The date d that the rules give the plan and the machine a frame has in hand
DueOn(f, d) ==
    /\ d \in Days /\ d <= f.today
    /\ f.def.trigger = "hours" => d = f.today
    /\ f.def.trigger = "periodicity" =>
           \/ TerminatedKeys(f.plan, f.machine) = {} /\ d = f.today
           \/ \E j \in Keys : Last(f.plan, f.machine, j) /\ d = j[3] + f.def.period

Elapsed(f) ==
    f.def.trigger = "hours" =>
        \A j \in Keys : Last(f.plan, f.machine, j) /\ occ[j].by.trigger = "hours" =>
            f.hours - occ[j].hours >= f.def.threshold

\* What a call has read of the calendar and the plans still holds.
UpToDate(f) ==
    f.at # "idle" =>
        /\ f.today = day
        /\ \A t \in f.todo : plan[t[1]] # Null /\ plan[t[1]].def = t[2]
        /\ f.at \in InHand => plan[f.plan] # Null /\ plan[f.plan].def = f.def
        /\ f.at \in {"reference", "insert"} => f.begun = day

\* Once a call has found no active occurrence, one that appears has the date the
\* call is about to schedule ...
ReferenceHolds(f) ==
    f.at = "reference" =>
        \A k \in KeysOf(f.plan, f.machine) : StatusOf(k) \in Active => DueOn(f, k[3])

\* ... so that its INSERT meets it, or still schedules what the rules give.
InsertHolds(f) ==
    f.at = "insert" =>
        \/ ~NoConflict(f)
        \/ ~ActiveExists(f.plan, f.machine) /\ DueOn(f, f.date) /\ Elapsed(f)

Current(f) == UpToDate(f) /\ ReferenceHolds(f) /\ InsertHolds(f)

\* Occurrences of one plan and machine follow each other: none before an active
\* one is later than it, and their creation goes with their dates.
Ordered ==
    \A j, k \in Keys :
        (/\ j[1] = k[1] /\ j[2] = k[2]
         /\ occ[j] # Null /\ occ[k] # Null) =>
            /\ StatusOf(j) \in Active => k[3] <= j[3]
            /\ j[3] < k[3] => occ[j].created <= occ[k].created

Past == \A k \in Keys : occ[k] # Null => k[3] <= day /\ occ[k].created <= day

Settled == Past /\ Ordered /\ \A w \in Workers : Current(job[w])

IInv == Typed /\ (~torn => Settled) /\ CadenceKept /\ HoursApart

------------------------------------------------------------------------------
(* Dates *)

\* The greatest of some naturals is the one that no other exceeds.
LEMMA MaxIs ==
    ASSUME NEW S \in SUBSET Nat, NEW x \in S, \A y \in S : y <= x
    PROVE  Max(S) = x
<1>1. \A y \in S : x >= y
  OBVIOUS
<1>2. \A z \in S : (\A y \in S : z >= y) => z = x
  OBVIOUS
<1> QED BY <1>1, <1>2 DEF Max

\* Naturals that have a bound have a greatest one.
LEMMA HasMax ==
    ASSUME NEW S \in SUBSET Nat, S # {}, NEW n \in Nat, \A x \in S : x <= n
    PROVE  Max(S) \in S /\ \A y \in S : y <= Max(S)
<1> DEFINE T == {d \in Nat : n - d \in S}
           R == {ss \in Nat \X Nat : ss[1] < ss[2]}
<1>1. IsWellFoundedOn(R, Nat)
  BY NatLessThanWellFounded DEF OpToRel
<1>2. T \subseteq Nat /\ T # {}
  <2>1. PICK x \in S : TRUE
    OBVIOUS
  <2>2. n - x \in Nat /\ n - (n - x) = x
    OBVIOUS
  <2> QED BY <2>2
<1> HIDE DEF R, T
<1>3. PICK d \in T : \A y \in T : <<y, d>> \notin R
  BY <1>1, <1>2, WFMin
<1>4. ASSUME NEW y \in S PROVE n - d >= y
  <2>1. n - y \in Nat /\ n - (n - y) = y
    BY <1>4
  <2>2. n - y \in T
    BY <2>1 DEF T
  <2>3. d \in Nat /\ ~(n - y < d)
    BY <1>2, <1>3, <2>1, <2>2 DEF R
  <2> QED BY <2>1, <2>3
<1>5. n - d \in S
  BY DEF T
<1>6. Max(S) = n - d
  BY <1>4, <1>5, MaxIs
<1> QED BY <1>4, <1>5, <1>6

\* A row has a status, and a key is its plan, its machine and its date.
LEMMA RowsTyped ==
    ASSUME TypeOK, NEW k \in Keys
    PROVE  /\ k = <<k[1], k[2], k[3]>> /\ k[1] \in Plans /\ k[2] \in Machines
           /\ k[3] \in Nat /\ k[3] <= MaxDay
           /\ occ[k] # Null => occ[k] \in Row /\ StatusOf(k) \in Active \cup Terminated
           /\ occ[k] = Null => StatusOf(k) = "none"
BY GenerationAssumption DEF TypeOK, Keys, Days, Row, StatusOf

\* The dates of the terminated occurrences, and the latest of them
LEMMA LastExists ==
    ASSUME TypeOK, NEW p, NEW m, TerminatedKeys(p, m) # {}
    PROVE  \E j \in Keys : /\ Last(p, m, j)
                           /\ Max({k[3] : k \in TerminatedKeys(p, m)}) = j[3]
<1> DEFINE S == {k[3] : k \in TerminatedKeys(p, m)}
<1>1. TerminatedKeys(p, m) \subseteq Keys
  BY DEF TerminatedKeys, KeysOf
<1>2. S \in SUBSET Nat /\ S # {} /\ \A x \in S : x <= MaxDay
  BY <1>1, RowsTyped
<1>3. Max(S) \in S /\ \A y \in S : y <= Max(S)
  BY <1>2, HasMax, GenerationAssumption
<1>4. PICK j \in TerminatedKeys(p, m) : Max(S) = j[3]
  BY <1>3
<1>5. Last(p, m, j)
  BY <1>3, <1>4 DEF Last
<1> QED BY <1>1, <1>4, <1>5

\* With rows that follow each other the last one created is the latest.
LEMMA LastIsLatest ==
    ASSUME TypeOK, Ordered, NEW p, NEW m, NEW j \in Keys, Last(p, m, j)
    PROVE  LastCreated(p, m) = j
<1> DEFINE T == TerminatedKeys(p, m)
           P(k) == \A i \in T \ {k} :
                       \/ occ[i].created < occ[k].created
                       \/ occ[i].created = occ[k].created /\ i[3] < k[3]
<1>1. ASSUME NEW k \in T
      PROVE  /\ k \in Keys /\ k[1] = p /\ k[2] = m /\ occ[k] # Null
             /\ occ[k].created \in Nat /\ k[3] \in Nat /\ k = <<p, m, k[3]>>
  BY RowsTyped DEF TerminatedKeys, KeysOf, StatusOf, Terminated, Row, Days
<1>2. P(j)
  <2>1. ASSUME NEW i \in T \ {j} PROVE i[3] < j[3] /\ occ[i].created <= occ[j].created
    BY <1>1 DEF Last, Ordered
  <2> QED BY <1>1, <2>1 DEF Last
<1>3. ASSUME NEW k \in T, P(k) PROVE k = j
  BY <1>1, <1>2, <1>3 DEF Last
<1>4. j \in T
  BY DEF Last
<1> QED BY <1>2, <1>3, <1>4 DEF LastCreated

\* A plan and a machine have one date to schedule.
LEMMA DueOnce ==
    ASSUME TypeOK, NEW f, NEW g, NEW d, NEW e, DueOn(f, d), DueOn(g, e),
           f.plan = g.plan, f.machine = g.machine, f.def = g.def, f.today = g.today,
           f.def \in Definitions
    PROVE  d = e
<1>1. ASSUME NEW i \in Keys, NEW j \in Keys, Last(f.plan, f.machine, i),
             Last(f.plan, f.machine, j)
      PROVE  i[3] = j[3]
  BY <1>1, RowsTyped DEF Last
<1>2. ASSUME NEW i, Last(f.plan, f.machine, i) PROVE TerminatedKeys(f.plan, f.machine) # {}
  BY <1>2 DEF Last
<1> QED BY <1>1, <1>2, GenerationAssumption DEF DueOn

LEMMA DueOnSame ==
    ASSUME NEW f, NEW g, NEW d, DueOn(f, d),
           f.plan = g.plan, f.machine = g.machine, f.def = g.def, f.today = g.today
    PROVE  DueOn(g, d)
BY DEF DueOn

------------------------------------------------------------------------------
(* Types *)

LEMMA IdleFits == Idle \in Frame /\ Fits(Idle)
BY GenerationAssumption DEF Idle, Frame, Fits, InHand, Days

LEMMA OnwardFits ==
    ASSUME NEW f \in Frame, f.machines # {} => f.plan \in Plans /\ f.def \in Definitions
    PROVE  Onward(f) \in Frame /\ Fits(Onward(f))
<1> DEFINE g == [f EXCEPT !.at = "machines", !.machine = Null, !.date = Null,
                          !.hours = Null, !.begun = 0]
           h == [Idle EXCEPT !.at = "plans", !.today = f.today, !.todo = f.todo]
<1>0. 0 \in Days
  BY GenerationAssumption DEF Days
<1>1. CASE f.machines # {}
  <2>1. g \in Frame /\ g.at = "machines" /\ g.plan = f.plan /\ g.def = f.def
    BY <1>0 DEF Frame
  <2> HIDE DEF g
  <2>2. Fits(g)
    BY <1>1, <2>1 DEF Fits
  <2>3. Onward(f) = g
    BY <1>1 DEF Onward, g
  <2> QED BY <2>1, <2>2, <2>3
<1>2. CASE f.machines = {} /\ f.todo # {}
  <2>1. h \in Frame /\ h.at = "plans"
    BY <1>0 DEF Frame, Idle
  <2> HIDE DEF h
  <2>2. Fits(h)
    BY <2>1 DEF Fits, InHand
  <2>3. Onward(f) = h
    BY <1>2 DEF Onward, h
  <2> QED BY <2>1, <2>2, <2>3
<1>3. CASE f.machines = {} /\ f.todo = {}
  BY <1>3, IdleFits DEF Onward
<1> QED BY <1>1, <1>2, <1>3

\* A step that only changes the frame of w
LEMMA JobTyped ==
    ASSUME Typed, NEW w \in Workers, NEW x \in Frame, Fits(x),
           job' = [job EXCEPT ![w] = x], UNCHANGED <<day, db, torn>>
    PROVE  Typed'
<1>1. TypeOK'
  BY DEF Typed, TypeOK, db
<1>2. \A v \in Workers : Fits(job[v])'
  BY DEF Typed, TypeOK, Fits
<1>3. HoursKnown'
  BY DEF Typed, HoursKnown, db
<1> QED BY <1>1, <1>2, <1>3 DEF Typed

\* A date that is due is one of the calendar.
LEMMA DueTyped ==
    ASSUME TypeOK, NEW p \in Plans, NEW m \in Machines, NEW def \in Definitions,
           NEW today \in Days
    PROVE  /\ def.trigger = "periodicity" => PeriodicDue(p, m, def, today) \subseteq Days
           /\ HoursDue(p, m, def, today) \subseteq Days
           /\ HoursDue(p, m, def, today) # {} => hours[m] \in Hours
<1>1. ASSUME def.trigger = "periodicity" PROVE PeriodicDue(p, m, def, today) \subseteq Days
  <2>1. CASE TerminatedKeys(p, m) = {}
    BY <2>1, GenerationAssumption DEF PeriodicDue, Days
  <2>2. CASE TerminatedKeys(p, m) # {}
    <3>1. Max({k[3] : k \in TerminatedKeys(p, m)}) \in Nat
      BY <2>2, LastExists, RowsTyped
    <3>2. def.period \in Nat
      BY <1>1, GenerationAssumption
    <3>3. {k[3] : k \in TerminatedKeys(p, m)} # {}
      BY <2>2
    <3>4. PeriodicDue(p, m, def, today) =
              {d \in {Max({k[3] : k \in TerminatedKeys(p, m)}) + def.period} : d <= today}
      BY <3>3 DEF PeriodicDue
    <3>5. today \in Nat /\ today <= MaxDay /\ MaxDay \in Nat
      BY GenerationAssumption DEF Days
    <3> QED BY <3>1, <3>2, <3>4, <3>5 DEF Days
  <2> QED BY <2>1, <2>2
<1>2. HoursDue(p, m, def, today) \subseteq Days
  BY DEF HoursDue
<1>3. HoursDue(p, m, def, today) # {} => hours[m] \in Hours
  BY DEF HoursDue, TypeOK
<1> QED BY <1>1, <1>2, <1>3

LEMMA JobSteps ==
    ASSUME Typed, NEW w \in Workers,
           \/ StartGeneration(w) \/ LoadMachines(w) \/ CheckActive(w)
           \/ ReadReference(w) \/ AutoAccept(w) \/ FailMachine(w)
    PROVE  Typed'
<1> DEFINE f == job[w]
<1>0. f \in Frame /\ Fits(f) /\ TypeOK
  BY DEF Typed, TypeOK
<1>1. CASE StartGeneration(w)
  <2> DEFINE active == {p \in Plans : plan[p] # Null /\ plan[p].active}
             g == [Idle EXCEPT !.today = day, !.todo = {<<p, plan[p].def>> : p \in active}]
  <2>1. {<<p, plan[p].def>> : p \in active} \in SUBSET (Plans \X Definitions)
    BY <1>0 DEF TypeOK, PlanRow
  <2>2. g \in Frame /\ g.machines = {}
    <3>1. day \in Days /\ 0 \in Days
      BY <1>0, GenerationAssumption DEF TypeOK, Days
    <3> HIDE DEF active
    <3> QED BY <2>1, <3>1 DEF Frame, Idle
  <2>3. Onward(g) \in Frame /\ Fits(Onward(g))
    BY <2>2, OnwardFits
  <2>4. job' = [job EXCEPT ![w] = Onward(g)] /\ UNCHANGED <<day, db, torn>>
    BY <1>1 DEF StartGeneration
  <2> QED BY <2>3, <2>4, JobTyped
<1>2. CASE LoadMachines(w)
  <2>1. PICK t \in f.todo :
            job' = [job EXCEPT ![w] =
                Onward([f EXCEPT !.todo = f.todo \ {t}, !.plan = t[1], !.def = t[2],
                                 !.machines = {m \in Machines : ClassOf[m] = t[2].class}])]
    BY <1>0, <1>2 DEF LoadMachines, TypeOK
  <2> DEFINE g == [f EXCEPT !.todo = f.todo \ {t}, !.plan = t[1], !.def = t[2],
                            !.machines = {m \in Machines : ClassOf[m] = t[2].class}]
  <2>2. t[1] \in Plans /\ t[2] \in Definitions
    BY <1>0 DEF Frame
  <2>3. g \in Frame /\ g.plan \in Plans /\ g.def \in Definitions
    BY <1>0, <2>2 DEF Frame
  <2>4. Onward(g) \in Frame /\ Fits(Onward(g))
    BY <2>3, OnwardFits
  <2> QED BY <1>2, <2>1, <2>4, JobTyped DEF LoadMachines
<1>3. CASE CheckActive(w)
  <2>1. PICK m \in f.machines :
            job' = [job EXCEPT ![w] =
                IF ActiveExists(f.plan, m) THEN Onward([f EXCEPT !.machines = @ \ {m}])
                ELSE [[f EXCEPT !.machines = @ \ {m}]
                          EXCEPT !.at = "reference", !.machine = m, !.begun = day]]
    BY <1>3 DEF CheckActive
  <2> DEFINE g == [f EXCEPT !.machines = @ \ {m}]
             h == [g EXCEPT !.at = "reference", !.machine = m, !.begun = day]
  <2>2. f.at = "machines" /\ f.plan \in Plans /\ f.def \in Definitions
    BY <1>0, <1>3 DEF CheckActive, Fits, InHand
  <2>3. g \in Frame /\ g.plan \in Plans /\ g.def \in Definitions
    BY <1>0, <2>2 DEF Frame
  <2>4. m \in Machines
    BY <1>0 DEF Frame
  <2>5. h \in Frame /\ Fits(h)
    BY <1>0, <2>2, <2>3, <2>4 DEF Frame, Fits, TypeOK, InHand
  <2>6. Onward(g) \in Frame /\ Fits(Onward(g))
    BY <2>3, OnwardFits
  <2>7. UNCHANGED <<day, db, torn>>
    BY <1>3 DEF CheckActive
  <2> HIDE DEF g, h
  <2>8. job' = [job EXCEPT ![w] = IF ActiveExists(f.plan, m) THEN Onward(g) ELSE h]
    BY <2>1 DEF g, h
  <2> QED BY <2>5, <2>6, <2>7, <2>8, JobTyped
<1>4. CASE ReadReference(w)
  <2> DEFINE periodic == f.def.trigger = "periodicity"
             due == IF periodic THEN PeriodicDue(f.plan, f.machine, f.def, f.today)
                    ELSE HoursDue(f.plan, f.machine, f.def, f.today)
             h == [f EXCEPT !.at = "insert", !.date = CHOOSE d \in due : TRUE,
                            !.hours = IF periodic THEN Null ELSE hours[f.machine]]
  <2>1. /\ f.at = "reference" /\ f.plan \in Plans /\ f.def \in Definitions
        /\ f.machine \in Machines /\ f.today \in Days
    BY <1>0, <1>4 DEF ReadReference, Fits, InHand, Frame
  <2>2. Onward(f) \in Frame /\ Fits(Onward(f))
    BY <1>0, <2>1, OnwardFits
  <2>3. ASSUME due # {} PROVE h \in Frame /\ Fits(h)
    <3>1. due \subseteq Days
      BY <1>0, <2>1, DueTyped
    <3>2. (CHOOSE d \in due : TRUE) \in Days
      BY <2>3, <3>1
    <3>3. ~periodic => hours[f.machine] \in Hours
      BY <1>0, <2>1, <2>3, DueTyped
    <3>4. periodic => f.def.trigger # "hours"
      OBVIOUS
    <3> HIDE DEF due, periodic
    <3>5. (IF periodic THEN Null ELSE hours[f.machine]) \in Hours \cup {Null}
      BY <3>3
    <3> QED BY <1>0, <2>1, <3>2, <3>3, <3>4, <3>5 DEF Frame, Fits, InHand
  <2>4. job' = [job EXCEPT ![w] = IF due = {} THEN Onward(f) ELSE h]
    BY <1>4 DEF ReadReference
  <2>5. UNCHANGED <<day, db, torn>>
    BY <1>4 DEF ReadReference
  <2> HIDE DEF due, h
  <2> QED BY <2>2, <2>3, <2>4, <2>5, JobTyped
<1>5. CASE AutoAccept(w) \/ FailMachine(w)
  <2>1. f.plan \in Plans /\ f.def \in Definitions
    BY <1>0, <1>5 DEF AutoAccept, FailMachine, Fits, InHand
  <2>2. Onward(f) \in Frame /\ Fits(Onward(f))
    BY <1>0, <2>1, OnwardFits
  <2>3. job' = [job EXCEPT ![w] = Onward(f)] /\ UNCHANGED <<day, db, torn>>
    BY <1>5 DEF AutoAccept, FailMachine
  <2> QED BY <2>2, <2>3, JobTyped
<1> QED BY <1>1, <1>2, <1>3, <1>4, <1>5

LEMMA InsertTyped ==
    ASSUME Typed, NEW w \in Workers, Insert(w)
    PROVE  Typed'
<1> DEFINE f == job[w]
           k == <<f.plan, f.machine, f.date>>
           g == [f EXCEPT !.at = "accept"]
<1>0. TypeOK /\ f \in Frame /\ Fits(f) /\ f.at = "insert"
  BY DEF Typed, TypeOK, Insert
<1>1. /\ f.plan \in Plans /\ f.def \in Definitions /\ f.machine \in Machines
      /\ f.date \in Days /\ (f.def.trigger = "hours" => f.hours \in Hours)
  BY <1>0 DEF Fits, InHand
<1>2. Onward(f) \in Frame /\ Fits(Onward(f))
  BY <1>0, <1>1, OnwardFits
<1>3. g \in Frame /\ Fits(g)
  BY <1>0, <1>1 DEF Frame, Fits, InHand
<1>4. k \in Keys
  BY <1>1 DEF Keys
<1>5. Generated(f) \in Row /\ Generated(f).by = f.def /\ Generated(f).hours = f.hours
  <2>1. f.hours \in Hours \cup {Null} /\ f.begun \in Days
    BY <1>0 DEF Frame
  <2> QED BY <1>1, <2>1 DEF Generated, Row, Active
<1>6. job' = [job EXCEPT ![w] = job'[w]] /\ job'[w] \in Frame /\ Fits(job'[w])
  <2>1. /\ job' = [job EXCEPT ![w] = IF NoConflict(f) /\ f.def.auto THEN g ELSE Onward(f)]
        /\ job \in [Workers -> Frame]
    BY DEF Insert, Typed, TypeOK
  <2> HIDE DEF f, g
  <2> QED BY <1>2, <1>3, <2>1
<1>7. UNCHANGED <<day, hours, plan, torn>>
  BY DEF Insert
<1>8. CASE ~NoConflict(f)
  <2>1. UNCHANGED <<day, db, torn>>
    BY <1>7, <1>8 DEF Insert, db
  <2> QED BY <1>6, <2>1, JobTyped
<1>9. CASE NoConflict(f)
  <2>1. occ' = [occ EXCEPT ![k] = Generated(f)]
    BY <1>9 DEF Insert
  <2> HIDE DEF f, g, k
  <2>2. TypeOK'
    BY <1>4, <1>5, <1>6, <1>7, <2>1, <1>0 DEF TypeOK
  <2>3. \A v \in Workers : Fits(job[v])'
    <3> TAKE v \in Workers
    <3>1. job'[v] = job[v] \/ v = w
      BY <1>6, <1>0 DEF TypeOK
    <3>2. Fits(job'[v])
      BY <1>6, <3>1 DEF Typed
    <3> QED BY <3>2 DEF Fits
  <2>4. HoursKnown'
    <3> SUFFICES ASSUME NEW j \in Keys, occ'[j] # Null, occ'[j].by.trigger = "hours"
                 PROVE  occ'[j].hours \in Hours
      BY DEF HoursKnown
    <3>1. occ'[j] = IF j = k THEN Generated(f) ELSE occ[j]
      BY <2>1, <1>0 DEF TypeOK
    <3> QED BY <1>1, <1>5, <3>1 DEF Typed, HoursKnown
  <2> QED BY <2>2, <2>3, <2>4 DEF Typed
<1> QED BY <1>8, <1>9

LEMMA MoveTyped ==
    ASSUME Typed, NEW k \in Keys, NEW from \in Active, NEW to \in Active \cup Terminated,
           MoveOccurrence(k, from, to)
    PROVE  /\ Typed'
           /\ occ[k] # Null /\ StatusOf(k) = from /\ StatusOf(k)' = to
           /\ \A j \in Keys : /\ (occ[j])' = Null <=> occ[j] = Null
                              /\ j # k => occ'[j] = occ[j]
                              /\ occ[j] # Null => /\ occ'[j].hours = occ[j].hours
                                                  /\ occ'[j].created = occ[j].created
                                                  /\ occ'[j].by = occ[j].by
<1>1. TypeOK /\ HoursKnown /\ \A w \in Workers : Fits(job[w])
  BY DEF Typed
<1>2. occ[k] # Null /\ StatusOf(k) = from /\ occ[k] \in Row
  <2>1. StatusOf(k) = from
    BY DEF MoveOccurrence
  <2>2. from # "none"
    BY DEF Active
  <2> QED BY <1>1, <2>1, <2>2, RowsTyped
<1>3. [occ[k] EXCEPT !.status = to] \in Row
  BY <1>2 DEF Row
<1>4. occ' = [occ EXCEPT ![k] = [occ[k] EXCEPT !.status = to]]
  BY DEF MoveOccurrence
<1>5. occ'[k] = [occ[k] EXCEPT !.status = to] /\ \A j \in Keys : j # k => occ'[j] = occ[j]
  BY <1>1, <1>4 DEF TypeOK
<1>6. occ'[k] # Null /\ occ'[k].status = to
  BY <1>2, <1>3, <1>5, NullAssumption DEF Row
<1>7. StatusOf(k)' = to
  BY <1>6 DEF StatusOf
<1>8. \A j \in Keys : /\ (occ[j])' = Null <=> occ[j] = Null
                      /\ j # k => occ'[j] = occ[j]
                      /\ occ[j] # Null => /\ occ'[j].hours = occ[j].hours
                                          /\ occ'[j].created = occ[j].created
                                          /\ occ'[j].by = occ[j].by
  BY <1>2, <1>5, <1>6 DEF Row
<1>9. Typed'
  <2>1. TypeOK'
    BY <1>1, <1>3, <1>4 DEF TypeOK, MoveOccurrence
  <2>2. \A w \in Workers : Fits(job[w])'
    BY <1>1 DEF MoveOccurrence, Fits
  <2>3. HoursKnown'
    BY <1>1, <1>8 DEF HoursKnown
  <2> QED BY <2>1, <2>2, <2>3 DEF Typed
<1> QED BY <1>2, <1>7, <1>8, <1>9

\* Occurrences, plans, hours and calls keep to the schema and to what the code reads.
LEMMA OthersTyped ==
    ASSUME Typed, \/ PlanNext \/ Midnight
                  \/ \E m \in Machines, delta \in {-1, 1} : Work(m, delta)
    PROVE  Typed'
<1>1. TypeOK /\ HoursKnown /\ \A w \in Workers : Fits(job[w])
  BY DEF Typed
<1>2. occ' = occ /\ job' = job
  BY DEF PlanNext, CreatePlan, UpdatePlan, SoftDelete, Midnight, Work, db
<1>3. HoursKnown' /\ \A w \in Workers : Fits(job[w])'
  BY <1>1, <1>2 DEF HoursKnown, Fits
<1>4. TypeOK'
  <2>1. CASE PlanNext
    <3>1. PICK p \in Plans : \/ \E def \in Definitions : CreatePlan(p, def) \/ UpdatePlan(p, def)
                             \/ SoftDelete(p)
      BY <2>1 DEF PlanNext
    <3>2. plan[p] # Null => plan[p] \in PlanRow
      BY <1>1 DEF TypeOK
    <3>3. plan' \in [Plans -> PlanRow \cup {Null}]
      <4>1. CASE \E def \in Definitions : CreatePlan(p, def)
        BY <4>1, <1>1 DEF CreatePlan, PlanRow, TypeOK
      <4>2. CASE \E def \in Definitions : UpdatePlan(p, def)
        BY <4>2, <1>1, <3>2 DEF UpdatePlan, PlanRow, TypeOK
      <4>3. CASE SoftDelete(p)
        BY <4>3, <1>1, <3>2 DEF SoftDelete, PlanRow, TypeOK
      <4> QED BY <3>1, <4>1, <4>2, <4>3
    <3>4. day' = day /\ hours' = hours /\ torn' \in BOOLEAN
      BY <3>1, <1>1 DEF CreatePlan, UpdatePlan, SoftDelete, TypeOK, Generating
    <3> QED BY <1>1, <1>2, <3>3, <3>4 DEF TypeOK
  <2>2. CASE Midnight
    BY <2>2, <1>1, <1>2, GenerationAssumption DEF Midnight, TypeOK, Days, db, Generating
  <2>3. ASSUME NEW m \in Machines, NEW delta \in {-1, 1}, Work(m, delta)
        PROVE  TypeOK'
    <3> DEFINE total == (IF hours[m] = Null THEN 0 ELSE hours[m]) + delta
    <3>1. hours[m] \in Hours \cup {Null}
      BY <1>1 DEF TypeOK
    <3>2. total \in Int /\ total <= MaxHours
      BY <2>3, <3>1, GenerationAssumption DEF Work, Hours
    <3>3. hours' = [hours EXCEPT ![m] = IF total < 0 THEN 0 ELSE total]
      BY <2>3 DEF Work
    <3> HIDE DEF total
    <3>4. (IF total < 0 THEN 0 ELSE total) \in Hours
      BY <3>2, GenerationAssumption DEF Hours
    <3>5. hours' \in [Machines -> Hours \cup {Null}]
      BY <1>1, <3>3, <3>4 DEF TypeOK
    <3> QED BY <1>1, <1>2, <2>3, <3>5 DEF TypeOK, Work
  <2> QED BY <2>1, <2>2, <2>3
<1> QED BY <1>3, <1>4 DEF Typed

LEMMA NextTyped == ASSUME Typed, [Next]_vars PROVE Typed'
<1>1. ASSUME NEW w \in Workers, StartGeneration(w) \/ GenerationStep(w) PROVE Typed'
  BY <1>1, JobSteps, InsertTyped DEF GenerationStep
<1>2. ASSUME OccurrenceNext PROVE Typed'
  BY <1>2, MoveTyped DEF OccurrenceNext, SkipOccurrence, RejectRequest, AcceptRequest,
                         CloseIntervention, Active, Terminated
<1>3. ASSUME UNCHANGED vars PROVE Typed'
  <2>1. TypeOK'
    BY <1>3 DEF Typed, TypeOK, vars
  <2>2. (\A w \in Workers : Fits(job[w])') /\ HoursKnown'
    BY <1>3 DEF Typed, vars, Fits, HoursKnown
  <2> QED BY <2>1, <2>2 DEF Typed
<1> QED BY <1>1, <1>2, <1>3, OthersTyped DEF Next

------------------------------------------------------------------------------
(* What one generation may rely on while others go on *)

\* A call that goes on with the next machine or plan
LEMMA OnwardCurrent ==
    ASSUME NEW f \in Frame, f.today = day,
           \A t \in f.todo : plan[t[1]] # Null /\ plan[t[1]].def = t[2],
           f.machines # {} => plan[f.plan] # Null /\ plan[f.plan].def = f.def
    PROVE  Current(Onward(f))
<1> DEFINE g == [f EXCEPT !.at = "machines", !.machine = Null, !.date = Null,
                          !.hours = Null, !.begun = 0]
           h == [Idle EXCEPT !.at = "plans", !.today = f.today, !.todo = f.todo]
<1>1. CASE f.machines # {}
  <2>1. /\ g.at = "machines" /\ g.today = f.today /\ g.todo = f.todo
        /\ g.plan = f.plan /\ g.def = f.def
    BY DEF Frame
  <2> HIDE DEF g
  <2>2. UpToDate(g)
    BY <1>1, <2>1 DEF UpToDate
  <2>3. ReferenceHolds(g) /\ InsertHolds(g)
    BY <2>1 DEF ReferenceHolds, InsertHolds
  <2>4. Onward(f) = g
    BY <1>1 DEF Onward, g
  <2> QED BY <2>2, <2>3, <2>4 DEF Current
<1>2. CASE f.machines = {} /\ f.todo # {}
  <2>1. h.at = "plans" /\ h.today = f.today /\ h.todo = f.todo
    BY DEF Frame, Idle
  <2> HIDE DEF h
  <2>2. UpToDate(h)
    BY <2>1 DEF UpToDate, InHand
  <2>3. ReferenceHolds(h) /\ InsertHolds(h)
    BY <2>1 DEF ReferenceHolds, InsertHolds
  <2>4. Onward(f) = h
    BY <1>2 DEF Onward, h
  <2> QED BY <2>2, <2>3, <2>4 DEF Current
<1>3. CASE f.machines = {} /\ f.todo = {}
  <2>1. Onward(f) = Idle /\ Idle.at = "idle"
    BY <1>3 DEF Onward, Idle
  <2> QED BY <2>1 DEF Current, UpToDate, ReferenceHolds, InsertHolds
<1> QED BY <1>1, <1>2, <1>3

\* Current says nothing of hours: with the calendar, the plans and the occurrences
\* unchanged, it is what it was.
LEMMA CurrentKept ==
    ASSUME NEW f, UNCHANGED <<day, plan, occ>>, Current(f)
    PROVE  Current(f)'
<1>1. \A k : StatusOf(k)' = StatusOf(k)
  BY DEF StatusOf
<1>2. \A p, m : TerminatedKeys(p, m)' = TerminatedKeys(p, m)
  BY <1>1 DEF TerminatedKeys, KeysOf
<1>3. UpToDate(f)'
  BY DEF Current, UpToDate
<1>4. \A d : DueOn(f, d)' = DueOn(f, d)
  BY <1>2 DEF DueOn, Last
<1>5. ReferenceHolds(f)'
  BY <1>1, <1>4 DEF Current, ReferenceHolds, KeysOf
<1>6. InsertHolds(f)'
  BY <1>1, <1>2, <1>4 DEF Current, InsertHolds, NoConflict, ActiveExists, KeysOf, Elapsed, Last
<1> QED BY <1>3, <1>5, <1>6 DEF Current

\* A step that only changes the frame of w
LEMMA JobSettled ==
    ASSUME TypeOK, Settled, NEW w \in Workers, NEW x, Current(x),
           job' = [job EXCEPT ![w] = x], UNCHANGED <<day, plan, occ>>
    PROVE  Settled'
<1>1. Past' /\ Ordered'
  BY DEF Settled, Past, Ordered, StatusOf
<1>2. ASSUME NEW v \in Workers PROVE Current(job[v])'
  <2>1. Current(job'[v])
    BY DEF Settled, TypeOK
  <2> DEFINE y == job'[v]
  <2>2. \A z : Current(z) => Current(z)'
    BY CurrentKept
  <2> QED BY <2>1, <2>2
<1> QED BY <1>1, <1>2 DEF Settled

\* What a busy call has read
LEMMA FrameCurrent ==
    ASSUME Typed, Settled, NEW w \in Workers, job[w].at # "idle"
    PROVE  /\ job[w] \in Frame /\ job[w].today = day
           /\ \A t \in job[w].todo : plan[t[1]] # Null /\ plan[t[1]].def = t[2]
           /\ job[w].at \in InHand =>
                  /\ plan[job[w].plan] # Null /\ plan[job[w].plan].def = job[w].def
                  /\ Current(Onward(job[w]))
<1>1. job[w] \in Frame /\ UpToDate(job[w])
  BY DEF Typed, TypeOK, Settled, Current
<1> QED BY <1>1, OnwardCurrent DEF UpToDate

LEMMA CheckSettles ==
    ASSUME Typed, Settled, NEW w \in Workers, CheckActive(w)
    PROVE  Settled'
<1> DEFINE f == job[w]
<1>0. TypeOK /\ f.at = "machines" /\ f.at \in InHand /\ f.at # "idle"
  BY DEF Typed, CheckActive, InHand
<1>1. /\ f \in Frame /\ f.today = day
      /\ \A t \in f.todo : plan[t[1]] # Null /\ plan[t[1]].def = t[2]
      /\ plan[f.plan] # Null /\ plan[f.plan].def = f.def
  BY <1>0, FrameCurrent
<1>2. PICK m \in f.machines :
          job' = [job EXCEPT ![w] =
              IF ActiveExists(f.plan, m) THEN Onward([f EXCEPT !.machines = @ \ {m}])
              ELSE [[f EXCEPT !.machines = @ \ {m}]
                        EXCEPT !.at = "reference", !.machine = m, !.begun = day]]
  BY DEF CheckActive
<1> DEFINE g == [f EXCEPT !.machines = @ \ {m}]
           h == [g EXCEPT !.at = "reference", !.machine = m, !.begun = day]
<1>3. g \in Frame /\ g.today = f.today /\ g.todo = f.todo /\ g.plan = f.plan /\ g.def = f.def
  BY <1>1 DEF Frame
<1>4. /\ h.today = f.today /\ h.todo = f.todo /\ h.plan = f.plan /\ h.def = f.def
      /\ h.at = "reference" /\ h.machine = m /\ h.begun = day
  BY <1>1 DEF Frame
<1>5. UNCHANGED <<day, plan, occ>>
  BY DEF CheckActive, db
<1> HIDE DEF g, h
<1>6. job' = [job EXCEPT ![w] = IF ActiveExists(f.plan, m) THEN Onward(g) ELSE h]
  BY <1>2 DEF g, h
<1>7. Current(Onward(g))
  BY <1>1, <1>3, OnwardCurrent
<1>8. ASSUME ~ActiveExists(f.plan, m) PROVE Current(h)
  <2>1. UpToDate(h)
    BY <1>1, <1>4 DEF UpToDate
  <2>2. ReferenceHolds(h)
    BY <1>4, <1>8 DEF ReferenceHolds, ActiveExists
  <2>3. InsertHolds(h)
    BY <1>4 DEF InsertHolds
  <2> QED BY <2>1, <2>2, <2>3 DEF Current
<1> QED BY <1>0, <1>5, <1>6, <1>7, <1>8, JobSettled

\* The date read is due, and an active occurrence that has appeared has it.
LEMMA ReadDue ==
    ASSUME Typed, Past, Ordered, NEW f \in Frame, Fits(f), f.at = "reference",
           f.today = day, ReferenceHolds(f), NEW d,
           d \in IF f.def.trigger = "periodicity"
                 THEN PeriodicDue(f.plan, f.machine, f.def, f.today)
                 ELSE HoursDue(f.plan, f.machine, f.def, f.today)
    PROVE  /\ DueOn(f, d)
           /\ f.def.trigger = "hours" =>
                  \A j \in Keys : Last(f.plan, f.machine, j) /\ occ[j].by.trigger = "hours" =>
                      hours[f.machine] - occ[j].hours >= f.def.threshold
<1>0. /\ TypeOK /\ f.plan \in Plans /\ f.machine \in Machines /\ f.def \in Definitions
      /\ f.today \in Days /\ f.def.trigger \in {"periodicity", "hours"}
  BY GenerationAssumption DEF Typed, Fits, InHand, Frame
<1> DEFINE T == TerminatedKeys(f.plan, f.machine)
           last == {k[3] : k \in T}
<1>1. CASE f.def.trigger = "periodicity"
  <2>1. d \in Days /\ d \in {IF last = {} THEN f.today ELSE Max(last) + f.def.period}
        /\ d <= f.today
    BY <1>0, <1>1, DueTyped DEF PeriodicDue
  <2>2. CASE T = {}
    BY <1>1, <2>1, <2>2 DEF DueOn
  <2>3. CASE T # {}
    <3>1. PICK j \in Keys : Last(f.plan, f.machine, j) /\ Max(last) = j[3]
      BY <1>0, <2>3, LastExists
    <3>2. last # {}
      BY <2>3
    <3> HIDE DEF last
    <3>3. d = j[3] + f.def.period
      BY <2>1, <3>1, <3>2
    <3> QED BY <1>1, <2>1, <3>1, <3>3 DEF DueOn
  <2> QED BY <1>1, <2>2, <2>3
<1>2. CASE f.def.trigger = "hours"
  <2>1. d = f.today /\ hours[f.machine] - LastHours(f.plan, f.machine) >= f.def.threshold
    BY <1>2 DEF HoursDue
  <2>2. DueOn(f, d)
    BY <1>0, <1>2, <2>1, GenerationAssumption DEF DueOn, Days
  <2>3. ASSUME NEW j \in Keys, Last(f.plan, f.machine, j), occ[j].by.trigger = "hours"
        PROVE  hours[f.machine] - occ[j].hours >= f.def.threshold
    <3>1. LastCreated(f.plan, f.machine) = j
      BY <1>0, <2>3, LastIsLatest
    <3>2. T # {} /\ occ[j] # Null
      BY <2>3 DEF Last, TerminatedKeys, StatusOf, Terminated
    <3>3. occ[j].hours # Null
      BY <2>3, <3>2, GenerationAssumption DEF Typed, HoursKnown, Hours
    <3>4. LastHours(f.plan, f.machine) = occ[j].hours
      BY <3>1, <3>2, <3>3 DEF LastHours
    <3> QED BY <2>1, <3>4
  <2> QED BY <2>2, <2>3
<1> QED BY <1>0, <1>1, <1>2

LEMMA ReadSettles ==
    ASSUME Typed, Settled, NEW w \in Workers, ReadReference(w)
    PROVE  Settled'
<1> DEFINE f == job[w]
           periodic == f.def.trigger = "periodicity"
           due == IF periodic THEN PeriodicDue(f.plan, f.machine, f.def, f.today)
                  ELSE HoursDue(f.plan, f.machine, f.def, f.today)
           d == CHOOSE x \in due : TRUE
           h == [f EXCEPT !.at = "insert", !.date = d,
                          !.hours = IF periodic THEN Null ELSE hours[f.machine]]
<1>0. /\ TypeOK /\ f.at = "reference" /\ f.at \in InHand /\ f.at # "idle" /\ Fits(f)
      /\ Past /\ Ordered /\ ReferenceHolds(f) /\ UpToDate(f)
  BY DEF Typed, ReadReference, InHand, Settled, Current
<1>1. /\ f \in Frame /\ f.today = day
      /\ \A t \in f.todo : plan[t[1]] # Null /\ plan[t[1]].def = t[2]
      /\ plan[f.plan] # Null /\ plan[f.plan].def = f.def
      /\ Current(Onward(f))
  BY <1>0, FrameCurrent
<1>2. /\ job' = [job EXCEPT ![w] = IF due = {} THEN Onward(f) ELSE h]
      /\ UNCHANGED <<day, plan, occ>>
  BY DEF ReadReference, db
<1>3. ASSUME due # {} PROVE Current(h)
  <2>1. d \in due
    BY <1>3
  <2>2. /\ h.at = "insert" /\ h.date = d /\ h.today = f.today /\ h.todo = f.todo
        /\ h.plan = f.plan /\ h.def = f.def /\ h.machine = f.machine /\ h.begun = f.begun
        /\ (~periodic => h.hours = hours[f.machine])
    BY <1>1 DEF Frame
  <2>3. /\ DueOn(f, d)
        /\ f.def.trigger = "hours" =>
               \A j \in Keys : Last(f.plan, f.machine, j) /\ occ[j].by.trigger = "hours" =>
                   hours[f.machine] - occ[j].hours >= f.def.threshold
    <3> HIDE DEF d
    <3> QED BY <1>0, <1>1, <2>1, ReadDue
  <2>4. UpToDate(h)
    <3> HIDE DEF h, d
    <3> QED BY <1>0, <1>1, <2>2 DEF UpToDate
  <2>5. ReferenceHolds(h)
    <3> HIDE DEF h, d
    <3> QED BY <2>2 DEF ReferenceHolds
  <2>6. InsertHolds(h)
    <3> HIDE DEF h, d, due, f
    <3>1. f.def \in Definitions /\ f.plan \in Plans /\ f.machine \in Machines
      BY <1>0 DEF Fits
    <3>2. CASE ActiveExists(f.plan, f.machine)
      <4>1. PICK k \in KeysOf(f.plan, f.machine) : StatusOf(k) \in Active
        BY <3>2 DEF ActiveExists
      <4>2. DueOn(f, k[3]) /\ k \in Keys /\ k[1] = f.plan /\ k[2] = f.machine
        BY <1>0, <4>1 DEF ReferenceHolds, KeysOf
      <4>3. k[3] = d
        BY <1>0, <2>3, <3>1, <4>2, DueOnce
      <4>4. k = <<h.plan, h.machine, h.date>> /\ occ[k] # Null
        BY <1>0, <2>2, <4>1, <4>2, <4>3, RowsTyped DEF StatusOf, Active
      <4> QED BY <4>4 DEF InsertHolds, NoConflict
    <3>3. CASE ~ActiveExists(f.plan, f.machine)
      <4>1. DueOn(h, d)
        BY <2>2, <2>3, DueOnSame
      <4>2. Elapsed(h)
        <5>1. h.def.trigger = "hours" => h.hours = hours[f.machine]
          BY <2>2
        <5> QED BY <2>2, <2>3, <5>1 DEF Elapsed
      <4> QED BY <2>2, <3>3, <4>1, <4>2 DEF InsertHolds
    <3> QED BY <3>2, <3>3
  <2> QED BY <2>4, <2>5, <2>6 DEF Current
<1> HIDE DEF due, h
<1> QED BY <1>0, <1>1, <1>2, <1>3, JobSettled

\* The steps of a generation that insert nothing
LEMMA JobStepsSettle ==
    ASSUME Typed, Settled, NEW w \in Workers,
           \/ StartGeneration(w) \/ LoadMachines(w) \/ CheckActive(w)
           \/ ReadReference(w) \/ AutoAccept(w) \/ FailMachine(w)
    PROVE  Settled'
<1> DEFINE f == job[w]
<1>0. TypeOK
  BY DEF Typed
<1>1. CASE StartGeneration(w)
  <2> DEFINE active == {p \in Plans : plan[p] # Null /\ plan[p].active}
             todo == {<<p, plan[p].def>> : p \in active}
             g == [Idle EXCEPT !.today = day, !.todo = todo]
  <2>1. todo \in SUBSET (Plans \X Definitions)
    BY <1>0 DEF TypeOK, PlanRow
  <2>2. \A t \in todo : plan[t[1]] # Null /\ plan[t[1]].def = t[2]
    OBVIOUS
  <2> HIDE DEF todo
  <2>3. g \in Frame /\ g.machines = {} /\ g.today = day /\ g.todo = todo
    <3>1. day \in Days /\ 0 \in Days
      BY <1>0, GenerationAssumption DEF TypeOK, Days
    <3> QED BY <2>1, <3>1 DEF Frame, Idle
  <2>4. Current(Onward(g))
    <3> HIDE DEF g
    <3> QED BY <2>2, <2>3, OnwardCurrent
  <2>5. job' = [job EXCEPT ![w] = Onward(g)] /\ UNCHANGED <<day, plan, occ>>
    BY <1>1 DEF StartGeneration, db, todo
  <2> QED BY <1>0, <2>4, <2>5, JobSettled
<1>2. CASE LoadMachines(w)
  <2>1. PICK t \in f.todo :
            job' = [job EXCEPT ![w] =
                Onward([f EXCEPT !.todo = f.todo \ {t}, !.plan = t[1], !.def = t[2],
                                 !.machines = {m \in Machines : ClassOf[m] = t[2].class}])]
    BY <1>2 DEF LoadMachines
  <2> DEFINE g == [f EXCEPT !.todo = f.todo \ {t}, !.plan = t[1], !.def = t[2],
                            !.machines = {m \in Machines : ClassOf[m] = t[2].class}]
  <2>2. /\ f \in Frame /\ f.today = day
        /\ \A u \in f.todo : plan[u[1]] # Null /\ plan[u[1]].def = u[2]
    BY <1>2, FrameCurrent DEF LoadMachines
  <2>3. /\ g \in Frame /\ g.today = f.today /\ g.todo = f.todo \ {t}
        /\ g.plan = t[1] /\ g.def = t[2]
    BY <2>2 DEF Frame
  <2>4. UNCHANGED <<day, plan, occ>>
    BY <1>2 DEF LoadMachines, db
  <2> HIDE DEF g
  <2>5. Current(Onward(g))
    BY <2>2, <2>3, OnwardCurrent
  <2>6. job' = [job EXCEPT ![w] = Onward(g)]
    BY <2>1 DEF g
  <2> QED BY <1>0, <2>4, <2>5, <2>6, JobSettled
<1>3. CASE AutoAccept(w) \/ FailMachine(w)
  <2>1. f.at \in InHand /\ f.at # "idle"
    BY <1>3 DEF AutoAccept, FailMachine, InHand
  <2>2. Current(Onward(f))
    BY <2>1, FrameCurrent
  <2>3. job' = [job EXCEPT ![w] = Onward(f)] /\ UNCHANGED <<day, plan, occ>>
    BY <1>3 DEF AutoAccept, FailMachine, db
  <2> QED BY <1>0, <2>2, <2>3, JobSettled
<1> QED BY <1>1, <1>2, <1>3, CheckSettles, ReadSettles

------------------------------------------------------------------------------
(* An occurrence is inserted *)

\* What holds when the INSERT of frame f, which finds no conflict, adds row k
Adds(f, k) ==
    /\ f \in Frame /\ f.plan \in Plans /\ f.machine \in Machines /\ f.def \in Definitions
    /\ k \in Keys /\ k = <<f.plan, f.machine, f.date>> /\ k[3] = f.date
    /\ occ[k] = Null /\ occ' = [occ EXCEPT ![k] = Generated(f)]
    /\ f.begun = day /\ f.today = day /\ day' = day /\ plan' = plan
    /\ ~ActiveExists(f.plan, f.machine) /\ DueOn(f, f.date) /\ Elapsed(f)
    /\ f.def.trigger = "hours" => f.hours \in Hours

LEMMA AddsRow ==
    ASSUME TypeOK, NEW f, NEW k, Adds(f, k)
    PROVE  /\ occ'[k] = Generated(f) /\ occ'[k] # Null
           /\ occ'[k].status = "generated" /\ occ'[k].created = day
           /\ occ'[k].by = f.def /\ occ'[k].hours = f.hours
           /\ StatusOf(k)' = "generated"
           /\ \A j \in Keys : j # k => occ'[j] = occ[j] /\ StatusOf(j)' = StatusOf(j)
<1>1. occ'[k] = Generated(f) /\ \A j \in Keys : j # k => occ'[j] = occ[j]
  BY DEF Adds, TypeOK
<1>2. Generated(f) \in Row
  BY DEF Adds, Generated, Row, Active, Frame
<1>3. occ'[k] # Null
  BY <1>1, <1>2, NullAssumption
<1>4. /\ Generated(f).status = "generated" /\ Generated(f).created = f.begun
      /\ Generated(f).by = f.def /\ Generated(f).hours = f.hours
  BY DEF Generated
<1> QED BY <1>1, <1>3, <1>4 DEF StatusOf, Adds

\* The new occurrence comes after all those of its plan and machine, which are
\* terminated.
LEMMA AddsLast ==
    ASSUME TypeOK, Past, NEW f, NEW k, Adds(f, k), NEW j \in Keys,
           j[1] = k[1], j[2] = k[2], occ[j] # Null
    PROVE  /\ j \in TerminatedKeys(f.plan, f.machine)
           /\ StatusOf(j) \in Terminated /\ j[3] < k[3]
<1>1. /\ k[1] = f.plan /\ k[2] = f.machine /\ j[3] \in Nat /\ k[3] \in Nat
      /\ j = <<f.plan, f.machine, j[3]>> /\ j # k
      /\ StatusOf(j) \in Active \cup Terminated
  BY RowsTyped DEF Adds
<1>2. j \in KeysOf(f.plan, f.machine)
  BY <1>1 DEF KeysOf
<1>3. StatusOf(j) \in Terminated
  BY <1>1, <1>2 DEF Adds, ActiveExists
<1>4. j \in TerminatedKeys(f.plan, f.machine)
  BY <1>2, <1>3 DEF TerminatedKeys
<1>5. j[3] # k[3]
  BY <1>1 DEF Adds
<1>6. j[3] <= k[3]
  <2>1. CASE f.def.trigger = "hours"
    BY <2>1 DEF Adds, DueOn, Past
  <2>2. CASE f.def.trigger = "periodicity"
    <3>1. PICK i \in Keys : Last(f.plan, f.machine, i) /\ k[3] = i[3] + f.def.period
      BY <1>4, <2>2 DEF Adds, DueOn
    <3>2. i[3] \in Nat /\ f.def.period \in Nat /\ j[3] <= i[3]
      BY <1>4, <2>2, <3>1, RowsTyped, GenerationAssumption DEF Last, Adds
    <3> QED BY <1>1, <3>1, <3>2
  <2> QED BY <2>1, <2>2, GenerationAssumption DEF Adds
<1> QED BY <1>1, <1>3, <1>4, <1>5, <1>6

\* What other plans, machines and calls see of it
LEMMA AddsElsewhere ==
    ASSUME TypeOK, NEW f, NEW k, Adds(f, k)
    PROVE  /\ \A p, m : TerminatedKeys(p, m)' = TerminatedKeys(p, m)
           /\ \A p, m, j : Last(p, m, j)' = Last(p, m, j)
           /\ \A g, d : DueOn(g, d)' = DueOn(g, d)
<1>1. \A p, m : TerminatedKeys(p, m)' = TerminatedKeys(p, m)
  <2>1. \A j \in Keys : StatusOf(j)' \in Terminated <=> StatusOf(j) \in Terminated
    <3>1. StatusOf(k) = "none" /\ StatusOf(k)' = "generated"
      BY AddsRow, RowsTyped DEF Adds
    <3> QED BY <3>1, AddsRow DEF Terminated
  <2> QED BY <2>1 DEF TerminatedKeys, KeysOf
<1>2. \A p, m, j : Last(p, m, j)' = Last(p, m, j)
  BY <1>1 DEF Last
<1>3. \A g, d : DueOn(g, d)' = DueOn(g, d)
  BY <1>1, <1>2 DEF DueOn
<1> QED BY <1>1, <1>2, <1>3

LEMMA AddsOrdered ==
    ASSUME TypeOK, Past, Ordered, NEW f, NEW k, Adds(f, k)
    PROVE  Past' /\ Ordered'
<1>1. Past'
  <2> SUFFICES ASSUME NEW j \in Keys, occ'[j] # Null
               PROVE  j[3] <= day /\ occ'[j].created <= day
    BY DEF Past, Adds
  <2>1. CASE j = k
    <3>1. k[3] <= day /\ day \in Nat
      BY GenerationAssumption DEF Adds, DueOn, TypeOK, Days
    <3> QED BY <2>1, <3>1, AddsRow
  <2>2. CASE j # k
    BY <2>2, AddsRow DEF Past
  <2> QED BY <2>1, <2>2
<1>2. Ordered'
  <2> SUFFICES ASSUME NEW i \in Keys, NEW j \in Keys, i[1] = j[1], i[2] = j[2],
                      occ'[i] # Null, occ'[j] # Null
               PROVE  /\ StatusOf(i)' \in Active => j[3] <= i[3]
                      /\ i[3] < j[3] => occ'[i].created <= occ'[j].created
    BY DEF Ordered
  <2>0. i[3] \in Nat /\ j[3] \in Nat
    BY RowsTyped
  <2>1. CASE i # k /\ j # k
    <3>1. occ'[i] = occ[i] /\ occ'[j] = occ[j] /\ StatusOf(i)' = StatusOf(i)
      BY <2>1, AddsRow
    <3> QED BY <3>1 DEF Ordered
  <2>2. CASE i = k /\ j # k
    <3>1. occ[j] # Null
      BY <2>2, AddsRow
    <3>2. j[3] < k[3]
      BY <2>2, <3>1, AddsLast
    <3> QED BY <2>0, <2>2, <3>2
  <2>3. CASE j = k /\ i # k
    <3>1. occ'[i] = occ[i] /\ StatusOf(i)' = StatusOf(i) /\ occ[i] # Null
      BY <2>3, AddsRow
    <3>2. StatusOf(i) \in Terminated
      BY <2>3, <3>1, AddsLast
    <3>3. occ[i].created <= day
      BY <3>1 DEF Past
    <3> QED BY <2>3, <3>1, <3>2, <3>3, AddsRow DEF Active, Terminated
  <2>4. CASE i = k /\ j = k
    BY <2>0, <2>4
  <2> QED BY <2>1, <2>2, <2>3, <2>4
<1> QED BY <1>1, <1>2

\* A call under way on the same plan and machine meets the new occurrence on its date.
LEMMA AddsCurrent ==
    ASSUME TypeOK, Past, NEW f, NEW k, Adds(f, k), plan[f.plan].def = f.def,
           NEW g \in Frame, Fits(g), Current(g)
    PROVE  Current(g)'
<1>1. UpToDate(g)'
  BY DEF Current, UpToDate, Adds
<1>2. \A d : DueOn(g, d)' = DueOn(g, d)
  BY AddsElsewhere
<1>3. k[1] = f.plan /\ k[2] = f.machine /\ k \in Keys
  BY DEF Adds
<1>4. ASSUME g.at \in {"reference", "insert"}, g.plan = f.plan, g.machine = f.machine
      PROVE  g.def = f.def /\ g.today = f.today
  BY <1>4 DEF Current, UpToDate, Adds, InHand
<1>5. ASSUME NEW j \in KeysOf(g.plan, g.machine)
      PROVE  /\ j \in Keys /\ j[1] = g.plan /\ j[2] = g.machine
             /\ j # k => StatusOf(j)' = StatusOf(j)
             /\ StatusOf(j) \in Active => occ[j] # Null
  BY <1>5, AddsRow, RowsTyped DEF KeysOf, Active
<1>6. ReferenceHolds(g)'
  <2> SUFFICES ASSUME g.at = "reference", NEW j \in KeysOf(g.plan, g.machine),
                      StatusOf(j)' \in Active
               PROVE  DueOn(g, j[3])
    BY <1>2 DEF ReferenceHolds, KeysOf
  <2>1. CASE j = k
    BY <1>3, <1>4, <1>5, <2>1, DueOnSame DEF Adds
  <2>2. CASE j # k
    BY <1>5, <2>2 DEF Current, ReferenceHolds
  <2> QED BY <2>1, <2>2
<1>7. InsertHolds(g)'
  <2> SUFFICES ASSUME g.at = "insert"
               PROVE  \/ ~NoConflict(g)'
                      \/ (~ActiveExists(g.plan, g.machine) /\ DueOn(g, g.date) /\ Elapsed(g))'
    BY DEF InsertHolds
  <2> DEFINE l == <<g.plan, g.machine, g.date>>
  <2>0. l \in Keys /\ g.def \in Definitions
    BY DEF Fits, Keys, InHand
  <2>1. CASE occ[l] # Null
    <3>1. occ'[l] # Null
      BY <2>0, <2>1, AddsRow
    <3> QED BY <3>1 DEF NoConflict
  <2>2. CASE occ[l] = Null
    <3>1. ~ActiveExists(g.plan, g.machine) /\ DueOn(g, g.date) /\ Elapsed(g)
      BY <2>2 DEF Current, InsertHolds, NoConflict
    <3>2. CASE g.plan = f.plan /\ g.machine = f.machine
      <4>1. g.date = f.date
        BY <1>4, <2>0, <3>1, <3>2, DueOnce DEF Adds
      <4>2. l = k
        BY <3>2, <4>1 DEF Adds
      <4>3. occ'[l] # Null
        BY <4>2, AddsRow
      <4> QED BY <4>3 DEF NoConflict
    <3>3. CASE g.plan # f.plan \/ g.machine # f.machine
      <4>1. ASSUME NEW j \in KeysOf(g.plan, g.machine)
            PROVE  j \in Keys /\ j # k /\ occ'[j] = occ[j] /\ StatusOf(j)' = StatusOf(j)
        BY <1>3, <1>5, <3>3, AddsRow
      <4>2. ~ActiveExists(g.plan, g.machine)'
        BY <3>1, <4>1 DEF ActiveExists, KeysOf
      <4>3. Elapsed(g)'
        <5>1. ASSUME NEW j \in Keys, Last(g.plan, g.machine, j) PROVE occ'[j] = occ[j]
          BY <4>1, <5>1 DEF Last, TerminatedKeys
        <5> QED BY <3>1, <5>1, AddsElsewhere DEF Elapsed
      <4> QED BY <1>2, <3>1, <4>2, <4>3
    <3> QED BY <3>2, <3>3
  <2> QED BY <2>1, <2>2
<1> QED BY <1>1, <1>6, <1>7 DEF Current

\* The new occurrence is one period after the latest, or the threshold later.
LEMMA AddsCadence ==
    ASSUME Typed, Past, Ordered, NEW f, NEW k, Adds(f, k), CadenceKept, ~torn
    PROVE  CadenceKept'
<1> DEFINE before(j) == {l[3] : l \in {i \in KeysOf(j[1], j[2]) : occ[i] # Null /\ i[3] < j[3]}}
           after(j) == {l[3] : l \in {i \in KeysOf(j[1], j[2]) : occ'[i] # Null /\ i[3] < j[3]}}
<1>0. TypeOK
  BY DEF Typed
<1> SUFFICES ASSUME NEW j \in Keys, StatusOf(j)' # "none", occ'[j].by.trigger = "periodicity"
             PROVE  j[3] <= day /\ (after(j) # {} => j[3] = Max(after(j)) + occ'[j].by.period)
  <2>1. day' = day
    BY DEF Adds
  <2> QED BY <2>1 DEF CadenceKept, KeysOf
<1>1. CASE j # k
  <2>1. occ'[j] = occ[j] /\ StatusOf(j)' = StatusOf(j)
    BY <1>0, <1>1, AddsRow
  <2>2. occ[j] # Null
    BY <1>0, <2>1, RowsTyped
  <2>3. ASSUME NEW i \in KeysOf(j[1], j[2])
        PROVE  occ'[i] # Null /\ i[3] < j[3] <=> occ[i] # Null /\ i[3] < j[3]
    <3>1. i \in Keys /\ i[1] = j[1] /\ i[2] = j[2] /\ i[3] \in Nat /\ j[3] \in Nat /\ k[3] \in Nat
      BY <1>0, RowsTyped DEF KeysOf, Adds
    <3>2. CASE i # k
      BY <1>0, <3>1, <3>2, AddsRow
    <3>3. CASE i = k
      <4>1. j[3] < k[3]
        BY <1>0, <2>2, <3>1, <3>3, AddsLast
      <4> QED BY <3>1, <3>3, <4>1
    <3> QED BY <3>2, <3>3
  <2>4. after(j) = before(j)
    BY <2>3
  <2> HIDE DEF after
  <2> QED BY <2>1, <2>4 DEF CadenceKept
<1>2. CASE j = k
  <2>1. /\ occ'[k].by = f.def /\ k[3] <= day /\ f.def.trigger = "periodicity"
        /\ k[1] = f.plan /\ k[2] = f.machine /\ k[3] = f.date
    BY <1>0, <1>2, AddsRow DEF Adds, DueOn
  <2>2. ASSUME after(k) # {} PROVE k[3] = Max(after(k)) + f.def.period
    <3>1. \A i \in KeysOf(k[1], k[2]) :
              occ'[i] # Null /\ i[3] < k[3] => i \in TerminatedKeys(f.plan, f.machine)
      <4> TAKE i \in KeysOf(k[1], k[2])
      <4>1. i \in Keys /\ i[1] = k[1] /\ i[2] = k[2] /\ i[3] \in Nat
        BY <1>0, RowsTyped DEF KeysOf
      <4>2. i[3] < k[3] => i # k
        BY <4>1
      <4> QED BY <1>0, <4>1, <4>2, AddsRow, AddsLast
    <3>2. PICK l \in Keys : Last(f.plan, f.machine, l) /\ k[3] = l[3] + f.def.period
      <4>1. TerminatedKeys(f.plan, f.machine) # {}
        BY <2>2, <3>1
      <4> QED BY <2>1, <4>1 DEF Adds, DueOn
    <3>3. l \in KeysOf(k[1], k[2]) /\ occ[l] # Null /\ l[1] = k[1] /\ l[2] = k[2]
      BY <2>1, <3>2 DEF Last, TerminatedKeys, StatusOf, Terminated, KeysOf
    <3>4. occ'[l] # Null /\ l[3] < k[3]
      <4>1. l[3] < k[3]
        BY <1>0, <3>3, AddsLast
      <4>2. l # k
        BY <3>3 DEF Adds
      <4> QED BY <1>0, <3>3, <4>1, <4>2, AddsRow
    <3>5. l[3] \in after(k)
      BY <3>3, <3>4
    <3>6. \A x \in after(k) : x <= l[3]
      BY <3>1, <3>2 DEF Last
    <3>7. after(k) \in SUBSET Nat
      BY <1>0, RowsTyped DEF KeysOf
    <3> HIDE DEF after
    <3> QED BY <3>2, <3>5, <3>6, <3>7, MaxIs
  <2> HIDE DEF after
  <2> QED BY <1>2, <2>1, <2>2
<1> QED BY <1>1, <1>2

LEMMA AddsApart ==
    ASSUME Typed, Past, Ordered, NEW f, NEW k, Adds(f, k), HoursApart, ~torn
    PROVE  HoursApart'
<1>0. TypeOK
  BY DEF Typed
<1> SUFFICES ASSUME NEW i \in Keys, NEW j \in Keys, i[1] = j[1], i[2] = j[2], i[3] < j[3],
                    occ'[i] # Null, occ'[j] # Null,
                    \A d \in (i[3] + 1) .. (j[3] - 1) : occ'[<<j[1], j[2], d>>] = Null,
                    occ'[i].by.trigger = "hours", occ'[j].by.trigger = "hours"
             PROVE  occ'[j].hours - occ'[i].hours >= occ'[j].by.threshold
  BY DEF HoursApart
<1>1. i[3] \in Nat /\ j[3] \in Nat /\ k[3] \in Nat /\ k \in Keys
  BY <1>0, RowsTyped DEF Adds
<1>2. i # k
  <2>1. ASSUME i = k PROVE FALSE
    <3>1. j # k
      BY <1>1, <2>1
    <3>2. occ[j] # Null
      BY <1>0, <3>1, AddsRow
    <3>3. j[3] < k[3]
      BY <1>0, <2>1, <3>2, AddsLast
    <3> QED BY <1>1, <2>1, <3>3
  <2> QED BY <2>1
<1>3. occ'[i] = occ[i]
  BY <1>0, <1>2, AddsRow
<1>4. CASE j # k
  <2>1. occ'[j] = occ[j]
    BY <1>0, <1>4, AddsRow
  <2>2. ASSUME NEW d \in (i[3] + 1) .. (j[3] - 1) PROVE occ[<<j[1], j[2], d>>] = Null
    <3>1. <<j[1], j[2], d>> \in Keys
      BY <1>0, <1>1, <2>2, RowsTyped, GenerationAssumption DEF Keys, Days
    <3>2. occ[k] = Null
      BY DEF Adds
    <3> QED BY <1>0, <2>2, <3>1, <3>2, AddsRow
  <2> QED BY <1>3, <2>1, <2>2 DEF HoursApart
<1>5. CASE j = k
  <2>1. /\ f.def.trigger = "hours" /\ occ'[k].hours = f.hours /\ occ'[k].by = f.def
        /\ k[1] = f.plan /\ k[2] = f.machine
    <3>1. occ'[k].by = f.def /\ occ'[k].hours = f.hours
      BY <1>0, AddsRow
    <3>2. k[1] = f.plan /\ k[2] = f.machine
      BY DEF Adds
    <3> QED BY <1>5, <3>1, <3>2
  <2>2. i \in TerminatedKeys(f.plan, f.machine)
    BY <1>0, <1>3, <1>5, AddsLast
  <2>3. ASSUME NEW l \in TerminatedKeys(f.plan, f.machine), ~(l[3] <= i[3]) PROVE FALSE
    <3>1. l \in Keys /\ l[1] = k[1] /\ l[2] = k[2] /\ occ[l] # Null
      BY <2>1, <2>3 DEF TerminatedKeys, KeysOf, StatusOf, Terminated
    <3>2. l[3] < k[3] /\ l # k /\ l[3] \in Nat /\ l = <<k[1], k[2], l[3]>>
      BY <1>0, <1>1, <3>1, AddsLast, RowsTyped
    <3>3. l[3] \in (i[3] + 1) .. (k[3] - 1)
      BY <1>1, <2>3, <3>2
    <3>4. occ'[l] # Null
      BY <1>0, <3>1, <3>2, AddsRow
    <3> QED BY <1>5, <3>2, <3>3, <3>4
  <2>4. Last(f.plan, f.machine, i)
    BY <2>2, <2>3 DEF Last
  <2>5. f.hours - occ[i].hours >= f.def.threshold
    BY <1>3, <2>1, <2>4 DEF Adds, Elapsed
  <2> QED BY <1>3, <1>5, <2>1, <2>5
<1> QED BY <1>4, <1>5

LEMMA InsertSettles ==
    ASSUME Typed, Settled, CadenceKept, HoursApart, ~torn, NEW w \in Workers, Insert(w)
    PROVE  Settled' /\ CadenceKept' /\ HoursApart'
<1> DEFINE f == job[w]
           k == <<f.plan, f.machine, f.date>>
           g == [f EXCEPT !.at = "accept"]
<1>0. /\ TypeOK /\ Past /\ Ordered /\ \A v \in Workers : Current(job[v]) /\ Fits(job[v])
      /\ f.at = "insert" /\ f.at \in InHand /\ f.at # "idle"
  BY DEF Typed, Settled, Insert, InHand
<1>1. /\ f \in Frame /\ f.today = day
      /\ \A t \in f.todo : plan[t[1]] # Null /\ plan[t[1]].def = t[2]
      /\ plan[f.plan] # Null /\ plan[f.plan].def = f.def
      /\ Current(Onward(f))
  BY <1>0, FrameCurrent
<1>2. f.begun = day /\ InsertHolds(f)
  BY <1>0 DEF Current, UpToDate
<1>3. /\ f.plan \in Plans /\ f.def \in Definitions /\ f.machine \in Machines
      /\ f.date \in Days /\ (f.def.trigger = "hours" => f.hours \in Hours)
  BY <1>0 DEF Fits
<1>4. UNCHANGED <<day, plan, hours, torn>>
  BY DEF Insert
<1>5. CASE ~NoConflict(f)
  <2>1. job' = [job EXCEPT ![w] = Onward(f)] /\ UNCHANGED <<day, plan, occ>>
    BY <1>4, <1>5 DEF Insert
  <2>2. Settled'
    BY <1>0, <1>1, <2>1, JobSettled
  <2>3. CadenceKept' /\ HoursApart'
    BY <1>4, <2>1 DEF CadenceKept, HoursApart, StatusOf, KeysOf
  <2> QED BY <2>2, <2>3
<1>6. CASE NoConflict(f)
  <2>1. Adds(f, k)
    <3>1. /\ ~ActiveExists(f.plan, f.machine) /\ DueOn(f, f.date) /\ Elapsed(f)
      BY <1>0, <1>2, <1>6 DEF InsertHolds
    <3>2. k \in Keys /\ k[3] = f.date
      BY <1>3 DEF Keys
    <3>3. occ[k] = Null /\ occ' = [occ EXCEPT ![k] = Generated(f)]
      BY <1>6 DEF NoConflict, Insert
    <3> HIDE DEF f
    <3> QED BY <1>1, <1>2, <1>3, <1>4, <3>1, <3>2, <3>3 DEF Adds
  <2>2. Past' /\ Ordered'
    BY <1>0, <2>1, AddsOrdered
  <2>3. CadenceKept' /\ HoursApart'
    BY <1>0, <2>1, AddsCadence, AddsApart
  <2>4. g \in Frame /\ Fits(g) /\ g.at = "accept" /\ Current(g)
    <3>1. /\ g \in Frame /\ g.at = "accept" /\ g.today = f.today /\ g.todo = f.todo
          /\ g.plan = f.plan /\ g.def = f.def /\ g.machine = f.machine /\ g.date = f.date
      BY <1>1 DEF Frame
    <3> HIDE DEF f, g
    <3>2. Fits(g)
      BY <1>3, <3>1 DEF Fits
    <3>3. Current(g)
      BY <1>1, <3>1 DEF Current, UpToDate, ReferenceHolds, InsertHolds
    <3> QED BY <3>1, <3>2, <3>3
  <2>5. Onward(f) \in Frame /\ Fits(Onward(f))
    BY <1>1, <1>3, OnwardFits
  <2>6. /\ job \in [Workers -> Frame]
        /\ job' = [job EXCEPT ![w] = IF f.def.auto THEN g ELSE Onward(f)]
    BY <1>0, <1>6 DEF Insert, TypeOK
  <2>7. ASSUME NEW v \in Workers
        PROVE  job'[v] \in Frame /\ Fits(job'[v]) /\ Current(job'[v])
    <3> HIDE DEF f, g
    <3> QED BY <1>0, <1>1, <2>4, <2>5, <2>6
  <2>8. \A x \in Frame : Fits(x) /\ Current(x) => Current(x)'
    <3> HIDE DEF f, k
    <3> QED BY <1>0, <1>1, <2>1, AddsCurrent
  <2>9. ASSUME NEW v \in Workers PROVE Current(job[v])'
    BY <2>7, <2>8
  <2> QED BY <2>2, <2>3, <2>9 DEF Settled
<1> QED BY <1>5, <1>6

------------------------------------------------------------------------------
(* An occurrence moves on *)

LEMMA MoveSettles ==
    ASSUME Typed, Settled, CadenceKept, HoursApart, NEW k \in Keys, NEW from \in Active,
           NEW to \in Active \cup Terminated, MoveOccurrence(k, from, to)
    PROVE  Settled' /\ CadenceKept' /\ HoursApart'
<1>0. /\ TypeOK /\ Past /\ Ordered /\ \A w \in Workers : Current(job[w])
      /\ UNCHANGED <<day, hours, plan, job, torn>>
  BY DEF Typed, Settled, MoveOccurrence
<1>1. /\ occ[k] # Null /\ StatusOf(k) = from /\ StatusOf(k)' = to
      /\ \A j \in Keys : /\ (occ[j])' = Null <=> occ[j] = Null
                         /\ j # k => occ'[j] = occ[j]
                         /\ occ[j] # Null => /\ occ'[j].hours = occ[j].hours
                                             /\ occ'[j].created = occ[j].created
                                             /\ occ'[j].by = occ[j].by
  BY MoveTyped
<1>2. \A j \in Keys : j # k => StatusOf(j)' = StatusOf(j)
  BY <1>1 DEF StatusOf
<1>3. \A j \in Keys : StatusOf(j)' \in Active => StatusOf(j) \in Active
  BY <1>1, <1>2
<1>4. Past' /\ Ordered'
  BY <1>0, <1>1, <1>3 DEF Past, Ordered
<1>5. \A j \in Keys : StatusOf(j)' # "none" => StatusOf(j) # "none" /\ occ[j] # Null
  BY <1>0, <1>1, <1>2, RowsTyped DEF Active
<1>6. CadenceKept'
  <2> SUFFICES ASSUME ~torn, NEW j \in Keys, StatusOf(j)' # "none",
                      occ'[j].by.trigger = "periodicity"
               PROVE  LET before == {l[3] : l \in {i \in KeysOf(j[1], j[2]) :
                                                     occ'[i] # Null /\ i[3] < j[3]}}
                      IN j[3] <= day /\ (before # {} => j[3] = Max(before) + occ'[j].by.period)
    BY <1>0 DEF CadenceKept, KeysOf
  <2>1. /\ StatusOf(j) # "none" /\ occ'[j].by = occ[j].by
        /\ \A i \in KeysOf(j[1], j[2]) : occ'[i] # Null <=> occ[i] # Null
    BY <1>1, <1>5 DEF KeysOf
  <2>2. {i \in KeysOf(j[1], j[2]) : occ'[i] # Null /\ i[3] < j[3]} =
            {i \in KeysOf(j[1], j[2]) : occ[i] # Null /\ i[3] < j[3]}
    BY <2>1
  <2> QED BY <2>1, <2>2 DEF CadenceKept
<1>7. HoursApart'
  <2> SUFFICES ASSUME ~torn, NEW i \in Keys, NEW j \in Keys, i[1] = j[1], i[2] = j[2],
                      i[3] < j[3], occ'[i] # Null, occ'[j] # Null,
                      \A d \in (i[3] + 1) .. (j[3] - 1) : occ'[<<j[1], j[2], d>>] = Null,
                      occ'[i].by.trigger = "hours", occ'[j].by.trigger = "hours"
               PROVE  occ'[j].hours - occ'[i].hours >= occ'[j].by.threshold
    BY <1>0 DEF HoursApart
  <2>1. ASSUME NEW d \in (i[3] + 1) .. (j[3] - 1) PROVE occ[<<j[1], j[2], d>>] = Null
    <3>1. <<j[1], j[2], d>> \in Keys
      BY <1>0, <2>1, RowsTyped, GenerationAssumption DEF Keys, Days
    <3> QED BY <1>1, <2>1, <3>1
  <2> QED BY <1>1, <2>1 DEF HoursApart
<1>8. ASSUME NEW g, Fits(g), Current(g) PROVE Current(g)'
  <2>0. g.at = "insert" => <<g.plan, g.machine, g.date>> \in Keys
    BY <1>8 DEF Fits, InHand, Keys
  <2>1. UpToDate(g)'
    BY <1>0, <1>8 DEF Current, UpToDate
  <2>2. CASE <<k[1], k[2]>> = <<g.plan, g.machine>>
    <3>1. k \in KeysOf(g.plan, g.machine) /\ ActiveExists(g.plan, g.machine)
      BY <1>1, <2>2 DEF KeysOf, ActiveExists
    <3>2. InsertHolds(g)'
      <4> SUFFICES ASSUME g.at = "insert" PROVE ~NoConflict(g)'
        BY DEF InsertHolds
      <4> DEFINE l == <<g.plan, g.machine, g.date>>
      <4>1. occ[l] # Null
        BY <1>8, <3>1 DEF Current, InsertHolds, NoConflict
      <4>2. occ'[l] # Null
        BY <1>1, <2>0, <4>1
      <4> QED BY <4>2 DEF NoConflict
    <3>3. ReferenceHolds(g)'
      <4> SUFFICES ASSUME g.at = "reference", NEW j \in KeysOf(g.plan, g.machine),
                          StatusOf(j)' \in Active
                   PROVE  DueOn(g, j[3])'
        BY DEF ReferenceHolds, KeysOf
      <4>1. j \in Keys /\ j[1] = k[1] /\ j[2] = k[2] /\ StatusOf(j) \in Active
        BY <1>3, <2>2 DEF KeysOf
      <4>2. j = k
        <5>1. occ[j] # Null /\ j[3] \in Nat /\ k[3] \in Nat
          BY <1>0, <4>1, RowsTyped DEF Active
        <5>2. j[3] = k[3]
          BY <1>0, <1>1, <4>1, <5>1 DEF Ordered
        <5> QED BY <1>0, <4>1, <5>2, RowsTyped
      <4>3. to \in Active
        BY <1>1, <4>2
      <4>4. \A i \in Keys : StatusOf(i)' \in Terminated <=> StatusOf(i) \in Terminated
        BY <1>1, <1>2, <4>3 DEF Active, Terminated
      <4>5. \A p, m : TerminatedKeys(p, m)' = TerminatedKeys(p, m)
        BY <4>4 DEF TerminatedKeys, KeysOf
      <4>6. DueOn(g, j[3])
        BY <1>8, <4>1 DEF Current, ReferenceHolds
      <4> QED BY <4>5, <4>6 DEF DueOn, Last
    <3> QED BY <2>1, <3>2, <3>3 DEF Current
  <2>3. CASE <<k[1], k[2]>> # <<g.plan, g.machine>>
    <3>1. ASSUME NEW j \in KeysOf(g.plan, g.machine)
          PROVE  j \in Keys /\ StatusOf(j)' = StatusOf(j) /\ occ'[j] = occ[j]
      BY <1>1, <1>2, <2>3 DEF KeysOf
    <3>2. TerminatedKeys(g.plan, g.machine)' = TerminatedKeys(g.plan, g.machine)
      BY <3>1 DEF TerminatedKeys, KeysOf
    <3>3. \A j : Last(g.plan, g.machine, j)' = Last(g.plan, g.machine, j)
      BY <3>2 DEF Last
    <3>4. \A d : DueOn(g, d)' = DueOn(g, d)
      BY <3>2, <3>3 DEF DueOn
    <3>5. ReferenceHolds(g)'
      BY <1>8, <3>1, <3>4 DEF Current, ReferenceHolds, KeysOf
    <3>6. ActiveExists(g.plan, g.machine)' = ActiveExists(g.plan, g.machine)
      BY <3>1 DEF ActiveExists, KeysOf
    <3>7. \A j : Last(g.plan, g.machine, j) => occ'[j] = occ[j]
      BY <3>1 DEF Last, TerminatedKeys
    <3>8. g.at = "insert" => NoConflict(g)' = NoConflict(g)
      BY <1>1, <2>0 DEF NoConflict
    <3>9. InsertHolds(g)'
      BY <1>8, <3>3, <3>4, <3>6, <3>7, <3>8 DEF Current, InsertHolds, Elapsed
    <3> QED BY <2>1, <3>5, <3>9 DEF Current
  <2> QED BY <2>2, <2>3
<1>9. ASSUME NEW w \in Workers PROVE Current(job[w])'
  <2>1. Fits(job[w]) /\ Current(job[w]) /\ job'[w] = job[w]
    BY <1>0 DEF Typed
  <2> QED BY <1>8, <2>1
<1> QED BY <1>4, <1>6, <1>7, <1>9 DEF Settled

------------------------------------------------------------------------------
(* Theorems *)

LEMMA InitInv == Init => IInv
<1> SUFFICES ASSUME Init PROVE IInv
  OBVIOUS
<1>1. \A k \in Keys : occ[k] = Null /\ StatusOf(k) = "none"
  BY DEF Init, StatusOf
<1>2. \A w \in Workers : job[w] = Idle
  BY DEF Init
<1>3. Typed
  <2>1. TypeOK
    <3>1. 0 \in Days
      BY GenerationAssumption DEF Days
    <3> QED BY <3>1, IdleFits DEF Init, TypeOK
  <2>2. HoursKnown
    BY <1>1 DEF HoursKnown
  <2>3. \A w \in Workers : Fits(job[w])
    BY <1>2, IdleFits
  <2> QED BY <2>1, <2>2, <2>3 DEF Typed
<1>4. Settled
  <2>1. Current(Idle)
    BY DEF Current, UpToDate, ReferenceHolds, InsertHolds, Idle
  <2> QED BY <1>1, <1>2, <2>1 DEF Settled, Past, Ordered
<1>5. CadenceKept /\ HoursApart
  BY <1>1 DEF CadenceKept, HoursApart
<1> QED BY <1>3, <1>4, <1>5 DEF IInv

\* Midnight, an edit of a plan or a change of hours: where it falls within a
\* generation nothing more is said.
LEMMA OthersSettle ==
    ASSUME Typed, ~torn => Settled, CadenceKept, HoursApart,
           \/ PlanNext \/ Midnight
           \/ \E m \in Machines, delta \in {-1, 1} : Work(m, delta)
    PROVE  (~torn' => Settled') /\ CadenceKept' /\ HoursApart'
<1>0. TypeOK
  BY DEF Typed
<1>1. occ' = occ /\ job' = job /\ (~torn' => ~torn)
  <2>1. occ' = occ /\ job' = job
    BY DEF PlanNext, CreatePlan, UpdatePlan, SoftDelete, Midnight, Work, db
  <2>2. torn' = torn \/ torn' = (torn \/ Generating)
    BY DEF PlanNext, CreatePlan, UpdatePlan, SoftDelete, Midnight, Work
  <2>3. ASSUME torn PROVE torn'
    BY <2>2, <2>3, Zenon
  <2> QED BY <2>1, <2>3, Zenon
<1>2. day' \in Nat /\ day \in Nat /\ day <= day'
  <2>1. day \in Nat
    BY <1>0, GenerationAssumption DEF TypeOK, Days
  <2>2. PlanNext => day' = day
    BY DEF PlanNext, CreatePlan, UpdatePlan, SoftDelete
  <2> QED BY <2>1, <2>2 DEF Midnight, Work
<1>3. CadenceKept' /\ HoursApart'
  <2>1. \A k \in Keys : k[3] \in Nat
    BY <1>0, RowsTyped
  <2>2. CadenceKept'
    BY <1>1, <1>2, <2>1 DEF CadenceKept, StatusOf, KeysOf
  <2>3. HoursApart'
    BY <1>1 DEF HoursApart
  <2> QED BY <2>2, <2>3
<1>4. ASSUME ~torn' PROVE Settled'
  <2>1. Settled
    BY <1>1, <1>4
  <2>2. Past' /\ Ordered'
    <3>1. \A k \in Keys : occ[k] # Null => k[3] \in Nat /\ occ[k].created \in Nat
      BY <1>0, RowsTyped DEF Row, Days
    <3> QED BY <1>1, <1>2, <2>1, <3>1 DEF Settled, Past, Ordered, StatusOf
  <2>3. CASE \E m \in Machines, delta \in {-1, 1} : Work(m, delta)
    <3>1. UNCHANGED <<day, plan, occ>>
      BY <2>3 DEF Work
    <3>2. \A w \in Workers : Current(job[w])
      BY <2>1 DEF Settled
    <3>3. \A x : Current(x) => Current(x)'
      BY <3>1, CurrentKept
    <3>4. ASSUME NEW w \in Workers PROVE Current(job[w])'
      BY <1>1, <3>2, <3>3
    <3> QED BY <2>2, <3>4 DEF Settled
  <2>4. CASE PlanNext \/ Midnight
    <3>1. ~Generating
      <4>1. PlanNext => torn' = (torn \/ Generating)
        BY DEF PlanNext, CreatePlan, UpdatePlan, SoftDelete
      <4> QED BY <1>4, <2>4, <4>1 DEF Midnight
    <3>2. \A w \in Workers : job'[w].at = "idle"
      BY <1>1, <3>1 DEF Generating
    <3>3. \A w \in Workers : Current(job[w])'
      BY <3>2 DEF Current, UpToDate, ReferenceHolds, InsertHolds
    <3> QED BY <2>2, <3>3 DEF Settled
  <2> QED BY <2>3, <2>4
<1> QED BY <1>3, <1>4

LEMMA NextInv == IInv /\ [Next]_vars => IInv'
<1> SUFFICES ASSUME IInv, [Next]_vars PROVE IInv'
  OBVIOUS
<1>0. Typed /\ (~torn => Settled) /\ CadenceKept /\ HoursApart /\ Typed'
  BY NextTyped DEF IInv
<1> SUFFICES (~torn' => Settled') /\ CadenceKept' /\ HoursApart'
  BY <1>0 DEF IInv
<1>1. ASSUME NEW w \in Workers, StartGeneration(w) \/ GenerationStep(w)
      PROVE  (~torn' => Settled') /\ CadenceKept' /\ HoursApart'
  <2>1. torn' = torn
    BY <1>1 DEF GenerationStep, StartGeneration, LoadMachines, CheckActive, ReadReference,
                Insert, AutoAccept, FailMachine
  <2>2. CASE torn
    BY <2>1, <2>2 DEF CadenceKept, HoursApart
  <2>3. CASE ~torn
    <3>1. CASE Insert(w)
      BY <1>0, <2>3, <3>1, InsertSettles
    <3>2. CASE ~Insert(w)
      <4>1. \/ StartGeneration(w) \/ LoadMachines(w) \/ CheckActive(w)
            \/ ReadReference(w) \/ AutoAccept(w) \/ FailMachine(w)
        BY <1>1, <3>2 DEF GenerationStep
      <4>2. Settled'
        BY <1>0, <2>3, <4>1, JobStepsSettle
      <4>3. UNCHANGED <<day, occ, torn>>
        BY <4>1 DEF StartGeneration, LoadMachines, CheckActive, ReadReference, AutoAccept,
                    FailMachine, db
      <4>4. CadenceKept' /\ HoursApart'
        BY <1>0, <4>3 DEF CadenceKept, HoursApart, StatusOf, KeysOf
      <4> QED BY <4>2, <4>4
    <3> QED BY <3>1, <3>2
  <2> QED BY <2>2, <2>3
<1>2. ASSUME OccurrenceNext PROVE (~torn' => Settled') /\ CadenceKept' /\ HoursApart'
  <2>1. PICK k \in Keys, from \in Active, to \in Active \cup Terminated :
            MoveOccurrence(k, from, to)
    BY <1>2 DEF OccurrenceNext, SkipOccurrence, RejectRequest, AcceptRequest,
                CloseIntervention, Active, Terminated
  <2>2. torn' = torn
    BY <2>1 DEF MoveOccurrence
  <2>3. CASE torn
    BY <2>2, <2>3 DEF CadenceKept, HoursApart
  <2>4. CASE ~torn
    BY <1>0, <2>1, <2>4, MoveSettles
  <2> QED BY <2>3, <2>4
<1>3. ASSUME UNCHANGED vars PROVE (~torn' => Settled') /\ CadenceKept' /\ HoursApart'
  <2>1. UNCHANGED <<day, plan, occ, job, torn>>
    BY <1>3 DEF vars
  <2>2. ASSUME Settled PROVE Settled'
    <3>1. \A w \in Workers : Current(job[w])'
      <4>1. \A x : Current(x) => Current(x)'
        BY <2>1, CurrentKept
      <4>2. \A w \in Workers : Current(job[w])
        BY <2>2 DEF Settled
      <4> QED BY <2>1, <4>1, <4>2
    <3> QED BY <2>1, <2>2, <3>1 DEF Settled, Past, Ordered, StatusOf
  <2> QED BY <1>0, <2>1, <2>2 DEF CadenceKept, HoursApart, StatusOf, KeysOf
<1> QED BY <1>0, <1>1, <1>2, <1>3, OthersSettle DEF Next

LEMMA InvApplies == IInv => TypeOK /\ OneActiveOccurrence /\ CadenceKept /\ HoursApart
<1> SUFFICES ASSUME IInv, ~torn, NEW j \in Keys, NEW k \in Keys, j[1] = k[1], j[2] = k[2],
                    StatusOf(j) \in Active, StatusOf(k) \in Active
             PROVE  j = k
  BY DEF IInv, Typed, OneActiveOccurrence
<1>1. TypeOK /\ Ordered
  BY DEF IInv, Typed, Settled
<1>2. occ[j] # Null /\ occ[k] # Null /\ j[3] \in Nat /\ k[3] \in Nat
  BY <1>1, RowsTyped DEF Active
<1>3. j[3] = k[3]
  BY <1>1, <1>2 DEF Ordered
<1> QED BY <1>1, <1>3, RowsTyped

LEMMA Invariance == Spec => []IInv
BY InitInv, NextInv, PTL DEF Spec

\* Plans, hours, occurrences and the frames of the generations keep to the schema
\* and the code, whatever overlaps.
THEOREM TypeCorrect == Spec => []TypeOK
BY Invariance, InvApplies, PTL

\* Any number of overlapping generations leave a machine one active occurrence of a
\* plan, as long as neither midnight nor an edit of a plan falls within one of them.
THEOREM OneAtATime == Spec => []OneActiveOccurrence
BY Invariance, InvApplies, PTL

\* A periodic plan then loses no period and repeats none.
THEOREM Cadence == Spec => []CadenceKept
BY Invariance, InvApplies, PTL

\* An hours plan then never triggers twice for the same hours of work.
THEOREM Apart == Spec => []HoursApart
BY Invariance, InvApplies, PTL

==============================================================================

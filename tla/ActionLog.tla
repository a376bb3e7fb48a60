------------------------------ MODULE ActionLog ------------------------------
(***************************************************************************)
(* Time and complexity of the actions: POST and PATCH                      *)
(* /intervention-actions with their triggers (the time from the bounds,    *)
(* the hours of the machine), and the decision log that AuditMiddleware    *)
(* writes around a PATCH, each of its reads and writes on a connection of  *)
(* its own. Tasks are left to ConcurrentWorkflow.                          *)
(***************************************************************************)
EXTENDS Integers, Sequences, FiniteSetsExt, Functions

CONSTANTS
    Workers,        \* requests in progress at a time
    Actions, Interventions, Machines,
    Loads,          \* named sets of payloads; the instance lets one arrive
    MaxTime,        \* bound on the clock, in quarters of an hour
    MaxEntries,     \* bound on the decision log
    None, Unset     \* a SQL NULL, and a field the payload does not carry

Clock == 0 .. MaxTime
Scores == {"low", "high"}      \* complexity_score <= 5, > 5
Factors == {"none", "named"}   \* complexity_factor NULL (what "" is stored as), or a code
Logged == {"score", "factor"}  \* what json.dumps takes: no Decimal, time or UUID

Row == [inter : Interventions, start : Clock \cup {None}, end : Clock \cup {None},
        time : Clock, score : Scores, factor : Factors]

\* InterventionActionIn and InterventionActionPatch
Patch == [start : Clock \cup {Unset}, end : Clock \cup {Unset},
          time : (Clock \ {0}) \cup {Unset},
          score : Scores \cup {Unset}, factor : Factors \cup {Unset}]

ASSUME LogAssumption ==
    /\ MaxTime \in Nat \ {0} /\ MaxEntries \in Nat
    /\ None \notin Nat /\ Unset \notin Nat /\ None # Unset
    /\ None \notin Row                  \* to have no row is not a row
    /\ IsFiniteSet(Actions)
    /\ \A l \in DOMAIN Loads : Loads[l] \subseteq Patch

Entry == [action : Actions, field : Logged,
          old : Scores \cup Factors \cup {None}, new : Scores \cup Factors \cup {None}]

VARIABLES
    load,       \* the payloads that arrive in this behaviour
    machineOf,  \* intervention.machine_id
    closed,     \* interventions with status 'ferme'
    action,     \* intervention_action, None without a row
    hours,      \* machine_hours.hours_total
    trail,      \* audit_log, the field_changed decisions on actions
    work,       \* the PATCH each worker serves
    born,       \* history: the score and factor each action was created with
    moved,      \* history: machines an intervention with actions has changed
    torn,       \* history: actions with overlapping PATCHes
    gaps        \* history: actions the middleware failed to read or to log

logvars == <<load, machineOf, closed, action, hours, trail, work, born, moved, torn, gaps>>

NoPatch == [at |-> "idle"]
Traced(r) == [f \in Logged |-> r[f]]

\* The snapshot of a read that failed, {}: each field is None to its get, which
\* is also what a NULL factor is.
Unread == [score |-> None, factor |-> "none"]

PatchesOf(a) == {w \in Workers : work[w] # NoPatch /\ work[w].action = a}

LogInit ==
    /\ load \in DOMAIN Loads
    /\ machineOf \in [Interventions -> Machines]
    /\ closed = {}
    /\ action = [a \in Actions |-> None]
    /\ hours = [m \in Machines |-> 0]
    /\ trail = <<>>
    /\ work = [w \in Workers |-> NoPatch]
    /\ born = action
    /\ moved = {} /\ torn = {} /\ gaps = {}

------------------------------------------------------------------------------
(* Triggers *)

\* fn_compute_action_time: the row as stored, none when it raises.
Computed(r) ==
    LET bounds == r.start # None /\ r.end # None
    IN  IF ~bounds THEN {s \in {r} : s.time # None}
        ELSE {[r EXCEPT !.time = r.end - r.start] :
                  s \in {s \in {r} : s.time = None /\ s.start < s.end}}

\* Fault: an update adds the new time without taking the old one off.
AddedAgain(i, old, new) ==
    hours' = [hours EXCEPT ![machineOf[i]] = @ + new]

\* fn_machine_hours_update
Accumulate(i, old, new) ==
    hours' = [hours EXCEPT ![machineOf[i]] = Max({0, @ + (new - old)})]

------------------------------------------------------------------------------
(* Creation: validated, then inserted in one transaction; never logged, its *)
(* path has no id.                                                          *)

OrNone(x) == IF x = Unset THEN None ELSE x
Or(x, y) == IF x = Unset THEN y ELSE x

Create(a, i, p) ==
    /\ action[a] = None
    /\ i \notin closed
    /\ p.score # Unset /\ p.factor # Unset
    /\ p.score = "high" => p.factor = "named"
    /\ \E r \in Computed([inter |-> i, start |-> OrNone(p.start), end |-> OrNone(p.end),
                          time |-> OrNone(p.time), score |-> p.score, factor |-> p.factor]) :
           /\ action' = [action EXCEPT ![a] = r]
           /\ born' = [born EXCEPT ![a] = Traced(r)]
           /\ Accumulate(i, 0, r.time)
    /\ UNCHANGED <<load, machineOf, closed, trail, work, moved, torn, gaps>>

------------------------------------------------------------------------------
(* PATCH /intervention-actions/{id} *)

\* Whether a read of the middleware got the row or failed, for which the
\* exception is swallowed and the snapshot is {}
Gapped(a, seen) == IF seen = Unread THEN gaps \cup {a} ELSE gaps

\* Fault: the first snapshot is taken once the route has answered.
SnapshotLate(w, a, p) ==
    /\ work[w] = NoPatch /\ action[a] # None
    /\ LET late == [Traced(action[a]) EXCEPT !.score = Or(p.score, @)]
       IN \E seen \in {late, Unread} :
              /\ work' = [work EXCEPT ![w] =
                            [at |-> "read", action |-> a, patch |-> p, old |-> seen]]
              /\ gaps' = Gapped(a, seen)
    /\ torn' = IF PatchesOf(a) = {} THEN torn ELSE torn \cup {a}
    /\ UNCHANGED <<load, machineOf, closed, action, hours, trail, born, moved>>

\* The middleware reads the row before it calls the route.
Snapshot(w, a, p) ==
    /\ work[w] = NoPatch /\ action[a] # None
    /\ \E seen \in {Traced(action[a]), Unread} :
           /\ work' = [work EXCEPT ![w] =
                         [at |-> "read", action |-> a, patch |-> p, old |-> seen]]
           /\ gaps' = Gapped(a, seen)
    /\ torn' = IF PatchesOf(a) = {} THEN torn ELSE torn \cup {a}
    /\ UNCHANGED <<load, machineOf, closed, action, hours, trail, born, moved>>

\* The route reads intervention_id, complexity_score and complexity_factor.
ReadAction(w) ==
    /\ work[w].at = "read"
    /\ LET a == work[w].action
       IN work' = [work EXCEPT ![w] = [at |-> "write", action |-> a, patch |-> work[w].patch,
                                     old |-> work[w].old, read |-> Traced(action[a])]]
    /\ UNCHANGED <<load, machineOf, closed, action, hours, trail, born, moved, torn, gaps>>

\* Fault: only the fields of the payload are looked at.
ExplainedByPayload(p, cur) ==
    p.score = "high" => p.factor # "none"

\* A score above 5 has its factor, in the payload or in the row as read.
Explained(p, cur) == Or(p.score, cur.score) = "high" => Or(p.factor, cur.factor) = "named"

Untimed(p) == p.start = Unset /\ p.end = Unset /\ p.time = Unset

\* New bounds take the time off, a new time takes the bounds off.
Patched(r, p) ==
    LET bounds == p.start # Unset \/ p.end # Unset
        direct == p.time # Unset
    IN [r EXCEPT
        !.start = IF direct /\ ~bounds THEN None ELSE Or(p.start, @),
        !.end = IF direct /\ ~bounds THEN None ELSE Or(p.end, @),
        !.time = IF bounds /\ ~direct THEN None ELSE Or(p.time, @),
        !.score = Or(p.score, @),
        !.factor = Or(p.factor, @)]

\* The triggers on the time fire only when the statement sets it.
Stored(r, p) == IF Untimed(p) THEN {Patched(r, p)} ELSE Computed(Patched(r, p))

Accepts(w) == /\ Explained(work[w].patch, work[w].read)
              /\ action[work[w].action].inter \notin closed
              /\ Stored(action[work[w].action], work[w].patch) # {}

Write(w) ==
    /\ work[w].at = "write"
    /\ Accepts(w)
    /\ LET a == work[w].action
       IN \E r \in Stored(action[a], work[w].patch) :
              /\ action' = [action EXCEPT ![a] = r]
              /\ Accumulate(r.inter, action[a].time, r.time)
              /\ work' = [work EXCEPT ![w] = [at |-> "observe", action |-> a,
                                            old |-> work[w].old]]
    /\ UNCHANGED <<load, machineOf, closed, trail, born, moved, torn, gaps>>

\* A 4xx answer, or the route failing before its commit: nothing is written,
\* nothing logged.
RefusePatch(w) ==
    /\ work[w].at \in {"read", "write"}
    /\ work' = [work EXCEPT ![w] = NoPatch]
    /\ UNCHANGED <<load, machineOf, closed, action, hours, trail, born, moved, torn, gaps>>

Changed(old, new) == {f \in Logged : old[f] # new[f]}

\* The route fails once it has committed (the re-read of the row for its answer,
\* the answer itself): a 500, which the middleware does not log.
LoseAnswer(w) ==
    /\ work[w].at = "observe"
    /\ work' = [work EXCEPT ![w] = NoPatch]
    /\ gaps' = gaps \cup {work[w].action}
    /\ UNCHANGED <<load, machineOf, closed, action, hours, trail, born, moved, torn>>

\* The middleware reads the row again.
Observe(w) ==
    /\ work[w].at = "observe"
    /\ LET a == work[w].action
       IN \E new \in {Traced(action[a]), Unread} :
              /\ work' = [work EXCEPT ![w] = [at |-> "log", action |-> a,
                         old |-> work[w].old, new |-> new,
                         fields |-> Changed(work[w].old, new)]]
              /\ gaps' = Gapped(a, new)
    /\ UNCHANGED <<load, machineOf, closed, action, hours, trail, born, moved, torn>>

\* One field_changed decision, on a connection of its own.
Log(w, f) ==
    /\ work[w].at = "log" /\ f \in work[w].fields
    /\ Len(trail) < MaxEntries
    /\ trail' = Append(trail, [action |-> work[w].action, field |-> f,
                               old |-> work[w].old[f], new |-> work[w].new[f]])
    /\ work' = [work EXCEPT ![w].fields = @ \ {f}]
    /\ UNCHANGED <<load, machineOf, closed, action, hours, born, moved, torn, gaps>>

\* _write_audit_log swallows any error.
LogLost(w, f) ==
    /\ work[w].at = "log" /\ f \in work[w].fields
    /\ work' = [work EXCEPT ![w].fields = @ \ {f}]
    /\ gaps' = gaps \cup {work[w].action}
    /\ UNCHANGED <<load, machineOf, closed, action, hours, trail, born, moved, torn>>

Answer(w) ==
    /\ work[w].at = "log" /\ work[w].fields = {}
    /\ work' = [work EXCEPT ![w] = NoPatch]
    /\ UNCHANGED <<load, machineOf, closed, action, hours, trail, born, moved, torn, gaps>>

------------------------------------------------------------------------------
(* PUT /interventions *)

ActionsOf(i) == {a \in Actions : action[a] # None /\ action[a].inter = i}

\* The hours already counted stay with the machine they were counted on.
MoveIntervention(i, m) ==
    /\ m # machineOf[i]
    /\ machineOf' = [machineOf EXCEPT ![i] = m]
    /\ moved' = IF ActionsOf(i) = {} THEN moved ELSE moved \cup {machineOf[i], m}
    /\ UNCHANGED <<load, closed, action, hours, trail, work, born, torn, gaps>>

CloseIntervention(i) ==
    /\ i \notin closed
    /\ closed' = closed \cup {i}
    /\ UNCHANGED <<load, machineOf, action, hours, trail, work, born, moved, torn, gaps>>

LogNext ==
    \/ \E a \in Actions, p \in Loads[load] :
           \/ \E i \in Interventions : Create(a, i, p)
           \/ \E w \in Workers : Snapshot(w, a, p)
    \/ \E w \in Workers :
           \/ ReadAction(w)
           \/ Write(w)
           \/ RefusePatch(w)
           \/ LoseAnswer(w)
           \/ Observe(w)
           \/ \E f \in Logged : Log(w, f) \/ LogLost(w, f)
           \/ Answer(w)
    \/ \E i \in Interventions :
           \/ \E m \in Machines : MoveIntervention(i, m)
           \/ CloseIntervention(i)

LogSpec == LogInit /\ [][LogNext]_logvars

------------------------------------------------------------------------------
(* Properties *)

\* Every row is as Row describes it, its time that of its bounds when it has both,
\* and the log holds decisions on the fields it can hold.
LogTypeOK ==
    /\ machineOf \in [Interventions -> Machines] /\ closed \subseteq Interventions
    /\ action \in [Actions -> Row \cup {None}]
    /\ \A a \in Actions : action[a] # None =>
           LET r == action[a] IN
           /\ r.time > 0
           /\ r.start # None /\ r.end # None => r.time = r.end - r.start
    /\ hours \in [Machines -> Nat]
    /\ trail \in Seq(Entry)
    /\ moved \subseteq Machines /\ torn \subseteq Actions /\ gaps \subseteq Actions

\* The time of each action, none without a row
Spent == [a \in Actions |-> IF action[a] = None THEN 0 ELSE action[a].time]

ActionsOn(m) == {a \in Actions : action[a] # None /\ machineOf[action[a].inter] = m}

\* The hours a machine shows, on which the hours plans trigger, are the time of
\* its actions, whatever was patched by whom in whatever order, as long as no
\* intervention with actions has changed machine.
HoursAccounted ==
    \A m \in Machines \ moved : hours[m] = SumFunctionOnSet(Spent, ActionsOn(m))

\* An action above 5 names its complexity factor. Two PATCHes that overlap may
\* break it, each judged on the row the other had not yet written.
ComplexityExplained ==
    \A a \in Actions \ torn :
        action[a] # None /\ action[a].score = "high" => action[a].factor = "named"

\* The decisions on a field of an action among the first n - 1, and what the last
\* of them leaves there
Decisions(a, f, n) == {k \in 1 .. n - 1 : trail[k].action = a /\ trail[k].field = f}

Replayed(a, f, n) ==
    IF Decisions(a, f, n) = {} THEN born[a][f] ELSE trail[Max(Decisions(a, f, n))].new

\* Read in order from the action as it was created, the decisions on its score
\* and its factor lead to the row: no change is missing, doubled or misordered,
\* once the PATCH is answered. This asks that no two of its PATCHes overlapped,
\* and that the middleware had the row at both its reads, a 2xx to log and each
\* of its writes: when any of these fails, the trail no longer tells the row.
TrailReplays ==
    \A a \in Actions \ (torn \cup gaps), f \in Logged :
        (action[a] # None /\ PatchesOf(a) = {}) =>
            /\ \A n \in Decisions(a, f, Len(trail) + 1) : trail[n].old = Replayed(a, f, n)
            /\ Replayed(a, f, Len(trail) + 1) = action[a][f]
==============================================================================

------------------------------ MODULE Statistics ------------------------------
(***************************************************************************)
(* The reports of /stats over the recorded actions: status of the service, *)
(* technical load by period, anomalies of entry and quality of the data.   *)
(* Hours are counted in quarters, created_at in half days: 2 * d is the    *)
(* midnight that begins day d, 2 * d + 1 its noon.                         *)
(***************************************************************************)
EXTENDS Integers, FiniteSets, Functions

CONSTANTS
    Slots,      \* ids of intervention_action
    Payloads,   \* the rows a client may post
    LegacyRows, \* rows recorded before the validators
    Inters,     \* machine, class and site of each intervention
    Subs,       \* category and code of each subcategory
    Factors,    \* codes of complexity_factor
    Ends,       \* last day of the week, month and quarter of each day
    MaxDay,     \* bound on the calendar
    Counts,     \* the counts from which actions are reported
    Capacity,   \* TEAM_CAPACITY_HOURS_PER_MONTH, in quarters
    Null

Days == 0 .. MaxDay
Instants == 0 .. 2 * MaxDay + 1
Periods == {"week", "month", "quarter"}
Categories == {"DEP", "PREV", "SUP", "PROD", "PILOT", "OTHER"}
Codes == {"BAT_NET", "LOG_INV", "OTHER"}
OrNull(S) == S \cup {Null}

\* score is complexity_score > 5; what the description is worth: "bare" (shorter than
\* 5 characters), "plain", or "wordy" with a suspicious keyword.
Row == [inter : DOMAIN Inters, sub : OrNull(DOMAIN Subs), tech : OrNull({"t1", "t2"}),
        time : OrNull(Nat), score : OrNull(BOOLEAN), factor : OrNull(Factors),
        at : Instants, text : {"bare", "plain", "wordy"}]

\* What the constants must be; Reports assumes it.
ConstantsFit ==
    /\ MaxDay \in Nat /\ Capacity \in Nat \ {0}
    /\ \A S \in {Slots, DOMAIN Inters, DOMAIN Subs, Factors} : IsFiniteSet(S)
    /\ Null \notin Nat \cup Factors \cup DOMAIN Subs \cup Row
    /\ \A s \in DOMAIN Subs : Subs[s].cat \in Categories /\ Subs[s].code \in Codes
    /\ \A p \in Periods : \A d \in Days :
           /\ Ends[p][d] \in Nat /\ d <= Ends[p][d]
           /\ \A e \in Days : e \in d .. Ends[p][d] => Ends[p][e] = Ends[p][d]
    /\ Payloads \cup LegacyRows \subseteq Row
    /\ Counts \in [{"systemic", "repetitive", "repetitiveHigh", "fragmented",
                    "fragmentedHigh"} -> Nat]

VARIABLE acts    \* intervention_action, Null without a row

StatsInit ==
    acts \in {f \in [Slots -> OrNull(LegacyRows)] :
                  Cardinality({k \in Slots : f[k] # Null}) <= 1}

Recorded == {k \in Slots : acts[k] # Null}

\* InterventionActionValidator, then fn_compute_action_time on a time given as such.
Valid(r) ==
    /\ r.sub # Null /\ r.tech # Null /\ r.score # Null
    /\ r.score => r.factor # Null
    /\ r.time # Null /\ r.time >= 1

\* POST /intervention-actions
Record(k, r) ==
    /\ acts[k] = Null
    /\ Valid(r)
    /\ acts' = [acts EXCEPT ![k] = r]

StatsNext == \E k \in Slots, r \in Payloads : Record(k, r)

------------------------------------------------------------------------------
(* Reading the rows *)

\* created_at >= start AND created_at <= end, the dates being midnights.
Between(start, end) == {k \in Recorded : 2 * start <= acts[k].at /\ acts[k].at <= 2 * end}

Cat(k) == IF acts[k].sub = Null THEN Null ELSE Subs[acts[k].sub].cat
Code(k) == IF acts[k].sub = Null THEN Null ELSE Subs[acts[k].sub].code
Class(k) == Inters[acts[k].inter].class
Machine(k) == Inters[acts[k].inter].machine
Time(k) == IF acts[k].time = Null THEN 0 ELSE acts[k].time   \* as SUM takes it
Hours(S) == SumFunction([k \in S |-> Time(k)])
Untimed(S) == S # {} /\ \A k \in S : acts[k].time = Null    \* SUM is NULL
Shorter(k, q) == acts[k].time # Null /\ acts[k].time < q

------------------------------------------------------------------------------
(* GET /stats/service-status *)

\* A comparison with NULL is not true: a row without time is not short, nor is one
\* without a category of another category.
Short(k) == Cat(k) = "SUP" \/ (Shorter(k, 2) /\ Cat(k) \notin {"DEP", "PREV", Null})

\* Fault: what has no known category falls in no class.
TimeTypeNoElse(k) ==
    IF Short(k) THEN "FRAG"
    ELSE IF Cat(k) \in {"DEP", "PILOT", "PROD"} THEN Cat(k) ELSE "NONE"

TimeType(k) ==
    IF Short(k) THEN "FRAG"
    ELSE IF Cat(k) \in {"DEP", "PILOT"} THEN Cat(k) ELSE "PROD"

Breakdown(start, end) ==
    [t \in {"PROD", "DEP", "PILOT", "FRAG"} |->
        Hours({k \in Between(start, end) : TimeType(k) = t})]

\* 100 * part / whole < n, of a percentage that is 0 when there is no whole.
Under(n, part, whole) == IF whole = 0 THEN n > 0 ELSE 100 * part < n * whole

Shades == [green |-> 0, orange |-> 1, red |-> 2]
Shade(low, high, part, whole) ==
    IF Under(low, part, whole) THEN "green"
    ELSE IF Under(high, part, whole) THEN "orange" ELSE "red"

\* The colours of the load, of the fragmentation and of the time left to steer.
StatusColours(start, end) ==
    LET b == Breakdown(start, end)
        total == Hours(Between(start, end))
    IN [charge |-> Shade(75, 100, 30 * total, Capacity * (end - start + 1)),
        frag   |-> Shade(5, 15, b.FRAG, total),
        pilot  |-> IF total > 0 /\ 100 * b.PILOT > 20 * total THEN "green"
                   ELSE IF total > 0 /\ 100 * b.PILOT > 10 * total THEN "orange" ELSE "red"]

Sites == {Inters[i].site : i \in DOMAIN Inters}    \* Null: 'Sans équipement'
OnSite(S, s) == {k \in S : Inters[acts[k].inter].site = s}
Fragments(start, end) == {k \in Between(start, end) : TimeType(k) = "FRAG"}

SiteConsumption(start, end) ==
    [s \in Sites |-> [total |-> Hours(OnSite(Between(start, end), s)),
                      frag  |-> Hours(OnSite(Fragments(start, end), s))]]

\* One cause for each subcategory with a name; the ten longest are shown.
FragCauses(start, end) ==
    LET S == Fragments(start, end)
    IN [c \in {acts[k].sub : k \in S} \ {Null} |-> {k \in S : acts[k].sub = c}]

\* round(None) makes the report an error when a site, or a cause shown, has only
\* rows without time.
StatusFails(start, end) ==
    \/ \E s \in Sites : Untimed(OnSite(Between(start, end), s))
    \/ \E c \in DOMAIN FragCauses(start, end) : Untimed(FragCauses(start, end)[c])

------------------------------------------------------------------------------
(* GET /stats/charge-technique *)

Failures(start, end) == {k \in Between(start, end) : Cat(k) = "DEP"}
Explained(start, end) == {k \in Failures(start, end) : acts[k].factor # Null}
Likes(S, k) == {j \in S : acts[j].sub = acts[k].sub /\ Class(j) = Class(k)}
Systemic(start, end) ==
    LET S == Failures(start, end)
    IN {k \in S : Cardinality(Likes(S, k)) >= Counts.systemic}
Avoidable(start, end) == Explained(start, end) \cup Systemic(start, end)

OfClass(S, c) == {k \in S : Class(k) = c}
ClassesSeen == {Inters[i].class : i \in DOMAIN Inters} \ {Null}

Named(S, f) == {k \in S : acts[k].factor = f}

\* Fault: a class counts twice what has a factor and is systemic.
ClassLoadTwice(start, end, c) ==
    LET dep == OfClass(Failures(start, end), c)
        factor == OfClass(Explained(start, end), c)
        systemic == OfClass(Systemic(start, end), c)
    IN [total |-> Hours(OfClass(Between(start, end), c)), dep |-> Hours(dep),
        avoidable |-> Hours(factor) + Hours(systemic),
        factor |-> Hours(factor), systemic |-> Hours(systemic), both |-> 0,
        causes |-> [f \in {acts[k].factor : k \in factor} |-> Hours(Named(factor, f))]]

\* The load of one class of equipment; causes are the factors of its failures.
ClassLoad(start, end, c) ==
    LET dep == OfClass(Failures(start, end), c)
        factor == OfClass(Explained(start, end), c)
        systemic == OfClass(Systemic(start, end), c)
    IN [total |-> Hours(OfClass(Between(start, end), c)), dep |-> Hours(dep),
        avoidable |-> Hours(OfClass(Avoidable(start, end), c)),
        factor |-> Hours(factor), systemic |-> Hours(systemic),
        both |-> Hours(factor \cap systemic),
        causes |-> [f \in {acts[k].factor : k \in factor} |-> Hours(Named(factor, f))]]

\* The load of one period: globally, by cause and by class of equipment.
Charge(start, end) ==
    LET all == Between(start, end)
        dep == Failures(start, end)
        avoidable == Avoidable(start, end)
    IN [total |-> Hours(all), dep |-> Hours(dep), constructive |-> Hours(all \ dep),
        avoidable |-> Hours(avoidable), endured |-> Hours(dep \ avoidable),
        causes |-> [f \in {acts[k].factor : k \in Explained(start, end)} |->
                       Hours(Named(Explained(start, end), f))],
        class |-> [c \in ClassesSeen |-> ClassLoad(start, end, c)]]

\* A cause of untimed rows only makes the report an error too, be it a cause of the
\* whole or of one class: its NULL sorts before any hours, hence is shown.
ChargeFails(start, end) ==
    \E f \in Factors :
        \/ Untimed(Named(Explained(start, end), f))
        \/ \E c \in ClassesSeen : Untimed(Named(OfClass(Explained(start, end), c), f))

\* taux < 20, taux <= 40
RateShade(avoidable, dep) ==
    IF Under(20, avoidable, dep) THEN "green"
    ELSE IF 100 * avoidable <= 40 * dep THEN "orange" ELSE "red"

\* What is recommended for a class: watch it, name the causes of its failures, or
\* act on the first cause.
Advice(load) ==
    LET rate == RateShade(load.avoidable, load.dep)
    IN IF rate = "green" THEN "watch"
       ELSE IF DOMAIN load.causes = {} THEN "annotate"
       ELSE IF rate = "red" THEN "urgent" ELSE "act"

\* The parts its explanation lists.
ExplanationParts(load) ==
    (IF load.factor - load.both > 0 THEN {"factor"} ELSE {})
      \cup (IF load.systemic - load.both > 0 THEN {"systemic"} ELSE {})
      \cup (IF load.both > 0 THEN {"both"} ELSE {})

EarlierOf(a, b) == IF a < b THEN a ELSE b

\* Fault: the next period begins on the last day of the one before.
SplitOverlapping(start, end, type) ==
    {<<d, EarlierOf(Ends[type][d], end)>> : d \in {d \in start .. end :
        d = start \/ Ends[type][d - 1] = d}}

\* Each period begins where the one before it ended.
SplitPeriods(start, end, type) ==
    {<<d, EarlierOf(Ends[type][d], end)>> : d \in {d \in start .. end :
        d = start \/ Ends[type][d - 1] = d - 1}}

------------------------------------------------------------------------------
(* GET /stats/anomalies-saisie: of what, and how severe *)

NotPreventive(S) == {k \in S : Cat(k) # "PREV"}
Group(S, of) == {[of |-> of[k], members |-> {j \in S : of[j] = of[k]}] : k \in S}
Found(of, high) == [of |-> of, high |-> high]

Repetitive(start, end) ==
    LET S == NotPreventive(Between(start, end))
        groups == Group(S, [k \in S |-> <<acts[k].sub, Machine(k),
                                          Ends.month[acts[k].at \div 2]>>])
    IN {Found(g.of, Cardinality(g.members) >= Counts.repetitiveHigh) :
            g \in {g \in groups : Cardinality(g.members) > Counts.repetitive}}

Fragmented(start, end) ==
    LET S == {k \in NotPreventive(Between(start, end)) : Shorter(k, 4)}
        groups == Group(S, [k \in S |-> acts[k].sub])
    IN {Found(g.of, Cardinality(g.members) >= Counts.fragmentedHigh) :
            g \in {g \in groups : Cardinality(g.members) >= Counts.fragmented}}

TooLong(start, end) ==
    {Found(k, Time(k) >= 32) :
        k \in {k \in Between(start, end) : Time(k) > 16 /\ Code(k) \in {"BAT_NET", "LOG_INV"}}}

BadClassification(start, end) ==
    {Found(k, FALSE) :
        k \in {k \in Between(start, end) : Code(k) = "BAT_NET" /\ acts[k].text = "wordy"}}

\* Fault: the rows are sorted by date only.
PrecedesByDate(j, k) == acts[j].at <= acts[k].at

\* ORDER BY tech, intervention_id, created_at: only rows of one technician on one
\* intervention are ever neighbours worth a pair.
Precedes(j, k) == /\ acts[j].tech = acts[k].tech /\ acts[j].inter = acts[k].inter
                  /\ acts[j].at <= acts[k].at

\* Two rows follow each other when no other row comes between; rows of one instant
\* stand in any order, and the pairs are reported by their instants.
Neighbours(S, j, k) ==
    /\ j # k /\ Precedes(j, k)
    /\ acts[j].tech = acts[k].tech /\ acts[j].inter = acts[k].inter
    /\ acts[k].at - acts[j].at <= 2
    /\ ~\E l \in S : /\ acts[j].at < acts[l].at /\ acts[l].at < acts[k].at
                     /\ Precedes(j, l) /\ Precedes(l, k)

BackToBack(start, end) ==
    LET S == NotPreventive(Between(start, end))
    IN {Found(<<acts[p[1]].tech, acts[p[1]].inter, acts[p[2]].at>>,
              acts[p[2]].at - acts[p[1]].at <= 1) :
           p \in {p \in S \X S : Neighbours(S, p[1], p[2])}}

LowValue(start, end) ==
    LET S == {k \in Between(start, end) : Code(k) = "BAT_NET"}
        groups == Group(S, [k \in S |-> acts[k].sub])
    IN {Found(g.of, Hours(g.members) >= 240) :
            g \in {g \in groups : Hours(g.members) >= 120}}

Anomalies(start, end) == [
    repetitive         |-> Repetitive(start, end),
    fragmented         |-> Fragmented(start, end),
    too_long           |-> TooLong(start, end),
    bad_classification |-> BadClassification(start, end),
    back_to_back       |-> BackToBack(start, end),
    low_value          |-> LowValue(start, end)]

------------------------------------------------------------------------------
(* GET /stats/qualite-donnees: the detectors of actions on single fields *)

\* A detector: what it finds, and how severe it says that is.
Detectors == [
    action_time_null |-> [high |-> TRUE, found |-> {k \in Recorded : Time(k) = 0}],
    action_complexity_sans_facteur |->
        [high |-> TRUE, found |-> {k \in Recorded :
            acts[k].score # Null /\ acts[k].score /\ acts[k].factor = Null}],
    action_subcategory_null |->
        [high |-> TRUE, found |-> {k \in Recorded : acts[k].sub = Null}],
    action_tech_null |-> [high |-> FALSE, found |-> {k \in Recorded : acts[k].tech = Null}],
    action_description_vide |->
        [high |-> FALSE, found |-> {k \in Recorded : acts[k].text = "bare"}],
    action_time_suspect |-> [high |-> FALSE, found |-> {k \in Recorded : Time(k) > 32}]]

\* The problems of these severities, filtered once each detector has answered.
Quality(severities) ==
    {p \in (DOMAIN Detectors) \X Recorded :
        /\ Detectors[p[1]].high \in severities
        /\ p[2] \in Detectors[p[1]].found}

------------------------------------------------------------------------------
(* Properties *)

Queries == {q \in Days \X Days : q[1] <= q[2]}

\* Whatever was recorded, the parts of each report add up: the four kinds of time
\* and the sites to the total, avoidable and endured failures to the failures, in
\* each class the causes to what has a factor; and a class whose advice is to name
\* causes is one whose avoidable failures are all systemic.
ChargeAdds ==
    \A q \in Queries :
        LET b == Breakdown(q[1], q[2])
            c == Charge(q[1], q[2])
            sites == SiteConsumption(q[1], q[2])
        IN /\ SumFunction(b) = c.total
           /\ SumFunction([s \in Sites |-> sites[s].total]) = c.total
           /\ SumFunction([s \in Sites |-> sites[s].frag]) = b.FRAG
           /\ b.DEP = c.dep
           /\ c.dep + c.constructive = c.total /\ c.avoidable + c.endured = c.dep
           /\ SumFunction(c.causes) <= c.avoidable
           /\ \A k \in ClassesSeen :
                  LET load == c.class[k] IN
                  /\ SumFunction(load.causes) = load.factor
                  /\ Advice(load) = "annotate" => ExplanationParts(load) = {"systemic"}

\* The colour of the avoidable failures is between those of the classes, and of what
\* has no class: a class is judged as the whole is, nothing counted twice.
RatesBracket ==
    \A q \in Queries :
        LET c == Charge(q[1], q[2])
            loads == {l \in {ClassLoad(q[1], q[2], k) : k \in ClassesSeen \cup {Null}} : l.dep > 0}
            shade(l) == Shades[RateShade(l.avoidable, l.dep)]
        IN c.dep > 0 =>
              /\ \E l \in loads : shade(l) <= Shades[RateShade(c.avoidable, c.dep)]
              /\ \E l \in loads : shade(l) >= Shades[RateShade(c.avoidable, c.dep)]

\* A report by week, month or quarter counts what the report of the whole range
\* does, except for what was recorded after the midnight that begins the last day
\* of a period before the last: those hours are in no period.
PeriodsAccount ==
    \A q \in Queries, type \in Periods :
        LET periods == SplitPeriods(q[1], q[2], type)
            total(p) == Charge(p[1], p[2]).total
            lost == {k \in Between(q[1], q[2]) :
                        \E p \in periods : acts[k].at = 2 * p[2] + 1}
        IN SumFunction([p \in periods |-> total(p)]) + Hours(lost) = Charge(q[1], q[2]).total

\* Recording one more action never makes an anomaly disappear from a report, nor
\* lowers its severity: no detector looks past a neighbour or at a mean.  Nor does
\* it make an error of a report that answered: only rows older than the triggers
\* have no time.
ReportsGrow ==
    [][acts' # acts => \A q \in Queries :
          /\ StatusFails(q[1], q[2])' => StatusFails(q[1], q[2])
          /\ ChargeFails(q[1], q[2])' => ChargeFails(q[1], q[2])
          /\ \A before \in {Anomalies(q[1], q[2])}, after \in {Anomalies(q[1], q[2])'} :
                \A type \in DOMAIN before : \A f \in before[type] :
                    \E g \in after[type] : g.of = f.of /\ (f.high => g.high)
          /\ Quality(BOOLEAN) \subseteq Quality(BOOLEAN)']_acts
===============================================================================

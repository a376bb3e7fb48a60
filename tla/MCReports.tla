------------------------------- MODULE MCReports -------------------------------
(* Reports on small instances. *)
EXTENDS Reports, TLC

MCMachineRows ==
    {[mother |-> Null, class |-> Null, allows |-> TRUE, posted |-> TRUE],
     [mother |-> Null, class |-> "SCI", allows |-> FALSE, posted |-> FALSE]}

MCInters == [a |-> [machine |-> "m1", class |-> "SCI", site |-> "north"],
             b |-> [machine |-> "m2", class |-> Null, site |-> Null]]

MCSubs == [mech  |-> [cat |-> "DEP", code |-> "OTHER"],
           elec  |-> [cat |-> "DEP", code |-> "OTHER"],
           clean |-> [cat |-> "PROD", code |-> "BAT_NET"],
           plan  |-> [cat |-> "PILOT", code |-> "OTHER"],
           round |-> [cat |-> "PREV", code |-> "OTHER"]]

\* Weeks end on days 1 and 3, months and quarters on day 2.
MCEnds == [week    |-> [d \in 0 .. MaxDay |-> IF d <= 1 THEN 1 ELSE 3],
           month   |-> [d \in 0 .. MaxDay |-> IF d <= 2 THEN 2 ELSE 5],
           quarter |-> [d \in 0 .. MaxDay |-> IF d <= 2 THEN 2 ELSE 8]]

MCCounts == [systemic |-> 2, repetitive |-> 1, repetitiveHigh |-> 3,
             fragmented |-> 2, fragmentedHigh |-> 3]

Act(inter, sub, time, factor, at) ==
    [inter |-> inter, sub |-> sub, tech |-> "t1", time |-> time, score |-> factor # Null,
     factor |-> factor, at |-> at, text |-> "plain"]

MCPayloads ==
    {Act("a", "mech", 1, Null, 1), Act("a", "mech", 4, "F", 3), Act("b", "mech", 8, "F", 5),
     Act("a", "plan", 1, Null, 4), Act("a", "elec", 24, Null, 1), Act("b", "clean", 130, Null, 2),
     Act("a", "round", 6, Null, 6), [Act("b", "mech", 2, Null, 4) EXCEPT !.score = TRUE],
     [Act("b", "mech", Null, Null, 4) EXCEPT !.text = "bare"],
     [Act("b", "clean", 120, Null, 2) EXCEPT !.text = "wordy", !.tech = "t2"]}

\* One of them is the only row of its class with a factor and has no time: the third
\* of MCPayloads may give hours to the factor, none to it in the class.
MCLegacyRows ==
    {Act("a", "mech", Null, "F", 4), [Act("a", Null, 1, Null, 2) EXCEPT !.tech = Null, !.score = Null],
     [Act("b", "mech", Null, Null, 4) EXCEPT !.score = TRUE]}

\* The identifiers of one table are interchangeable.
Symmetry ==
    Permutations(Requests) \cup Permutations(Interventions) \cup Permutations(Machines)
      \cup Permutations(Purchases)
===============================================================================

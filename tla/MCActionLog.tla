----------------------------- MODULE MCActionLog -----------------------------
EXTENDS ActionLog, TLC
CONSTANTS w1, w2, a1, i1, m1, m2

\* Payloads on the time, and on the complexity.
MCLoads == [
    time |-> {p \in Patch : p.score = "low" /\ p.factor = "none" /\ p.start # 2 /\ p.end # 0},
    complexity |-> {p \in Patch : p.start = Unset /\ p.end = Unset /\ p.time = 1}]

\* Nothing is asked of the hours of a machine an intervention with actions has
\* left, of the complexity of an action whose PATCHes overlapped, nor of a trail
\* with a gap; what follows a gap differs in the trail only.
Untorn == moved = {} /\ gaps = {} /\ (load = "complexity" => torn = {})

Perms == Permutations(Workers) \cup Permutations(Machines)
==============================================================================

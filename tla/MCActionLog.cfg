CONSTANTS
    w1 = w1  w2 = w2  a1 = a1  i1 = i1  m1 = m1  m2 = m2
    None = None
    Unset = Unset
    Workers = {w1, w2}
    Actions = {a1}
    Interventions = {i1}
    Machines = {m1, m2}
    Loads <- MCLoads
    MaxTime = 2
    MaxEntries = 3
CONSTRAINT Untorn
SYMMETRY Perms
SPECIFICATION LogSpec
CHECK_DEADLOCK FALSE
INVARIANTS HoursAccounted ComplexityExplained TrailReplays

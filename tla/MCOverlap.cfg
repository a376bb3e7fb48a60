SPECIFICATION Spec
CONSTANTS
    Workers = {w1, w2}
    Endpoints = {"transition", "link", "put", "log", "delete", "skip", "task", "action"}
    Requests = {r1}
    Interventions = {i1, i2}
    Occurrences = {o1}
    Steps = {s1}
    OptionalSteps = {}
    ManualTasks = {}
    Null = Null
    MaxClosings = 0
SYMMETRY Symmetry
INVARIANTS
    AcceptedNotClosed
    NoDanglingReference
PROPERTIES
    ClosesCompleteGamme
    TaskKeepsIntervention
CHECK_DEADLOCK FALSE

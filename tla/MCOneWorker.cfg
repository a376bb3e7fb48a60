SPECIFICATION Spec
CONSTANTS
    Workers = {w1}
    Endpoints = {"transition", "link", "put", "log", "delete", "skip", "task", "action"}
    Requests = {r1, r2}
    Interventions = {i1, i2}
    Occurrences = {o1, o2}
    Steps = {s1}
    OptionalSteps = {}
    ManualTasks = {m1}
    Null = Null
    MaxClosings = 2
SYMMETRY Symmetry
INVARIANTS
    LinksAgree
    TasksAgree
    RepairUndoes
PROPERTIES
    ImplementsSerial
    StatutFollowsTable
    ClosedFreezesTasks
CHECK_DEADLOCK FALSE

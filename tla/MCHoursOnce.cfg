SPECIFICATION ReportsSpec
CONSTANTS
    Null = Null
    Requests = {r1}
    Interventions = {i1}
    Occurrences = {}
    Steps = {}
    OptionalSteps = {}
    ManualTasks = {t1}
    MaxClosings = 1
    Machines = {m1}
    MachineRows <- MCMachineRows
    Classes = {"SCI"}
    Actions = {k1}
    Purchases = {p1, p2}
    HoursSpent = {1}
    OpenLimit = 1
    LateLimit = 2
    Slots = {}
    Payloads <- MCPayloads
    LegacyRows <- MCLegacyRows
    Inters <- MCInters
    Subs <- MCSubs
    Factors = {"F"}
    Capacity = 40
    Ends <- MCEnds
    MaxDay = 3
    Counts <- MCCounts
    MaxRows = 8
INVARIANTS
    HoursOnce
SYMMETRY Symmetry
CHECK_DEADLOCK FALSE

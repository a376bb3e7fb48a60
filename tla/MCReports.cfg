SPECIFICATION ReportsSpec
CONSTANTS
    Null = Null
    Requests = {r1, r2}
    Interventions = {i1, i2}
    Occurrences = {o1}
    Steps = {s1}
    OptionalSteps = {}
    ManualTasks = {t1}
    MaxClosings = 1
    Machines = {m1, m2}
    MachineRows <- MCMachineRows
    Classes = {"SCI"}
    Actions = {k1}
    Purchases = {p1}
    HoursSpent = {1}
    OpenLimit = 1
    LateLimit = 2
    Slots = {a1, a2, a3}
    Payloads <- MCPayloads
    LegacyRows <- MCLegacyRows
    Inters <- MCInters
    Subs <- MCSubs
    Factors = {"F"}
    Capacity = 40
    Ends <- MCEnds
    MaxDay = 3
    Counts <- MCCounts
    MaxRows = 6
INVARIANTS
    ChargeAdds
    PeriodsAccount
    RatesBracket
    ListsAgree
PROPERTIES
    ReportsGrow
    WorkNeverImproves
SYMMETRY Symmetry
CHECK_DEADLOCK FALSE

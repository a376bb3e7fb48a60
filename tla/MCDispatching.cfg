CONSTANTS
    Null = Null
    s1 = s1  s2 = s2  a1 = a1  a2 = a2
    Requests = {r1, r2}
    Articles = {a2}
    Suppliers = {s1, s2}
    Orders = {o1, o2, o3}
    Interventions = {}
    Rows <- MCRows
    Direct <- MCDirect
    MaxQuantity = 1
    MaxLine = 2
    MaxRows = 99
    Workers = {w1}
    Endpoints = {"request", "dispatch", "order"}
SPECIFICATION Spec
SYMMETRY Symmetry
CHECK_DEADLOCK FALSE
PROPERTIES OnlyPendingDispatched DispatchConserves AllOrNothing

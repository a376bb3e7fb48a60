CONSTANTS
    Null = Null
    s1 = s1  s2 = s2  a1 = a1  a2 = a2
    Requests = {r1, r2}
    Articles = {a1}
    Suppliers = {s1}
    Orders = {o1, o2}
    Interventions = {}
    Rows <- MCRows
    Direct <- MCDirect
    MaxQuantity = 1
    MaxLine = 3
    MaxRows = 99
    Workers = {w1, w2}
    Endpoints = {"request", "dispatch", "order"}
SPECIFICATION Spec
SYMMETRY Symmetry
CHECK_DEADLOCK FALSE
INVARIANTS NoDanglingLink LineCoversLinks

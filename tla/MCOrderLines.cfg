CONSTANTS
    Null = Null
    s1 = s1  s2 = s2  a1 = a1  a2 = a2
    Requests = {r1, r2}
    Articles = {a1}
    Suppliers = {s1}
    Orders = {o1, o2}
    Interventions = {i1}
    Rows <- MCRows
    Direct <- MCDirect
    MaxQuantity = 1
    MaxLine = 1
    MaxRows = 7
    Workers = {w1}
    Endpoints = {"request", "order", "line", "link", "close"}
SPECIFICATION Spec
SYMMETRY Symmetry
CHECK_DEADLOCK FALSE
INVARIANTS ViewsAgree
PROPERTIES ClosedFreezesRequests ExclusiveSelection

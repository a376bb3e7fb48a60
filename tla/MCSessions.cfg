SPECIFICATION Spec
CONSTANTS
    Processes = {p1, p2}
    Users = {u1}
    Roles = {r1}
    Tokens = {t1, t2, t3}
    EmailLimit = 1
    IpLimit = 2
    MaxQuarter = 1
    Null = Null
SYMMETRY Symmetry
INVARIANTS
    HeirsBounded
    FloodBounded
PROPERTIES
    ImplementsLineage
CHECK_DEADLOCK FALSE

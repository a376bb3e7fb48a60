SPECIFICATION Spec
CONSTANTS
    Workers = {w1, w2}
    Plans = {p1}
    m1 = m1
    Machines = {m1}
    ClassOf <- OneClass
    Definitions <- SmallDefinitions
    MaxDay = 3
    MaxHours = 2
    Null = Null
CONSTRAINT Untorn
SYMMETRY Symmetry
INVARIANTS
    OneActiveOccurrence
    CadenceKept
    HoursApart
CHECK_DEADLOCK FALSE

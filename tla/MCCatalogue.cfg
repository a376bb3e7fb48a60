SPECIFICATION MigrationSpec
CONSTANTS
    Workers = {w1, w2}
    Templates = {t1, t2}
    SubFamilies = {s1}
    Items = {i1, i2}
    Parts = {p1}
    Sources = {x, y, z}
    f1 = f1
    f2 = f2
    Fields = {f1, f2}
    Shapes <- SmallShapes
    Loads <- SmallLoads
    MaxVersion = 3
    Makers = {m1, m2}
    Actions = {1, 2}
    Tasks = {k1, k2}
    Interventions = {v1, v2}
    MaxRefs = 2
    MaxWrites = 1
    Null = Null
SYMMETRY Symmetry
INVARIANTS
    ItemsFitTemplate
    RefsCounted
    PreferredBounded
PROPERTIES
    MigrationsKeep
CHECK_DEADLOCK FALSE

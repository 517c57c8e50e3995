SPECIFICATION Spec
CONSTANTS
    Threads = {t1, t2, t3}
    Ids = {i1, i2}
    Values = {v}
    Nil = Nil
    Collisions = TRUE
    MaxTables = 3
CHECK_DEADLOCK FALSE
SYMMETRY Interchangeable
INVARIANTS
    TypeOK
    StackDiscipline
PROPERTY ImplementsStore

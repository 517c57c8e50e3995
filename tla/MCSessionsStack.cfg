SPECIFICATION Spec
CONSTANTS
    Threads = {t1, t2}
    Ids = {i1, i2}
    Values = {v}
    Nil = Nil
    Collisions = FALSE
    MaxTables = 3
CHECK_DEADLOCK FALSE
INVARIANT StackEmpty

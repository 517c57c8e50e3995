SPECIFICATION FairSpec
CONSTANTS
    NSlots = 3
    Conns = {k1, k2, k3, k4}
    None = None
INVARIANTS
    TypeOK
    ExclusiveSlots
    LeaseIsHeld
    CountIsHolders
    RefusedOnlyWhenFull
PROPERTIES
    ImplementsPool
    EveryCallReturns

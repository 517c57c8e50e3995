SPECIFICATION Spec
CONSTANTS
    NSlots = 2
    Conns = {k1, k2, k3}
    None = None
    StartMayFail = TRUE
    SelectMayFail = TRUE
    DebugNoise = TRUE
CHECK_DEADLOCK FALSE
SYMMETRY ConnSymmetry
INVARIANTS
    TypeOK
    OwnClient
    NoSocketLeak
    ClosedOnce
    EndedIsGone
    StoppedBeforeDestroy
PROPERTY SharesPool

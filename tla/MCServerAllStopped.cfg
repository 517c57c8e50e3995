SPECIFICATION Spec
CONSTANTS
    NSlots = 2
    Conns = {k1, k2, k3}
    None = None
    StartMayFail = FALSE
    SelectMayFail = FALSE
    DebugNoise = FALSE
CHECK_DEADLOCK FALSE
INVARIANT AllClientsStopped

SPECIFICATION FairSpec
CONSTANTS
    NSlots = 2
    Conns = {k1, k2}
    None = None
    StartMayFail = FALSE
    SelectMayFail = FALSE
    DebugNoise = TRUE
CHECK_DEADLOCK FALSE
PROPERTY ShutdownCompletes

SPECIFICATION Spec
CONSTANTS
    NSlots = 2
    Conns = {k1, k2, k3, k4}
    None = None
INVARIANT ClientLimit

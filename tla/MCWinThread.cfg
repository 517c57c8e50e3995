SPECIFICATION FairSpec
CONSTANTS
    Conns = {k1, k2}
    None = None
CHECK_DEADLOCK FALSE
INVARIANT ServingHasEvents
INVARIANT EventsReleased
PROPERTY CancelReturns

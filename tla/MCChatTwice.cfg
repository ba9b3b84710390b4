SPECIFICATION Spec
CONSTANTS
    d1 = d1
    d2 = d2
    Domia = {d1, d2}
    t1 = t1
    t2 = t2
    Turn = {t1, t2}
    None = None
    MaxMarkers = 1
SYMMETRY Symmetry
CHECK_DEADLOCK FALSE
INVARIANT OneInteractionPerExchange

SPECIFICATION Spec
CONSTANTS
    Msgs = {m1, m2, m3}
    Convs = {c1}
    Flows = {f1}
    NSteps = 2
    TTL = 2
    MaxTime = 4
    LastArrival = 4
    None = None
SYMMETRY Symmetry
CHECK_DEADLOCK FALSE
PROPERTIES OnlyQuietFlowsExpire

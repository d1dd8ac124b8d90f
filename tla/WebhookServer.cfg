SPECIFICATION FairSpec
CONSTANTS
    Conns = {c1, c2}
    NoConn = NoConn
    Requests = {r1, r2, r3}
    MaxReads = 2
    MaxDispatch = 1
CHECK_DEADLOCK FALSE
INVARIANTS TypeOK CountersExact CleanShutdown SlotsCrossOnlyLate
PROPERTIES AckedIsHandled PortIsFreed

SPECIFICATION FairSpec
CONSTANTS
    Conns = {c1, c2}
    NoConn = NoConn
    Deliveries = 3
    Inbox = 2
    Buffer = 1
CHECK_DEADLOCK FALSE
INVARIANTS TypeOK InOrder Serial CleanShutdown
PROPERTIES AckedIsHandled CanceledDrains

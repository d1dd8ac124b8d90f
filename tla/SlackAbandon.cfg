SPECIFICATION Spec
CONSTANTS
    Conns = {c1}
    NoConn = NoConn
    Deliveries = 2
    Inbox = 1
    Buffer = 1
CHECK_DEADLOCK FALSE
INVARIANTS AckedNotAbandoned

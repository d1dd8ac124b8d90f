SPECIFICATION Spec
CONSTANTS
    Conns = {c1}
    NoConn = NoConn
    Requests = {r1, r2}
    MaxReads = 2
    MaxDispatch = 1
CHECK_DEADLOCK FALSE
INVARIANTS CountedBeforeDrain

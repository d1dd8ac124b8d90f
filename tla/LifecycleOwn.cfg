SPECIFICATION Spec
CONSTANTS
    Runners = {t1}
    Callers = {t2}
    Conns = {c1, c2}
    NoConn = NoConn
    NoProc = NoProc
INVARIANT RunTearsDownOwn
CHECK_DEADLOCK FALSE

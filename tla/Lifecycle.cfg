SPECIFICATION FairSpec
CONSTANTS
    Runners = {t1, t2}
    Callers = {t2}
    Conns = {c1, c2}
    NoConn = NoConn
    NoProc = NoProc
INVARIANTS
    TypeOK
    TeardownHitsOwnSession
    SessionIsInstalled
PROPERTIES
    CancelEndsSession
    RunReturns
    SettledOnReturn
    ImplementsAdapterSession
CHECK_DEADLOCK FALSE

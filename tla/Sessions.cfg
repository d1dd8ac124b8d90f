SPECIFICATION FairSpec
CONSTANTS
    Conns = {c1, c2}
    NoConn = NoConn
    NewTime = NewTime
    Msgs = {m1, m2}
    MaxTerminals = 2
    Lines = 3
INVARIANTS
    SessionTypes
    ShutdownIsClean
    DoneIsTruthful
    HandledInOrder
    UpdatesKept
PROPERTIES
    EndsAreReported
CHECK_DEADLOCK FALSE

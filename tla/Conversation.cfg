SPECIFICATION FairSpec
CONSTANTS
    Msgs = {m1, m2, m3}
    Convs = {c1, c2}
    Flows = {f1}
    NSteps = 2
    TTL = 1
    MaxTime = 1
    LastArrival = 1
    None = None
CHECK_DEADLOCK FALSE
INVARIANTS TypeOK AnswersMatchSteps AnswersAreOwn EndsOnce
PROPERTIES ForwardOnly AbandonedFlowsGo

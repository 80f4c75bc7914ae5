SPECIFICATION WorkFairSpec
CONSTANTS
    c1 = c1
    c2 = c2
    c3 = c3
    Callers <- MCCallers
CHECK_DEADLOCK FALSE
INVARIANTS
    WorkTypeOK
    WorksAlive
PROPERTIES
    ServiceSpec
    CommandsRun
    WaitersReturn
    JoinReturns

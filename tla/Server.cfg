SPECIFICATION FairSpec
CONSTANTS
    Conns = {c1, c2, c3}
CHECK_DEADLOCK FALSE
INVARIANTS HandledIsClosed ShutdownLeavesNothing
PROPERTIES EveryoneServed AcloseEnds

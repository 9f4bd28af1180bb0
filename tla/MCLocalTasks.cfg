SPECIFICATION FairSpec
CONSTANTS
    Call = {c1, c2, c3}
    Capacity = 1
    NoCall = NoCall
INVARIANTS
    HandoverAgrees
PROPERTIES
    LateWorkerEnds
    ShutdownEndsWorkers
CHECK_DEADLOCK FALSE

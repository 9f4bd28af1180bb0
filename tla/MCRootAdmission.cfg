SPECIFICATION FairSpec
CONSTANTS
    Admitter = {a1, a2}
    Coordinator = {s1, s2}
    Session = {x, y}
    Turn = {t}
    Revision = {7}
    MaxId = 3
    None = None
INVARIANTS
    SealOwned
    PlanAccountedFor
    StopSelectsNewest
    OneSession
    NoLostWakeup
PROPERTIES
    ImplementsStopGate
    StopConcludes
    HeldTaskResumes
CHECK_DEADLOCK FALSE

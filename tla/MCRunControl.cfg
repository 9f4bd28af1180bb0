SPECIFICATION FairSpec
CONSTANTS
    scope = scope
    turn = turn
    Control = {scope, turn}
    Thread = {t1, t2}
    Cause = {stop, failure}
    NoCause = NoCause
    NoControl = NoControl
    Route <- MCRoute
INVARIANTS
    AcknowledgedStopKept
    NoOrphanCause
    EvidenceMatchesClass
    WakeOwed
PROPERTIES
    ImplementsVerdict
    FirstTerminalWins
    AcknowledgedStopConcludes
CHECK_DEADLOCK FALSE

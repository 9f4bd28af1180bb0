SPECIFICATION SysSpec
CONSTANTS
    Worker = w
    Heartbeat = hb
    Chat = chat
    Admitter = {w}
    Coordinator = {hb, s1, s2}
    Session = {chat}
    MaxTurn = 2
    MaxRevision = 3
    Turn <- MCTurn
    Revision <- MCRevision
    MaxId = 3
    None = None
INVARIANTS
    NoTurnEscapesStop
    StopHitsOnlyItsTurn
    LocalMatchesDurable
PROPERTIES
    ImplementsRootAdmission
CHECK_DEADLOCK FALSE

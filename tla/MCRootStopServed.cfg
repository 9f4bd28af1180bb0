SPECIFICATION SysFairSpec
CONSTANTS
    Worker = w
    Heartbeat = hb
    Chat = chat
    Admitter = {w}
    Coordinator = {hb, s1, s2}
    Session = {chat}
    MaxTurn = 2
    MaxRevision = 2
    Turn <- MCTurn
    Revision <- MCRevision
    MaxId = 2
    None = None
PROPERTIES
    AcceptedStopEnds
    RequestIsServed
CHECK_DEADLOCK FALSE

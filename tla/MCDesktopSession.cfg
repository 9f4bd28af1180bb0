SPECIFICATION FairSpec
CONSTANTS
    Session = {s1, s2}
    None = None
    MailboxCapacity = 1
    MaxInput = 3
INVARIANTS
    TerminalNotSkipped
PROPERTIES
    EndsOnlyEndedTurn
    LaunchedRunSettles
    ListenerRetires
CHECK_DEADLOCK FALSE

SPECIFICATION FairSpec
CONSTANTS
    Session = {s1}
    None = None
    MailboxCapacity = 1
    MaxInput = 3
PROPERTIES
    RunningEnds
CHECK_DEADLOCK FALSE

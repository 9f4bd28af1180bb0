\* Two children at once, a follow-up and an interrupt, one environment failure.
CONSTANTS
    Children = 2
    Capacity = 2
    MaxNotices = 2
    MaxItem = 3
    MaxFaults = 1
    MaxInterrupts = 1
SPECIFICATION FairSpec
INVARIANTS
    OneLease
    FollowUpKept
    NoIdleFollowUp
    TurnOwned
PROPERTY FollowUpSettled
\* The bounds on messages and interrupts let the tree fall silent.
CHECK_DEADLOCK FALSE

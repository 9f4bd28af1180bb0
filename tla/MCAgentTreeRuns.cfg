\* Nothing in the environment fails.
CONSTANTS
    Children = 2
    Capacity = 2
    MaxNotices = 2
    MaxItem = 3
    MaxFaults = 0
    MaxInterrupts = 1
SPECIFICATION Spec
INVARIANT FollowUpRuns
CHECK_DEADLOCK FALSE

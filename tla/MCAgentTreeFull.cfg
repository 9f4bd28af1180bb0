\* Two children compete for one slot; turns may hang, threads and monitors run on.
CONSTANTS
    Children = 2
    Capacity = 1
    MaxNotices = 2
    MaxItem = 3
    MaxFaults = 1
    MaxInterrupts = 1
SPECIFICATION HangingSpec
INVARIANT CapacityKept
PROPERTY InterruptLands
CHECK_DEADLOCK FALSE
